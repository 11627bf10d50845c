-------------------------- MODULE ProxyServerProofs --------------------------
(***************************************************************************)
(* Proofs about ProxyServer, for every set of URLs, keys and requests that *)
(* meets the key layout's assumption, every cache mode and any number of   *)
(* failures and restarts.                                                  *)
(*                                                                         *)
(* The second half is about requests none of whose S3 calls failed: they   *)
(* miss nothing that was there, use the best original there was, and leave *)
(* what they make where the next request finds it.                         *)
(***************************************************************************)
EXTENDS ProxyServer, TLAPS

-----------------------------------------------------------------------------
(* What the key layout says of honest objects.  These are facts about      *)
(* constants: no state is involved.                                        *)

\* Every key may hold its own original.
LEMMA OwnOriginal ==
    ASSUME NEW k \in Keys, NEW f, f \in Alias(k), f \in OriginalKeys, NEW v
    PROVE  Honest(k, Original(f, v)) /\ IsOriginalOf(k, Original(f, v))
<1>1. f \in Origins(k)
  BY DEF Origins, FileOf
<1>2. QED
  BY <1>1 DEF Honest, OnDemand, IsOriginalOf, Original

\* What is found where an original is looked for is an original.
LEMMA CandidateIsOriginal ==
    ASSUME NEW u \in Urls, NEW i \in DOMAIN u.cands, NEW o, Honest(u.cands[i], o)
    PROVE  IsOriginalOf(u.cands[i], o)
BY LayoutAssumption, PreparedAssumption DEF Honest, OnDemand

\* What is found under a file's key is an original too.
LEMMA FileKeyHoldsOriginal ==
    ASSUME NEW u \in FileUrls, NEW o, Honest(u.raw, o)
    PROVE  IsOriginalOf(u.raw, o)
BY LayoutAssumption, PreparedAssumption DEF Honest, OnDemand

\* A file found under its own key may be copied to the key it was asked by.
LEMMA FileCopy ==
    ASSUME NEW u \in FileUrls, NEW o, IsOriginalOf(u.cands[1], o)
    PROVE  IsOriginalOf(u.raw, o)
BY LayoutAssumption DEF IsOriginalOf

\* What is found under the key of a rendering is that rendering, if no batch
\* makes it.
LEMMA NormHoldsRendering ==
    ASSUME NEW u \in ImageUrls, NEW o, Honest(u.norm, o), o \notin Prepared[u.norm]
    PROVE  RendersFor(u, o)
<1>1. ~ IsOriginalOf(u.norm, o)
  BY LayoutAssumption DEF IsOriginalOf
<1>2. PICK v \in ImageUrls : v.norm = u.norm /\ RendersFor(v, o)
  BY <1>1 DEF Honest, OnDemand
<1>3. u.opts = v.opts /\ u.cands = v.cands
  BY <1>2, LayoutAssumption
<1>4. QED
  BY <1>2, <1>3 DEF RendersFor

\* What requests file under the key an image URL spells out is the rendering it
\* asks for, or an original that has this very key.
LEMMA RawHoldsRendering ==
    ASSUME NEW u \in ImageUrls, NEW o, OnDemand(u.raw, o)
    PROVE  RendersFor(u, o) \/ IsOriginalOf(u.raw, o)
<1>1. SUFFICES ASSUME NEW v \in ImageUrls, v.norm = u.raw, RendersFor(v, o)
               PROVE  RendersFor(u, o)
  BY DEF OnDemand
<1>2. v.opts = u.opts /\ v.cands = u.cands
  BY <1>1, LayoutAssumption
<1>3. QED
  BY <1>1, <1>2 DEF RendersFor

\* Rendering an original of a URL gives that URL's rendering.
LEMMA RenderingOfOriginal ==
    ASSUME NEW u \in ImageUrls, NEW o \in Object, NEW i \in DOMAIN u.cands,
           IsOriginalOf(u.cands[i], o)
    PROVE  /\ Render(o, u.opts) \in Object
           /\ RendersFor(u, Render(o, u.opts))
<1>1. Render(o, u.opts) = [o EXCEPT !.opts = u.opts]
  BY DEF Render, IsOriginalOf
<1>2. u.opts \in Options
  BY LayoutAssumption, UrlAssumption DEF ImageUrls, Url
<1>3. QED
  BY <1>1, <1>2 DEF RendersFor, IsOriginalOf, Object

\* A rendering is honest under its key, and is not an untouched original.
LEMMA RenderingIsHonest ==
    ASSUME NEW u \in ImageUrls, NEW o, RendersFor(u, o)
    PROVE  Honest(u.norm, o) /\ o.opts # AsIs
BY LayoutAssumption DEF Honest, OnDemand, RendersFor

LEMMA UrlFields ==
    ASSUME NEW u \in Urls
    PROVE  /\ u.raw \in Keys /\ u.norm \in Keys
           /\ \A i \in DOMAIN u.cands : u.cands[i] \in Keys /\ i \in Nat \ {0}
           /\ DOMAIN u.cands = 1 .. Len(u.cands) /\ Len(u.cands) \in Nat
           /\ u.shape \notin {"noext", "other"} => 1 \in DOMAIN u.cands
           /\ u.shape \in Shapes
<1>1. u \in Url
  BY UrlAssumption
<1>2. u.cands \in Seq(Keys)
  BY <1>1 DEF Url
<1>3. u.shape \notin {"noext", "other"} => u.cands # << >>
  BY UrlAssumption
<1>4. QED
  BY <1>1, <1>2, <1>3 DEF Url

-----------------------------------------------------------------------------
(* Steps of the S3 client.                                                 *)

\* A lookup that moves on leaves the request that waits for it as it is.
LEMMA LookupFrame ==
    ASSUME IInv, NEW p \in Procs,
           UNCHANGED <<bucket, catalog, req, mode>>, faults' \in 0 .. MaxFaults,
           call[p].at # "idle",
           call' = [call EXCEPT ![p] = call'[p]],
           call'[p] \in CallRecord, CallOK(call'[p]),
           call'[p].op = call[p].op, call'[p].key = call[p].key, call'[p].at # "idle"
    PROVE  IInv'
<1>1. TypeOK'
  BY DEF IInv, TypeOK, StoreTypeOK
<1>2. StoredIsHonest' /\ LegacyIsOriginal' /\ CacheHoldsNoImageOriginal' /\ ServedAsAsked'
  BY DEF IInv, StoredIsHonest, LegacyIsOriginal, CacheHoldsNoImageOriginal, ServedAsAsked
<1>3. ASSUME NEW q \in Procs
      PROVE  CallOK(call'[q]) /\ ReqOK(req'[q], call'[q])
  <2>1. CASE q = p
    <3>1. ReqOK(req[p], call[p])
      BY DEF IInv
    <3>2. ReqOK(req[p], call'[p])
      BY <3>1 DEF ReqOK
    <3>3. QED
      BY <2>1, <3>2
  <2>2. CASE q # p
    <3>1. call'[q] = call[q]
      BY <2>2 DEF IInv, TypeOK, StoreTypeOK
    <3>2. QED
      BY <3>1 DEF IInv
  <2>3. QED
    BY <2>1, <2>2
<1>4. QED
  BY <1>1, <1>2, <1>3 DEF IInv

\* A write of an honest object, with the answer to the call that made it.
LEMMA WriteFrame ==
    ASSUME IInv, NEW p \in Procs, NEW b \in Clients, NEW k \in Keys,
           UNCHANGED <<catalog, req, mode>>, faults' \in 0 .. MaxFaults,
           call[p].at # "idle",
           call' = [call EXCEPT ![p] = call'[p]],
           call'[p] \in CallRecord, CallOK(call'[p]),
           call'[p].op = call[p].op, call'[p].key = call[p].key, call'[p].at # "idle",
           bucket' = [bucket EXCEPT ![b][k] = bucket'[b][k]],
           bucket'[b][k] \in Object, Honest(k, bucket'[b][k]),
           b = "cache" /\ bucket'[b][k].opts = AsIs => \E u \in FileUrls : u.raw = k
    PROVE  IInv'
<1>1. TypeOK'
  BY DEF IInv, TypeOK, StoreTypeOK, Buckets, Clients, Maybe
<1>2. StoredIsHonest'
  BY DEF IInv, TypeOK, StoreTypeOK, StoredIsHonest, Buckets, Clients
<1>3. LegacyIsOriginal' /\ ServedAsAsked'
  BY DEF IInv, TypeOK, StoreTypeOK, LegacyIsOriginal, ServedAsAsked, Buckets, Clients
<1>4. CacheHoldsNoImageOriginal'
  BY DEF IInv, TypeOK, StoreTypeOK, CacheHoldsNoImageOriginal, Buckets, Clients
<1>5. ASSUME NEW q \in Procs
      PROVE  CallOK(call'[q]) /\ ReqOK(req'[q], call'[q])
  <2>1. CASE q = p
    <3>1. ReqOK(req[p], call[p])
      BY DEF IInv
    <3>2. ReqOK(req[p], call'[p])
      BY <3>1 DEF ReqOK
    <3>3. QED
      BY <2>1, <3>2
  <2>2. CASE q # p
    <3>1. call'[q] = call[q]
      BY <2>2 DEF IInv, TypeOK, StoreTypeOK
    <3>2. QED
      BY <3>1 DEF IInv
  <2>3. QED
    BY <2>1, <2>2
<1>6. QED
  BY <1>1, <1>2, <1>3, <1>4, <1>5 DEF IInv

LEMMA CallTypes ==
    ASSUME IInv, NEW p \in Procs
    PROVE  /\ call[p] \in CallRecord /\ CallOK(call[p])
           /\ req[p] \in RequestRecord /\ ReqOK(req[p], call[p]) /\ Served(req[p])
           /\ call[p].client \in Buckets
BY DEF IInv, TypeOK, StoreTypeOK, ServedAsAsked, CallRecord, Clients, Buckets

\* What the fallback bucket answers for a key belongs under that key.
LEMMA FallbackIsHonest ==
    ASSUME IInv, NEW k \in Keys, NEW f \in Keys, f \in Alias(k),
           bucket["fallback"][f] # Absent
    PROVE  bucket["fallback"][f] \in Object /\ Honest(k, bucket["fallback"][f])
<1>1. bucket["fallback"][f] = Original(f, 0) /\ f \in LegacyKeys
  BY DEF IInv, LegacyIsOriginal
<1>2. bucket["fallback"][f] \in Object
  BY DEF IInv, TypeOK, StoreTypeOK, Maybe, Buckets
<1>3. QED
  BY <1>1, <1>2, OwnOriginal DEF OriginalKeys

LEMMA StoreStep ==
    ASSUME IInv, NEW p \in Procs, S3Step(p), UNCHANGED <<req, mode>>
    PROVE  IInv'
<1>0. /\ call[p] \in CallRecord /\ CallOK(call[p]) /\ call[p].client \in Buckets
      /\ call \in [Procs -> CallRecord] /\ bucket \in [Buckets -> [Keys -> Maybe]]
      /\ faults \in 0 .. MaxFaults
  BY CallTypes DEF IInv, TypeOK, StoreTypeOK
<1>1. CASE PrimaryHit(p)
  <2>1. call[p].key \in Keys /\ call[p].op \in {"get", "exists"}
    BY <1>0, <1>1 DEF PrimaryHit, Looking, CallOK
  <2>2. bucket[call[p].client][call[p].key] \in Object
    BY <1>0, <1>1, <2>1 DEF PrimaryHit, Maybe
  <2>3. Honest(call[p].key, bucket[call[p].client][call[p].key])
    BY <1>0, <1>1, <2>1 DEF PrimaryHit, IInv, StoredIsHonest
  <2>4. /\ call' = [call EXCEPT ![p] = call'[p]]
        /\ call'[p] \in CallRecord /\ CallOK(call'[p]) /\ call'[p].at # "idle"
        /\ call'[p].op = call[p].op /\ call'[p].key = call[p].key
    BY <1>0, <1>1, <2>1, <2>2, <2>3 DEF PrimaryHit, Return, CallRecord, CallOK, Maybe
  <2>5. QED
    BY <1>0, <1>1, <2>4, LookupFrame DEF PrimaryHit
<1>2. CASE PrimaryMiss(p)
  <2>1. call[p].key \in Keys /\ call[p].op \in {"get", "exists"}
    BY <1>0, <1>2 DEF PrimaryMiss, Looking, CallOK
  <2>2. /\ call' = [call EXCEPT ![p] = call'[p]]
        /\ call'[p] \in CallRecord /\ CallOK(call'[p]) /\ call'[p].at # "idle"
        /\ call'[p].op = call[p].op /\ call'[p].key = call[p].key
    BY <1>0, <1>2, <2>1 DEF PrimaryMiss, Return, CallRecord, CallOK, FallsBack, Maybe
  <2>3. QED
    BY <1>0, <1>2, <2>2, LookupFrame DEF PrimaryMiss
<1>3. CASE FallbackHit(p)
  <2> DEFINE f == FallbackKey(call[p])
  <2>1. /\ call[p].key \in Keys /\ call[p].op \in {"get", "exists"}
        /\ call[p].client = "origin"
    BY <1>0, <1>3 DEF FallbackHit, Looking, CallOK
  <2>2. f \in Keys /\ f \in Alias(call[p].key)
    BY <1>0, <1>3, <2>1, StoreAssumption DEF FallbackHit, CallOK, FallbackKey, Alias
  <2>3. bucket["fallback"][f] \in Object /\ Honest(call[p].key, bucket["fallback"][f])
    BY <1>3, <2>1, <2>2, FallbackIsHonest DEF FallbackHit
  <2>4. /\ call' = [call EXCEPT ![p] = call'[p]]
        /\ call'[p] \in CallRecord /\ CallOK(call'[p]) /\ call'[p].at # "idle"
        /\ call'[p].op = call[p].op /\ call'[p].key = call[p].key
    BY <1>0, <1>3, <2>1, <2>3 DEF FallbackHit, Return, CallRecord, CallOK, Maybe
  <2>5. QED
    BY <1>0, <1>3, <2>4, LookupFrame DEF FallbackHit
<1>4. CASE FallbackMiss(p)
  <2>1. /\ call[p].key \in Keys /\ call[p].op \in {"get", "exists"}
        /\ call[p].client = "origin"
    BY <1>0, <1>4 DEF FallbackMiss, Looking, CallOK
  <2>2. /\ call' = [call EXCEPT ![p] = call'[p]]
        /\ call'[p] \in CallRecord /\ CallOK(call'[p]) /\ call'[p].at # "idle"
        /\ call'[p].op = call[p].op /\ call'[p].key = call[p].key
    BY <1>0, <1>4, <2>1 DEF FallbackMiss, Return, CallRecord, CallOK, Maybe
  <2>3. QED
    BY <1>0, <1>4, <2>2, LookupFrame DEF FallbackMiss
<1>5. CASE LookupFails(p)
  <2>1. call[p].key \in Keys /\ call[p].op \in {"get", "exists"}
    BY <1>0, <1>5 DEF LookupFails, Looking, CallOK
  <2>2. /\ call' = [call EXCEPT ![p] = call'[p]]
        /\ call'[p] \in CallRecord /\ CallOK(call'[p]) /\ call'[p].at # "idle"
        /\ call'[p].op = call[p].op /\ call'[p].key = call[p].key
    BY <1>0, <1>5, <2>1 DEF LookupFails, Return, CallRecord, CallOK, Maybe
  <2>3. faults' \in 0 .. MaxFaults
    BY <1>0, <1>5, StoreAssumption DEF LookupFails, Fault
  <2>4. QED
    BY <1>0, <1>5, <2>2, <2>3, LookupFrame DEF LookupFails
<1>6. CASE CopyBack(p) \/ CopyBackFails(p)
  <2> DEFINE k == call[p].key
             d == call[p].data
  <2>1. k \in Keys /\ call[p].op = "get" /\ call[p].client = "origin"
    BY <1>0, <1>6 DEF CopyBack, CopyBackFails, CallOK
  <2>2. d \in Object /\ Honest(k, d)
    BY <1>0, <1>6, <2>1 DEF CopyBack, CopyBackFails, CallOK
  <2>3. /\ call' = [call EXCEPT ![p] = call'[p]]
        /\ call'[p] \in CallRecord /\ CallOK(call'[p]) /\ call'[p].at # "idle"
        /\ call'[p].op = call[p].op /\ call'[p].key = call[p].key
    BY <1>0, <1>6, <2>1, <2>2 DEF CopyBack, CopyBackFails, Return, CallRecord, CallOK, Maybe
  <2>4. faults' \in 0 .. MaxFaults /\ UNCHANGED catalog /\ call[p].at # "idle"
    BY <1>0, <1>6, StoreAssumption DEF CopyBack, CopyBackFails, Fault
  <2>5. CASE UNCHANGED bucket
    BY <2>1, <2>3, <2>4, <2>5, LookupFrame
  <2>6. CASE Store(call[p].client, k, d)
    <3>1. /\ bucket' = [bucket EXCEPT !["origin"][k] = bucket'["origin"][k]]
          /\ bucket'["origin"][k] = d
      BY <1>0, <2>1, <2>6 DEF Store, Buckets
    <3>2. QED
      BY <2>1, <2>2, <2>3, <2>4, <3>1, WriteFrame DEF Clients
  <2>7. QED
    BY <1>6, <2>5, <2>6 DEF CopyBack, CopyBackFails
<1>7. CASE Put(p) \/ PutFails(p)
  <2> DEFINE k == call[p].key
             d == call[p].data
             b == call[p].client
  <2>1. k \in Keys /\ call[p].op = "put" /\ b \in Clients
    BY <1>0, <1>7 DEF Put, PutFails, CallOK, CallRecord
  <2>2. d \in Object /\ Honest(k, d) /\ (d.opts = AsIs => \E u \in FileUrls : u.raw = k)
    BY <1>0, <1>7, <2>1 DEF Put, PutFails, CallOK
  <2>3. /\ call' = [call EXCEPT ![p] = call'[p]]
        /\ call'[p] \in CallRecord /\ CallOK(call'[p]) /\ call'[p].at # "idle"
        /\ call'[p].op = call[p].op /\ call'[p].key = call[p].key
    BY <1>0, <1>7, <2>1 DEF Put, PutFails, Return, CallRecord, CallOK, Maybe
  <2>4. faults' \in 0 .. MaxFaults /\ UNCHANGED catalog /\ call[p].at # "idle"
    BY <1>0, <1>7, StoreAssumption DEF Put, PutFails, Fault
  <2>5. CASE UNCHANGED bucket
    BY <2>1, <2>3, <2>4, <2>5, LookupFrame
  <2>6. CASE Store(b, k, d)
    <3>1. bucket' = [bucket EXCEPT ![b][k] = bucket'[b][k]] /\ bucket'[b][k] = d
      BY <1>0, <2>1, <2>6 DEF Store, Buckets, Clients
    <3>2. QED
      BY <2>1, <2>2, <2>3, <2>4, <3>1, WriteFrame
  <2>7. QED
    BY <1>7, <2>5, <2>6 DEF Put, PutFails
<1>8. QED
  BY <1>1, <1>2, <1>3, <1>4, <1>5, <1>6, <1>7 DEF S3Step

-----------------------------------------------------------------------------
(* Steps of a request.                                                     *)

\* A request that moves on touches nothing but its own two records.
LEMMA RequestFrame ==
    ASSUME IInv, NEW p \in Procs, StoreUnchanged,
           req' = [req EXCEPT ![p] = req'[p]], call' = [call EXCEPT ![p] = call'[p]],
           req'[p] \in RequestRecord, call'[p] \in CallRecord,
           CallOK(call'[p]), ReqOK(req'[p], call'[p]), Served(req'[p])
    PROVE  IInv'
<1>1. TypeOK'
  BY DEF IInv, TypeOK, StoreTypeOK, StoreUnchanged
<1>2. StoredIsHonest' /\ LegacyIsOriginal' /\ CacheHoldsNoImageOriginal'
  BY DEF IInv, StoredIsHonest, LegacyIsOriginal, CacheHoldsNoImageOriginal, StoreUnchanged
<1>3. ASSUME NEW q \in Procs
      PROVE  CallOK(call'[q]) /\ ReqOK(req'[q], call'[q]) /\ Served(req'[q])
  <2>1. CASE q = p
    BY <2>1
  <2>2. CASE q # p
    <3>1. call'[q] = call[q] /\ req'[q] = req[q]
      BY <2>2 DEF IInv, TypeOK, StoreTypeOK
    <3>2. QED
      BY <3>1 DEF IInv, ServedAsAsked
  <2>3. QED
    BY <2>1, <2>2
<1>4. QED
  BY <1>1, <1>2, <1>3 DEF IInv, ServedAsAsked

\* A call that has just been opened, or none.
LEMMA FreshCall ==
    ASSUME NEW client \in Clients, NEW k \in Keys
    PROVE  /\ Call("get", client, k, Absent) \in CallRecord
           /\ CallOK(Call("get", client, k, Absent))
           /\ NoCall \in CallRecord /\ CallOK(NoCall)
BY DEF Call, NoCall, CallRecord, CallOK, Maybe, Clients

LEMMA FreshPut ==
    ASSUME NEW client \in Clients, NEW k \in Keys, NEW d \in Object, Honest(k, d),
           d.opts = AsIs => \E u \in FileUrls : u.raw = k
    PROVE  /\ Call("put", client, k, d) \in CallRecord
           /\ CallOK(Call("put", client, k, d))
BY DEF Call, CallRecord, CallOK, Maybe, Clients

LEMMA ClientTypes ==
    ASSUME IInv
    PROVE  /\ \A header : EffectiveReadClient(header) \in Clients
           /\ Len(PutTargets) \in 1 .. 2
           /\ \A i \in 1 .. Len(PutTargets) : PutTargets[i] \in Clients
<1>1. mode \in {"off", "shadow", "live"}
  BY ModesAssumption DEF IInv, TypeOK
<1>2. QED
  BY <1>1 DEF EffectiveReadClient, PutTargets, CacheClient, Clients

\* Each way the record of a request is updated keeps it one.
LEMMA DoneUpdate ==
    ASSUME NEW r \in RequestRecord, NEW pc \in Stages, NEW s \in Statuses,
           NEW o \in Maybe, NEW f \in BOOLEAN, NEW c \in BOOLEAN
    PROVE  [r EXCEPT !.pc = pc, !.status = s, !.obj = o, !.fresh = f, !.clean = c]
             \in RequestRecord
BY DEF RequestRecord

LEMMA WaitUpdate ==
    ASSUME NEW r \in RequestRecord, NEW pc \in Stages, NEW c \in BOOLEAN
    PROVE  [r EXCEPT !.pc = pc, !.clean = c] \in RequestRecord
BY DEF RequestRecord

LEMMA CandidateUpdate ==
    ASSUME NEW r \in RequestRecord, NEW pc \in Stages, NEW i \in Nat \ {0},
           NEW c \in BOOLEAN
    PROVE  [r EXCEPT !.pc = pc, !.idx = i, !.clean = c] \in RequestRecord
BY DEF RequestRecord

LEMMA FoundUpdate ==
    ASSUME NEW r \in RequestRecord, NEW pc \in Stages, NEW o \in Maybe
    PROVE  [r EXCEPT !.pc = pc, !.obj = o] \in RequestRecord
BY DEF RequestRecord

LEMMA PutUpdate ==
    ASSUME NEW r \in RequestRecord, NEW pc \in Stages, NEW n \in Nat, NEW o \in Maybe
    PROVE  [r EXCEPT !.pc = pc, !.put = n, !.obj = o] \in RequestRecord
BY DEF RequestRecord

LEMMA NextPutUpdate ==
    ASSUME NEW r \in RequestRecord, NEW n \in Nat, NEW c \in BOOLEAN
    PROVE  [r EXCEPT !.put = n, !.clean = c] \in RequestRecord
BY DEF RequestRecord

LEMMA StageNames ==
    /\ "idle" \in Stages /\ "speculate" \in Stages /\ "recheck" \in Stages
    /\ "lookup" \in Stages /\ "candidate" \in Stages /\ "resize" \in Stages
    /\ "file" \in Stages /\ "put" \in Stages /\ "done" \in Stages
    /\ 0 \in Statuses /\ 200 \in Statuses /\ 400 \in Statuses
    /\ 403 \in Statuses /\ 404 \in Statuses /\ 500 \in Statuses
BY DEF Stages, Statuses

\* A request that is answered.
LEMMA RespondStep ==
    ASSUME IInv, NEW p \in Procs, StoreUnchanged,
           NEW status \in Statuses, NEW STATE o, o \in Maybe, NEW fresh \in BOOLEAN,
           req[p].url \in Urls,
           Respond(p, status, o, fresh),
           Served([req[p] EXCEPT !.pc = "done", !.status = status, !.obj = o,
                                 !.fresh = fresh, !.clean = StillClean(p)])
    PROVE  IInv'
<1>0. /\ call[p] \in CallRecord /\ req[p] \in RequestRecord
      /\ call \in [Procs -> CallRecord] /\ req \in [Procs -> RequestRecord]
  BY CallTypes DEF IInv, TypeOK, StoreTypeOK
<1>1. call'[p] = NoCall /\ call' = [call EXCEPT ![p] = call'[p]]
  BY <1>0 DEF Respond, HangUp
<1>2. /\ req'[p] = [req[p] EXCEPT !.pc = "done", !.status = status, !.obj = o,
                                  !.fresh = fresh, !.clean = StillClean(p)]
      /\ req' = [req EXCEPT ![p] = req'[p]]
  BY <1>0 DEF Respond, HangUp
<1>3. StillClean(p) \in BOOLEAN
  BY <1>0 DEF StillClean, RequestRecord
<1>4. req'[p] \in RequestRecord
  <2>1. "done" \in Stages
    BY StageNames
  <2>2. [req[p] EXCEPT !.pc = "done", !.status = status, !.obj = o,
                       !.fresh = fresh, !.clean = StillClean(p)] \in RequestRecord
    BY <1>0, <1>3, <2>1, DoneUpdate
  <2>3. QED
    BY <1>2, <2>2
<1>5. call'[p] \in CallRecord /\ CallOK(call'[p])
  BY <1>1 DEF NoCall, CallRecord, CallOK, Maybe, Clients
<1>6. ReqOK(req'[p], call'[p])
  BY <1>0, <1>1, <1>2 DEF ReqOK, NoCall, RequestRecord
<1>7. QED
  BY <1>1, <1>2, <1>4, <1>5, <1>6, RequestFrame

\* A request that is answered with an error.
LEMMA ErrorStep ==
    ASSUME IInv, NEW p \in Procs, StoreUnchanged, req[p].url \in Urls,
           Respond(p, 404, Absent, FALSE) \/ Respond(p, 500, Absent, FALSE)
    PROVE  IInv'
<1>1. req[p] \in RequestRecord /\ Absent \in Maybe
  BY CallTypes DEF Maybe
<1>2. 404 \in Statuses /\ 500 \in Statuses
  BY StageNames
<1>3. Served([req[p] EXCEPT !.pc = "done", !.status = 404, !.obj = Absent,
                            !.fresh = FALSE, !.clean = StillClean(p)])
  BY <1>1 DEF Served, RequestRecord
<1>4. Served([req[p] EXCEPT !.pc = "done", !.status = 500, !.obj = Absent,
                            !.fresh = FALSE, !.clean = StillClean(p)])
  BY <1>1 DEF Served, RequestRecord
<1>5. CASE Respond(p, 404, Absent, FALSE)
  BY <1>1, <1>2, <1>3, <1>5, RespondStep
<1>6. CASE Respond(p, 500, Absent, FALSE)
  BY <1>1, <1>2, <1>4, <1>6, RespondStep
<1>7. QED
  BY <1>5, <1>6

-----------------------------------------------------------------------------
(* Requests that arrive.                                                   *)

LEMMA ArriveUpdate ==
    ASSUME NEW r \in RequestRecord, NEW pc \in Stages, NEW u \in Urls,
           NEW client \in Clients, NEW had \in SUBSET Nat, NEW kept \in BOOLEAN
    PROVE  [r EXCEPT !.pc = pc, !.url = u, !.reader = client, !.had = had, !.kept = kept]
             \in RequestRecord
BY DEF RequestRecord

LEMMA TurnAwayUpdate ==
    ASSUME NEW r \in RequestRecord, NEW pc \in Stages, NEW u \in Urls,
           NEW status \in Statuses
    PROVE  [r EXCEPT !.pc = pc, !.url = u, !.status = status] \in RequestRecord
BY DEF RequestRecord

LEMMA NewRequest ==
    NoReq \in RequestRecord
BY DEF NoReq, RequestRecord, Maybe, Clients, Stages, Statuses

LEMMA TurnAwayStep ==
    ASSUME IInv, NEW p \in Procs, NEW u \in Urls, NEW status \in Statuses \ {200},
           TurnAway(p, u, status)
    PROVE  IInv'
<1>0. call \in [Procs -> CallRecord] /\ req \in [Procs -> RequestRecord]
  BY DEF IInv, TypeOK, StoreTypeOK
<1> DEFINE r == [NoReq EXCEPT !.pc = "done", !.url = u, !.status = status]
<1>1. /\ req'[p] = r /\ req' = [req EXCEPT ![p] = req'[p]]
      /\ call'[p] = NoCall /\ call' = [call EXCEPT ![p] = call'[p]]
      /\ StoreUnchanged
  BY <1>0 DEF TurnAway, HangUp
<1>2. r \in RequestRecord
  BY NewRequest, TurnAwayUpdate, StageNames
<1>3. NoCall \in CallRecord /\ CallOK(NoCall)
  BY DEF NoCall, CallRecord, CallOK, Maybe, Clients
<1>4. ReqOK(r, NoCall) /\ Served(r)
  BY DEF ReqOK, Served, NoReq, NoCall
<1> HIDE DEF r
<1>5. QED
  BY <1>1, <1>2, <1>3, <1>4, RequestFrame

\* A request that starts by reading key k.
LEMMA ArriveStep ==
    ASSUME IInv, NEW p \in Procs, NEW u \in Urls, NEW pc \in Stages,
           NEW STATE client, client \in Clients, NEW k \in Keys,
           Arrive(p, u, pc, client), Get(p, client, k), StoreUnchanged,
           \/ pc = "speculate" /\ k = u.raw /\ u.shape \notin {"noext", "param"}
           \/ pc = "lookup" /\ k = u.norm /\ u \in ImageUrls /\ u.shape # "resize"
           \/ pc = "candidate" /\ k = u.cands[1] /\ u.shape = "param" /\ u.pass
    PROVE  IInv'
<1>0. call \in [Procs -> CallRecord] /\ req \in [Procs -> RequestRecord]
  BY DEF IInv, TypeOK, StoreTypeOK
<1> DEFINE had == {i \in DOMAIN u.cands : View("origin")[u.cands[i]] # Absent}
           kept == ~ u.pass /\ View(client)[TargetKey(u)] # Absent
           r == [NoReq EXCEPT !.pc = pc, !.url = u, !.reader = client, !.had = had,
                              !.kept = kept]
           c == Call("get", client, k, Absent)
<1>1. /\ req'[p] = r /\ req' = [req EXCEPT ![p] = req'[p]]
      /\ call'[p] = c /\ call' = [call EXCEPT ![p] = call'[p]]
  BY <1>0 DEF Arrive, Get
<1>2. r \in RequestRecord
  <2>1. had \in SUBSET Nat /\ kept \in BOOLEAN
    BY UrlFields
  <2> HIDE DEF had, kept
  <2>2. QED
    BY <2>1, NewRequest, ArriveUpdate
<1>3. c \in CallRecord /\ CallOK(c)
  BY FreshCall
<1>4. ReqOK(r, c) /\ Served(r)
  <2> HIDE DEF had, kept
  <2>1. 1 \in DOMAIN u.cands \/ u.shape \in {"noext", "other"}
    BY UrlFields
  <2>2. QED
    BY <2>1 DEF ReqOK, Served, NoReq, Call
<1> HIDE DEF r, c
<1>5. QED
  BY <1>1, <1>2, <1>3, <1>4, RequestFrame

LEMMA StartStep ==
    ASSUME IInv, NEW p \in Procs, Start(p)
    PROVE  IInv'
<1>1. PICK u \in Urls :
        \/ NoExtension(p, u)
        \/ RejectParam(p, u)
        \/ \E header \in {"none", "true", "false"} :
             Speculate(p, u, header) \/ AcceptParam(p, u, header)
  BY DEF Start
<1>2. CASE NoExtension(p, u)
  BY <1>2, TurnAwayStep DEF NoExtension, Statuses
<1>3. CASE RejectParam(p, u)
  <2>1. PICK i \in DOMAIN Gates : TurnAway(p, u, Gates[i].status)
    BY <1>3 DEF RejectParam
  <2>2. i \in 1 .. 6
    BY DEF Gates
  <2>3. Gates[i].status \in {400, 403, 404}
    <3>1. Gates[1].status = 404 /\ Gates[2].status = 403 /\ Gates[3].status = 400
      BY DEF Gates
    <3>2. Gates[4].status = 404 /\ Gates[5].status = 400 /\ Gates[6].status = 404
      BY DEF Gates
    <3>3. QED
      BY <2>2, <3>1, <3>2
  <2>4. Gates[i].status \in Statuses \ {200}
    BY <2>3 DEF Statuses
  <2>5. QED
    BY <2>1, <2>4, TurnAwayStep
<1>4. ASSUME NEW header \in {"none", "true", "false"},
             Speculate(p, u, header) \/ AcceptParam(p, u, header)
      PROVE  IInv'
  <2>1. EffectiveReadClient(header) \in Clients /\ "origin" \in Clients
    BY ClientTypes DEF Clients
  <2>2. u.raw \in Keys /\ u.norm \in Keys
    BY UrlFields
  <2>3. {"speculate", "lookup", "candidate"} \subseteq Stages
    BY StageNames
  <2>4. CASE Speculate(p, u, header)
    <3>1. u.shape \notin {"noext", "param"}
      BY <2>4 DEF Speculate
    <3>2. QED
      BY <2>1, <2>2, <2>3, <2>4, <3>1, ArriveStep DEF Speculate
  <2>5. CASE AcceptParam(p, u, header) /\ u.pass
    <3>1. u.cands[1] \in Keys
      BY <2>5, UrlFields DEF AcceptParam
    <3>2. QED
      BY <2>1, <2>3, <2>5, <3>1, ArriveStep DEF AcceptParam
  <2>6. CASE AcceptParam(p, u, header) /\ ~ u.pass
    <3>1. u \in ImageUrls /\ u.shape # "resize"
      BY <2>6 DEF AcceptParam, ImageUrls
    <3>2. QED
      BY <2>1, <2>2, <2>3, <2>6, <3>1, ArriveStep DEF AcceptParam
  <2>7. QED
    BY <1>4, <2>4, <2>5, <2>6
<1>5. QED
  BY <1>1, <1>2, <1>3, <1>4

-----------------------------------------------------------------------------
(* Requests that go on.                                                    *)

\* What a request in flight may rely on.
LEMMA InFlight ==
    ASSUME IInv, NEW p \in Procs, req[p].pc # "idle"
    PROVE  /\ req[p].url \in Urls
           /\ StillClean(p) \in BOOLEAN
           /\ call[p].at = "returned" /\ call[p].op = "get" /\ Got(p) =>
                call[p].data \in Object /\ Honest(call[p].key, call[p].data)
<1>1. ReqOK(req[p], call[p]) /\ CallOK(call[p]) /\ req[p] \in RequestRecord
  BY CallTypes
<1>2. QED
  BY <1>1 DEF ReqOK, CallOK, StillClean, Got, RequestRecord

\* A request that makes another read.
LEMMA ReadStep ==
    ASSUME IInv, NEW p \in Procs, StoreUnchanged,
           NEW STATE r, r \in RequestRecord, req' = [req EXCEPT ![p] = r],
           NEW STATE client, client \in Clients, NEW STATE k, k \in Keys,
           Get(p, client, k), r.pc # "done",
           ReqOK(r, Call("get", client, k, Absent))
    PROVE  IInv'
<1>0. call \in [Procs -> CallRecord] /\ req \in [Procs -> RequestRecord]
  BY DEF IInv, TypeOK, StoreTypeOK
<1> DEFINE c == Call("get", client, k, Absent)
<1>1. c \in CallRecord /\ CallOK(c)
  BY FreshCall
<1>2. /\ req'[p] = r /\ req' = [req EXCEPT ![p] = req'[p]]
      /\ call'[p] = c /\ call' = [call EXCEPT ![p] = call'[p]]
  BY <1>0 DEF Get
<1>3. Served(r)
  BY DEF Served
<1>4. ReqOK(r, c)
  OBVIOUS
<1> HIDE DEF c
<1>5. QED
  BY <1>1, <1>2, <1>3, <1>4, RequestFrame

\* The next place the original may be in is tried.
LEMMA TryCandidateStep ==
    ASSUME IInv, NEW p \in Procs, StoreUnchanged, req[p].pc # "idle",
           NEW STATE i, i \in DOMAIN req[p].url.cands, TryCandidate(p, i),
           \/ req[p].url \in ImageUrls
           \/ req[p].url.shape = "param" /\ req[p].url.pass
    PROVE  IInv'
<1> DEFINE r == [req[p] EXCEPT !.pc = "candidate", !.idx = i, !.clean = StillClean(p)]
           k == req[p].url.cands[i]
<1>1. req[p] \in RequestRecord /\ req[p].url \in Urls /\ StillClean(p) \in BOOLEAN
  BY CallTypes, InFlight
<1>2. k \in Keys /\ i \in Nat \ {0}
  BY <1>1, UrlFields
<1>3. r \in RequestRecord
  BY <1>1, <1>2, CandidateUpdate, StageNames
<1>4. /\ r.pc = "candidate" /\ r.idx = i /\ r.url = req[p].url
      /\ req' = [req EXCEPT ![p] = r]
  BY <1>1 DEF RequestRecord, TryCandidate
<1>5. ReqOK(r, Call("get", "origin", k, Absent))
  <2> HIDE DEF r
  <2>1. QED
    BY <1>1, <1>4 DEF ReqOK, Call
<1> HIDE DEF r
<1>6. QED
  BY <1>2, <1>3, <1>4, <1>5, ReadStep DEF TryCandidate, Clients

LEMMA CacheHitStep ==
    ASSUME IInv, NEW p \in Procs, CacheHit(p)
    PROVE  IInv'
<1> DEFINE u == req[p].url
           o == call[p].data
<1>1. /\ req[p] \in RequestRecord /\ ReqOK(req[p], call[p])
      /\ req[p].pc \in {"speculate", "recheck", "lookup"}
      /\ call[p].at = "returned" /\ Got(p)
  BY CallTypes DEF CacheHit, Ready, Returned
<1>2. call[p].op = "get" /\ u \in Urls
  BY <1>1, InFlight DEF ReqOK
<1>3. o \in Object /\ Honest(call[p].key, o)
  BY <1>1, <1>2, InFlight
<1>4. Asked(u, o) \/ (u.shape # "param" /\ o \in Prepared[u.raw])
  <2>1. CASE req[p].pc = "speculate"
    <3>1. call[p].key = u.raw /\ u.shape \in {"resize", "file", "folder", "other"}
      BY <1>1, <1>2, <2>1, UrlFields DEF ReqOK, Shapes
    <3>2. OnDemand(u.raw, o) \/ o \in Prepared[u.raw]
      BY <1>3, <3>1 DEF Honest
    <3>3. CASE o \in Prepared[u.raw]
      BY <3>1, <3>3
    <3>4. CASE OnDemand(u.raw, o) /\ u.shape = "other"
      BY <3>4 DEF Asked
    <3>5. CASE OnDemand(u.raw, o) /\ u.shape = "file"
      BY <1>2, <3>5, FileKeyHoldsOriginal DEF FileUrls, Asked, Honest
    <3>6. CASE OnDemand(u.raw, o) /\ u.shape \in {"resize", "folder"}
      <4>1. u \in ImageUrls
        BY <1>2, <3>6 DEF ImageUrls
      <4>2. RendersFor(u, o) \/ IsOriginalOf(u.raw, o)
        BY <3>6, <4>1, RawHoldsRendering
      <4>3. QED
        BY <3>6, <4>1, <4>2 DEF Asked
    <3>7. QED
      BY <3>1, <3>2, <3>3, <3>4, <3>5, <3>6
  <2>2. CASE req[p].pc \in {"recheck", "lookup"}
    <3>1. u \in ImageUrls /\ u.shape # "resize" /\ call[p].key = u.norm
      BY <1>1, <2>2 DEF ReqOK
    <3>2. Prepared[u.norm] = {}
      BY <3>1, PreparedAssumption
    <3>3. RendersFor(u, o)
      BY <1>3, <3>1, <3>2, NormHoldsRendering
    <3>4. QED
      BY <3>1, <3>3 DEF Asked
  <2>3. QED
    BY <1>1, <2>1, <2>2
<1> DEFINE r == [req[p] EXCEPT !.pc = "done", !.status = 200, !.obj = o,
                               !.fresh = FALSE, !.clean = StillClean(p)]
<1>5. r.url = u /\ r.obj = o
  BY <1>1 DEF RequestRecord
<1>6. Served(r)
  <2> HIDE DEF r, u, o
  <2>1. QED
    BY <1>4, <1>5 DEF Served
<1>7. 200 \in Statuses /\ o \in Maybe
  BY <1>3, StageNames DEF Maybe
<1>8. QED
  BY <1>2, <1>6, <1>7, RespondStep DEF CacheHit

LEMMA SpeculateMissStep ==
    ASSUME IInv, NEW p \in Procs, SpeculateMiss(p)
    PROVE  IInv'
<1> DEFINE u == req[p].url
<1>1. /\ req[p] \in RequestRecord /\ ReqOK(req[p], call[p])
      /\ req[p].pc = "speculate" /\ StoreUnchanged
  BY CallTypes DEF SpeculateMiss, Ready, Returned
<1>2. u \in Urls /\ StillClean(p) \in BOOLEAN /\ req[p].reader \in Clients
  BY <1>1, InFlight DEF RequestRecord
<1>3. /\ u.raw \in Keys /\ u.norm \in Keys /\ u.shape \notin {"noext", "param"}
      /\ u.shape # "other" => 1 \in DOMAIN u.cands /\ u.cands[1] \in Keys
  BY <1>1, <1>2, UrlFields DEF ReqOK
<1>4. CASE u.shape \in {"resize", "folder"} /\ TryCandidate(p, 1)
  BY <1>1, <1>2, <1>3, <1>4, TryCandidateStep DEF ImageUrls
<1>5. CASE /\ u.shape = "folder"
           /\ Get(p, req[p].reader, u.norm)
           /\ req' = [req EXCEPT ![p] = [@ EXCEPT !.pc = "recheck", !.clean = StillClean(p)]]
  <2> DEFINE r == [req[p] EXCEPT !.pc = "recheck", !.clean = StillClean(p)]
             c == Call("get", req[p].reader, u.norm, Absent)
  <2>1. r \in RequestRecord
    BY <1>1, <1>2, WaitUpdate, StageNames
  <2>2. r.pc = "recheck" /\ r.url = u /\ req' = [req EXCEPT ![p] = r]
    BY <1>1, <1>5 DEF RequestRecord
  <2>3. c.op = "get" /\ c.at = "primary" /\ c.key = u.norm
    BY DEF Call
  <2>4. u \in ImageUrls /\ u.shape # "resize"
    BY <1>2, <1>5 DEF ImageUrls
  <2>5. ReqOK(r, c)
    <3> HIDE DEF r, c, u
    <3>1. QED
      BY <1>2, <2>2, <2>3, <2>4 DEF ReqOK
  <2> HIDE DEF r
  <2>6. QED
    BY <1>1, <1>2, <1>3, <1>5, <2>1, <2>2, <2>5, ReadStep
<1>6. CASE /\ u.shape = "file"
           /\ Get(p, "origin", u.cands[1])
           /\ req' = [req EXCEPT ![p] = [@ EXCEPT !.pc = "file", !.clean = StillClean(p)]]
  <2> DEFINE r == [req[p] EXCEPT !.pc = "file", !.clean = StillClean(p)]
             c == Call("get", "origin", u.cands[1], Absent)
  <2>1. r \in RequestRecord
    BY <1>1, <1>2, WaitUpdate, StageNames
  <2>2. r.pc = "file" /\ r.url = u /\ req' = [req EXCEPT ![p] = r]
    BY <1>1, <1>6 DEF RequestRecord
  <2>3. c.op = "get" /\ c.at = "primary" /\ c.key = u.cands[1]
    BY DEF Call
  <2>4. u \in FileUrls /\ "origin" \in Clients
    BY <1>2, <1>6 DEF FileUrls, Clients
  <2>5. ReqOK(r, c)
    <3> HIDE DEF r, c, u
    <3>1. QED
      BY <1>2, <2>2, <2>3, <2>4 DEF ReqOK
  <2> HIDE DEF r
  <2>6. QED
    BY <1>1, <1>3, <1>6, <2>1, <2>2, <2>4, <2>5, ReadStep
<1>7. CASE Respond(p, 404, Absent, FALSE)
  BY <1>1, <1>2, <1>7, ErrorStep
<1>8. QED
  BY <1>4, <1>5, <1>6, <1>7 DEF SpeculateMiss

LEMMA RecheckMissStep ==
    ASSUME IInv, NEW p \in Procs, RecheckMiss(p)
    PROVE  IInv'
<1>1. /\ ReqOK(req[p], call[p]) /\ req[p].pc \in {"recheck", "lookup"}
      /\ StoreUnchanged /\ TryCandidate(p, 1)
  BY CallTypes DEF RecheckMiss, Ready, Returned
<1>2. req[p].url \in ImageUrls /\ req[p].url \in Urls
  BY <1>1 DEF ReqOK, ImageUrls
<1>3. 1 \in DOMAIN req[p].url.cands
  BY <1>2, UrlFields DEF ImageUrls
<1>4. QED
  BY <1>1, <1>2, <1>3, TryCandidateStep

LEMMA CandidateMissStep ==
    ASSUME IInv, NEW p \in Procs, CandidateMiss(p)
    PROVE  IInv'
<1> DEFINE u == req[p].url
           i == req[p].idx
<1>1. /\ ReqOK(req[p], call[p]) /\ req[p].pc = "candidate" /\ StoreUnchanged
  BY CallTypes DEF CandidateMiss, Ready, Returned
<1>2. u \in Urls /\ i \in DOMAIN u.cands
  BY <1>1, InFlight DEF ReqOK
<1>3. CASE i < Len(u.cands) /\ TryCandidate(p, i + 1)
  <2>1. i + 1 \in DOMAIN u.cands
    BY <1>2, <1>3, UrlFields
  <2>2. QED
    BY <1>1, <1>3, <2>1, TryCandidateStep DEF ReqOK
<1>4. CASE Respond(p, 404, Absent, FALSE)
  BY <1>1, <1>2, <1>4, ErrorStep
<1>5. QED
  BY <1>3, <1>4 DEF CandidateMiss

LEMMA CandidateHitStep ==
    ASSUME IInv, NEW p \in Procs, CandidateHit(p)
    PROVE  IInv'
<1> DEFINE u == req[p].url
           o == call[p].data
           i == req[p].idx
<1>1. /\ req[p] \in RequestRecord /\ ReqOK(req[p], call[p])
      /\ req[p].pc = "candidate" /\ StoreUnchanged
      /\ call[p].at = "returned" /\ Got(p)
  BY CallTypes DEF CandidateHit, Ready, Returned
<1>2. /\ call[p].op = "get" /\ u \in Urls
      /\ i \in DOMAIN u.cands /\ call[p].key = u.cands[i]
      /\ u \in ImageUrls \/ (u.shape = "param" /\ u.pass)
  BY <1>1, InFlight DEF ReqOK
<1>3. o \in Object /\ IsOriginalOf(u.cands[i], o)
  BY <1>1, <1>2, InFlight, CandidateIsOriginal
<1>4. o \in Maybe /\ 200 \in Statuses
  BY <1>3, StageNames DEF Maybe
<1>5. CASE u.pass /\ Respond(p, 200, o, FALSE)
  <2> DEFINE r == [req[p] EXCEPT !.pc = "done", !.status = 200, !.obj = o,
                                 !.fresh = FALSE, !.clean = StillClean(p)]
  <2>1. r.url = u /\ r.obj = o
    BY <1>1 DEF RequestRecord
  <2>2. u.shape = "param"
    BY <1>2, <1>5, UrlAssumption
  <2>3. Served(r)
    <3> HIDE DEF r, u, o
    <3>1. QED
      BY <1>2, <1>3, <1>5, <2>1, <2>2 DEF Served, Asked
  <2>4. QED
    BY <1>1, <1>2, <1>4, <1>5, <2>3, RespondStep
<1>6. CASE /\ ~ u.pass
           /\ req' = [req EXCEPT ![p] = [@ EXCEPT !.pc = "resize", !.obj = o]]
           /\ HangUp(p)
  <2> DEFINE r == [req[p] EXCEPT !.pc = "resize", !.obj = o]
  <2>1. r \in RequestRecord
    BY <1>1, <1>4, FoundUpdate, StageNames
  <2>2. /\ r.pc = "resize" /\ r.url = u /\ r.obj = o
        /\ req'[p] = r /\ req' = [req EXCEPT ![p] = req'[p]]
    BY <1>1, <1>6 DEF RequestRecord, IInv, TypeOK
  <2>3. call'[p] = NoCall /\ call' = [call EXCEPT ![p] = call'[p]]
    BY <1>6 DEF HangUp, IInv, TypeOK, StoreTypeOK
  <2>4. u \in ImageUrls
    BY <1>2, <1>6
  <2>5. NoCall.at = "idle" /\ NoCall \in CallRecord /\ CallOK(NoCall)
    BY DEF NoCall, CallRecord, CallOK, Maybe, Clients
  <2>6. ReqOK(r, NoCall) /\ Served(r)
    <3> HIDE DEF r, u, o, i
    <3>1. QED
      BY <1>2, <1>3, <2>2, <2>4, <2>5 DEF ReqOK, Served
  <2> HIDE DEF r
  <2>7. QED
    BY <1>1, <2>1, <2>2, <2>3, <2>5, <2>6, RequestFrame
<1>7. QED
  BY <1>5, <1>6 DEF CandidateHit

\* A request that begins or goes on with the writes of putBoth.
LEMMA WriteStep ==
    ASSUME IInv, NEW p \in Procs, StoreUnchanged,
           req'[p] \in RequestRecord, req' = [req EXCEPT ![p] = req'[p]],
           NEW STATE i, i \in 1 .. Len(PutTargets),
           NEW STATE k, k \in Keys, NEW STATE o, o \in Object, PutTo(p, i, k, o),
           req'[p].pc = "put", req'[p].put \in 1 .. 2, req'[p].obj = o, req'[p].url \in Urls,
           \/ req'[p].url \in ImageUrls /\ RendersFor(req'[p].url, o) /\ k = req'[p].url.norm
           \/ req'[p].url \in FileUrls /\ IsOriginalOf(req'[p].url.raw, o) /\ k = req'[p].url.raw
    PROVE  IInv'
<1> DEFINE u == req'[p].url
           c == Call("put", PutTargets[i], k, o)
<1>0. call \in [Procs -> CallRecord]
  BY DEF IInv, TypeOK, StoreTypeOK
<1>1. PutTargets[i] \in Clients
  BY ClientTypes
<1>2. Honest(k, o) /\ (o.opts = AsIs => \E v \in FileUrls : v.raw = k)
  <2>1. CASE u \in ImageUrls /\ RendersFor(u, o) /\ k = u.norm
    BY <2>1, RenderingIsHonest
  <2>2. CASE u \in FileUrls /\ IsOriginalOf(u.raw, o) /\ k = u.raw
    BY <2>2 DEF Honest, OnDemand
  <2>3. QED
    BY <2>1, <2>2
<1>3. c \in CallRecord /\ CallOK(c)
  BY <1>1, <1>2, FreshPut
<1>4. c.op = "put" /\ c.at = "primary"
  BY DEF Call
<1>5. call'[p] = c /\ call' = [call EXCEPT ![p] = call'[p]]
  BY <1>0 DEF PutTo, PutObject
<1> HIDE DEF c
<1>6. ReqOK(req'[p], c) /\ Served(req'[p])
  BY <1>4 DEF ReqOK, Served
<1>7. QED
  BY <1>3, <1>5, <1>6, RequestFrame

LEMMA ResizeStep ==
    ASSUME IInv, NEW p \in Procs, Resize(p) \/ ResizeFails(p)
    PROVE  IInv'
<1> DEFINE u == req[p].url
           o == Render(req[p].obj, u.opts)
<1>1. /\ req[p] \in RequestRecord /\ ReqOK(req[p], call[p])
      /\ req[p].pc = "resize" /\ StoreUnchanged
  BY CallTypes DEF Resize, ResizeFails
<1>2. u \in Urls /\ u \in ImageUrls
  BY <1>1, InFlight DEF ReqOK
<1>3. o \in Object /\ RendersFor(u, o)
  BY <1>1, <1>2, RenderingOfOriginal DEF ReqOK
<1>4. CASE Resize(p)
  <2> DEFINE r == [req[p] EXCEPT !.pc = "put", !.put = 1, !.obj = o]
  <2> HIDE DEF o
  <2>1. r \in RequestRecord
    BY <1>1, <1>3, PutUpdate, StageNames DEF Maybe
  <2>2. /\ r.pc = "put" /\ r.put = 1 /\ r.obj = o /\ r.url = u
    BY <1>1 DEF RequestRecord
  <2>3. /\ req' = [req EXCEPT ![p] = req'[p]] /\ req'[p] = r
        /\ PutTo(p, 1, u.norm, o)
    BY <1>4 DEF Resize, o, IInv, TypeOK
  <2>4. u.norm \in Keys
    BY <1>2, UrlFields
  <2>5. 1 \in 1 .. Len(PutTargets)
    BY ClientTypes
  <2> HIDE DEF r
  <2>6. QED
    BY <1>1, <1>2, <1>3, <2>1, <2>2, <2>3, <2>4, <2>5, WriteStep
<1>5. CASE ResizeFails(p)
  BY <1>1, <1>2, <1>5, ErrorStep DEF ResizeFails
<1>6. QED
  BY <1>4, <1>5

LEMMA FileFetchedStep ==
    ASSUME IInv, NEW p \in Procs, FileFetched(p) \/ FileMissing(p)
    PROVE  IInv'
<1> DEFINE u == req[p].url
           o == call[p].data
<1>1. /\ req[p] \in RequestRecord /\ ReqOK(req[p], call[p])
      /\ req[p].pc = "file" /\ StoreUnchanged /\ call[p].at = "returned"
  BY CallTypes DEF FileFetched, FileMissing, Ready, Returned
<1>2. u \in Urls /\ u \in FileUrls /\ call[p].op = "get" /\ call[p].key = u.cands[1]
  BY <1>1, InFlight DEF ReqOK
<1>3. 1 \in DOMAIN u.cands
  BY <1>2, UrlFields DEF FileUrls
<1>4. CASE FileFetched(p)
  <2> DEFINE r == [req[p] EXCEPT !.pc = "put", !.put = 1, !.obj = o]
  <2>1. o \in Object /\ IsOriginalOf(u.raw, o)
    BY <1>1, <1>2, <1>3, <1>4, InFlight, CandidateIsOriginal, FileCopy DEF FileFetched
  <2>2. r \in RequestRecord
    BY <1>1, <2>1, PutUpdate, StageNames DEF Maybe
  <2>3. /\ r.pc = "put" /\ r.put = 1 /\ r.obj = o /\ r.url = u
    BY <1>1 DEF RequestRecord
  <2>4. /\ req' = [req EXCEPT ![p] = req'[p]] /\ req'[p] = r
        /\ PutTo(p, 1, u.raw, o)
    BY <1>4 DEF FileFetched, IInv, TypeOK
  <2>5. u.raw \in Keys
    BY <1>2, UrlFields
  <2>6. 1 \in 1 .. Len(PutTargets)
    BY ClientTypes
  <2> HIDE DEF r
  <2>7. QED
    BY <1>1, <1>2, <2>1, <2>2, <2>3, <2>4, <2>5, <2>6, WriteStep
<1>5. CASE FileMissing(p)
  BY <1>1, <1>2, <1>5, ErrorStep DEF FileMissing
<1>6. QED
  BY <1>4, <1>5

LEMMA PutReturnedStep ==
    ASSUME IInv, NEW p \in Procs, PutReturned(p)
    PROVE  IInv'
<1> DEFINE u == req[p].url
           o == req[p].obj
<1>1. /\ req[p] \in RequestRecord /\ ReqOK(req[p], call[p])
      /\ req[p].pc = "put" /\ StoreUnchanged
  BY CallTypes DEF PutReturned, Ready, Returned
<1>2. /\ u \in Urls /\ StillClean(p) \in BOOLEAN /\ o \in Object /\ req[p].put \in 1 .. 2
      /\ \/ u \in ImageUrls /\ RendersFor(u, o)
         \/ u \in FileUrls /\ IsOriginalOf(u.raw, o)
  BY <1>1, InFlight DEF ReqOK
<1>3. CASE /\ req[p].put < Len(PutTargets)
           /\ req' = [req EXCEPT ![p] = [@ EXCEPT !.put = req[p].put + 1, !.clean = StillClean(p)]]
           /\ PutTo(p, req[p].put + 1, TargetKey(u), o)
  <2> DEFINE n == req[p].put + 1
             r == [req[p] EXCEPT !.put = n, !.clean = StillClean(p)]
  <2>1. n \in 1 .. Len(PutTargets) /\ n \in Nat /\ n \in 1 .. 2
    <3> DEFINE last == Len(PutTargets)
               put == req[p].put
    <3>1. put < last /\ last \in 1 .. 2
      BY <1>3, ClientTypes
    <3>2. put \in 1 .. 2
      BY <1>2
    <3> HIDE DEF last, put
    <3>3. put + 1 \in 1 .. last /\ put + 1 \in Nat /\ put + 1 \in 1 .. 2
      BY <3>1, <3>2
    <3>4. QED
      BY <3>3 DEF last, put
  <2>2. req' = [req EXCEPT ![p] = req'[p]] /\ req'[p] = r
    BY <1>3 DEF IInv, TypeOK
  <2>3. PutTo(p, n, TargetKey(u), o)
    BY <1>3
  <2> HIDE DEF n
  <2>4. r \in RequestRecord
    BY <1>1, <1>2, <2>1, NextPutUpdate
  <2>5. /\ r.pc = "put" /\ r.put = n /\ r.obj = o /\ r.url = u
    BY <1>1 DEF RequestRecord
  <2> DEFINE k == TargetKey(u)
  <2>6. /\ k \in Keys
        /\ \/ u \in ImageUrls /\ RendersFor(u, o) /\ k = u.norm
           \/ u \in FileUrls /\ IsOriginalOf(u.raw, o) /\ k = u.raw
    BY <1>2, UrlFields DEF TargetKey, ImageUrls, FileUrls
  <2> HIDE DEF r, k
  <2>7. QED
    BY <1>1, <1>2, <2>1, <2>2, <2>3, <2>4, <2>5, <2>6, WriteStep DEF k
<1>4. CASE Respond(p, 200, o, TRUE)
  <2> DEFINE r == [req[p] EXCEPT !.pc = "done", !.status = 200, !.obj = o,
                                 !.fresh = TRUE, !.clean = StillClean(p)]
  <2>1. r.url = u /\ r.obj = o
    BY <1>1 DEF RequestRecord
  <2>2. u \in FileUrls => u.shape # "param"
    BY DEF FileUrls
  <2>3. Served(r)
    <3> HIDE DEF r, u, o
    <3>1. QED
      BY <1>2, <2>1, <2>2 DEF Served, Asked
  <2>4. o \in Maybe /\ 200 \in Statuses
    BY <1>2, StageNames DEF Maybe
  <2>5. QED
    BY <1>1, <1>2, <1>4, <2>3, <2>4, RespondStep
<1>5. QED
  BY <1>3, <1>4 DEF PutReturned

-----------------------------------------------------------------------------
(* The catalogue, restarts, and the theorems.                              *)

LEMMA PublishStep ==
    ASSUME IInv, NEW k \in CatalogKeys, Publish(k), UNCHANGED <<req, mode>>
    PROVE  IInv'
<1> DEFINE o == Original(k, catalog[k] + 1)
<1>0. /\ k \in Keys /\ bucket \in [Buckets -> [Keys -> Maybe]]
      /\ catalog \in [Keys -> 0 .. MaxVersion] /\ UNCHANGED <<call, faults>>
  BY StoreAssumption DEF IInv, TypeOK, StoreTypeOK, Publish
<1>1. catalog[k] + 1 \in 0 .. MaxVersion
  BY <1>0, StoreAssumption DEF Publish
<1>2. o \in Object
  BY <1>0, <1>1 DEF Original, Object
<1>3. Honest(k, o)
  BY <1>0, OwnOriginal DEF Alias, OriginalKeys
<1>4. bucket' = [bucket EXCEPT !["origin"][k] = o]
  BY DEF Publish, Store
<1>5. catalog' \in [Keys -> 0 .. MaxVersion]
  <2>1. catalog' = [catalog EXCEPT ![k] = catalog[k] + 1]
    BY DEF Publish
  <2>2. QED
    BY <1>0, <1>1, <2>1
<1> HIDE DEF o
<1>6. bucket' \in [Buckets -> [Keys -> Maybe]]
  BY <1>0, <1>2, <1>4 DEF Maybe
<1>7. TypeOK'
  BY <1>0, <1>5, <1>6 DEF IInv, TypeOK, StoreTypeOK
<1>8. StoredIsHonest'
  BY <1>0, <1>3, <1>4 DEF IInv, StoredIsHonest, Buckets
<1>9. LegacyIsOriginal' /\ CacheHoldsNoImageOriginal'
  BY <1>0, <1>4 DEF IInv, LegacyIsOriginal, CacheHoldsNoImageOriginal, Buckets
<1>10. ServedAsAsked' /\ \A p \in Procs : CallOK(call'[p]) /\ ReqOK(req'[p], call'[p])
  BY <1>0 DEF IInv, ServedAsAsked
<1>11. QED
  BY <1>7, <1>8, <1>9, <1>10 DEF IInv

\* A slot with no request is as good as any.
LEMMA IdleIsFine ==
    /\ NoReq \in RequestRecord /\ NoCall \in CallRecord
    /\ CallOK(NoCall) /\ ReqOK(NoReq, NoCall) /\ Served(NoReq)
<1>1. NoCall \in CallRecord /\ CallOK(NoCall)
  BY DEF NoCall, CallRecord, CallOK, Maybe, Clients
<1>2. ReqOK(NoReq, NoCall) /\ Served(NoReq)
  BY DEF ReqOK, Served, NoReq, NoCall
<1>3. QED
  BY <1>1, <1>2, NewRequest

LEMMA RestartStep ==
    ASSUME IInv, NEW m \in Modes, Restart(m)
    PROVE  IInv'
<1>1. /\ mode' = m /\ UNCHANGED <<bucket, catalog, faults>>
      /\ \A p \in Procs : req'[p] = NoReq /\ call'[p] = NoCall
  BY DEF Restart
<1>2. req' \in [Procs -> RequestRecord] /\ call' \in [Procs -> CallRecord]
  BY IdleIsFine DEF Restart
<1>3. TypeOK'
  BY <1>1, <1>2 DEF IInv, TypeOK, StoreTypeOK
<1>4. StoredIsHonest' /\ LegacyIsOriginal' /\ CacheHoldsNoImageOriginal'
  BY <1>1 DEF IInv, StoredIsHonest, LegacyIsOriginal, CacheHoldsNoImageOriginal
<1>5. ServedAsAsked' /\ \A p \in Procs : CallOK(call'[p]) /\ ReqOK(req'[p], call'[p])
  BY <1>1, IdleIsFine DEF ServedAsAsked
<1>6. QED
  BY <1>3, <1>4, <1>5 DEF IInv

LEMMA InitIsInv ==
    Init => IInv
<1> SUFFICES ASSUME Init PROVE IInv
  OBVIOUS
<1>1. /\ mode \in Modes /\ faults = 0 /\ catalog = [k \in Keys |-> 0]
      /\ \A p \in Procs : req[p] = NoReq /\ call[p] = NoCall
  BY DEF Init, StoreInit
<1>2. req \in [Procs -> RequestRecord] /\ call \in [Procs -> CallRecord]
  BY IdleIsFine DEF Init, StoreInit
<1>3. PICK old \in SUBSET LegacyKeys :
        bucket = [b \in Buckets |->
                    IF b = "fallback"
                      THEN [k \in Keys |-> IF k \in old THEN Original(k, 0) ELSE Absent]
                      ELSE NothingStored]
  BY DEF Init, StoreInit
<1>4. \A k \in LegacyKeys : k \in Keys /\ Original(k, 0) \in Object /\ Honest(k, Original(k, 0))
  <2> SUFFICES ASSUME NEW k \in LegacyKeys
               PROVE  k \in Keys /\ Original(k, 0) \in Object /\ Honest(k, Original(k, 0))
    OBVIOUS
  <2>1. k \in Keys /\ 0 \in 0 .. MaxVersion
    BY StoreAssumption
  <2>2. QED
    BY <2>1, OwnOriginal DEF Original, Object, Alias, OriginalKeys
<1>5. /\ \A k \in Keys : bucket["fallback"][k] = IF k \in old THEN Original(k, 0) ELSE Absent
      /\ \A b \in Clients, k \in Keys : bucket[b][k] = Absent
      /\ bucket \in [Buckets -> [Keys -> Maybe]]
  BY <1>3, <1>4 DEF NothingStored, Buckets, Clients, Maybe
<1>6. TypeOK
  BY <1>1, <1>2, <1>5, StoreAssumption DEF TypeOK, StoreTypeOK
<1>7. StoredIsHonest
  BY <1>4, <1>5 DEF StoredIsHonest, Buckets, Clients
<1>8. LegacyIsOriginal /\ CacheHoldsNoImageOriginal
  BY <1>5 DEF LegacyIsOriginal, CacheHoldsNoImageOriginal, Clients
<1>9. ServedAsAsked /\ \A p \in Procs : CallOK(call[p]) /\ ReqOK(req[p], call[p])
  BY <1>1, IdleIsFine DEF ServedAsAsked
<1>10. QED
  BY <1>6, <1>7, <1>8, <1>9 DEF IInv

LEMMA NextKeepsInv ==
    IInv /\ [Next]_vars => IInv'
<1> SUFFICES ASSUME IInv, [Next]_vars PROVE IInv'
  OBVIOUS
<1>1. ASSUME NEW p \in Procs, Start(p) PROVE IInv'
  BY <1>1, StartStep
<1>2. ASSUME NEW p \in Procs, Continue(p) PROVE IInv'
  BY <1>2, CacheHitStep, SpeculateMissStep, RecheckMissStep, CandidateHitStep,
     CandidateMissStep, ResizeStep, FileFetchedStep, PutReturnedStep DEF Continue
<1>3. ASSUME NEW p \in Procs, S3Step(p), UNCHANGED <<req, mode>> PROVE IInv'
  BY <1>3, StoreStep
<1>4. ASSUME NEW k \in CatalogKeys, Publish(k), UNCHANGED <<req, mode>> PROVE IInv'
  BY <1>4, PublishStep
<1>5. ASSUME NEW m \in Modes, Restart(m) PROVE IInv'
  BY <1>5, RestartStep
<1>6. CASE UNCHANGED vars
  BY <1>6 DEF vars, IInv, TypeOK, StoreTypeOK, StoredIsHonest, LegacyIsOriginal,
              CacheHoldsNoImageOriginal, ServedAsAsked
<1>7. QED
  BY <1>1, <1>2, <1>3, <1>4, <1>5, <1>6 DEF Next

\* The inductive invariant holds throughout: what the buckets hold, what S3
\* calls carry and what requests hold or have answered is honest.
THEOREM InductiveInvariant == Spec => []IInv
BY InitIsInv, NextKeepsInv, PTL DEF Spec

\* Every variable keeps its type (ServeHTTP and everything it calls).
THEOREM TypeCorrect == Spec => []TypeOK
<1>1. IInv => TypeOK
  BY DEF IInv
<1>2. QED
  BY <1>1, InductiveInvariant, PTL

\* Nothing is ever filed under another object's key, whatever requests,
\* copy-backs, failed or half-done dual writes, cache-mode changes and restarts
\* interleave (handleResize, handleFile, handleParams, putBoth, Client.Get).
THEOREM StoredHonestly == Spec => []StoredIsHonest
<1>1. IInv => StoredIsHonest
  BY DEF IInv
<1>2. QED
  BY <1>1, InductiveInvariant, PTL

\* Every successful answer is what its URL asks for (ServeHTTP, handleResize,
\* handleFile, handleParams).
THEOREM ServedHonestly == Spec => []ServedAsAsked
<1>1. IInv => ServedAsAsked
  BY DEF IInv
<1>2. QED
  BY <1>1, InductiveInvariant, PTL

\* The cache bucket never receives an original but through handleFile: lazy
\* migration stays in the origin bucket (Client.Get, SetFallback in main.go).
THEOREM CacheStaysClean == Spec => []CacheHoldsNoImageOriginal
<1>1. IInv => CacheHoldsNoImageOriginal
  BY DEF IInv
<1>2. QED
  BY <1>1, InductiveInvariant, PTL

-----------------------------------------------------------------------------
(* Beside batches (module ImageProxy).                                     *)

\* A step of a request touches nothing but its own two records, and any call it
\* opens has yet to be made.
LEMMA RequestMoves ==
    ASSUME IInv, NEW p \in Procs, Start(p) \/ Continue(p)
    PROVE  /\ StoreUnchanged
           /\ req' = [req EXCEPT ![p] = req'[p]] /\ call' = [call EXCEPT ![p] = call'[p]]
           /\ call'[p].at \in {"idle", "primary"}
<1>0. call \in [Procs -> CallRecord] /\ req \in [Procs -> RequestRecord]
  BY DEF IInv, TypeOK, StoreTypeOK
<1> DEFINE Moves(c, r) == /\ call' = [call EXCEPT ![p] = c] /\ c.at \in {"idle", "primary"}
                          /\ req' = [req EXCEPT ![p] = r] /\ StoreUnchanged
<1>1. ASSUME NEW c, NEW r, Moves(c, r)
      PROVE  /\ StoreUnchanged
             /\ req' = [req EXCEPT ![p] = req'[p]] /\ call' = [call EXCEPT ![p] = call'[p]]
             /\ call'[p].at \in {"idle", "primary"}
  BY <1>0, <1>1
<1>2. NoCall.at = "idle" /\ \A op, client, k, d : Call(op, client, k, d).at = "primary"
  BY DEF NoCall, Call
<1>3. CASE Start(p)
  <2>1. PICK u \in Urls :
          \/ NoExtension(p, u) \/ RejectParam(p, u)
          \/ \E header \in {"none", "true", "false"} :
               Speculate(p, u, header) \/ AcceptParam(p, u, header)
    BY <1>3 DEF Start
  <2>2. CASE NoExtension(p, u) \/ RejectParam(p, u)
    <3>1. \E r : Moves(NoCall, r)
      BY <1>2, <2>2 DEF NoExtension, RejectParam, TurnAway, HangUp
    <3>2. QED
      BY <1>1, <3>1
  <2>3. CASE \E header \in {"none", "true", "false"} :
               Speculate(p, u, header) \/ AcceptParam(p, u, header)
    <3>1. \E c, r : Moves(c, r)
      BY <1>2, <2>3 DEF Speculate, AcceptParam, Arrive, Get
    <3>2. QED
      BY <1>1, <3>1
  <2>4. QED
    BY <2>1, <2>2, <2>3
<1>4. CASE Continue(p)
  <2>1. CASE \E status, o, fresh : Respond(p, status, o, fresh) /\ StoreUnchanged
    <3>1. \E r : Moves(NoCall, r)
      BY <1>2, <2>1 DEF Respond, HangUp
    <3>2. QED
      BY <1>1, <3>1
  <2>2. CASE \E i : TryCandidate(p, i) /\ StoreUnchanged
    <3>1. PICK i : TryCandidate(p, i) /\ StoreUnchanged
      BY <2>2
    <3> DEFINE c == Call("get", "origin", req[p].url.cands[i], Absent)
               r == [req[p] EXCEPT !.pc = "candidate", !.idx = i, !.clean = StillClean(p)]
    <3>2. Moves(c, r)
      BY <1>0, <1>2, <3>1 DEF TryCandidate, Get
    <3> HIDE DEF c, r
    <3>3. QED
      BY <1>1, <3>2
  <2>3. CASE SpeculateMiss(p)
    <3> DEFINE u == req[p].url
               c == Call("get", req[p].reader, u.norm, Absent)
               r == [req[p] EXCEPT !.pc = "recheck", !.clean = StillClean(p)]
               d == Call("get", "origin", u.cands[1], Absent)
               s == [req[p] EXCEPT !.pc = "file", !.clean = StillClean(p)]
    <3>1. \/ TryCandidate(p, 1) /\ StoreUnchanged
          \/ Get(p, req[p].reader, u.norm) /\ req' = [req EXCEPT ![p] = r] /\ StoreUnchanged
          \/ Get(p, "origin", u.cands[1]) /\ req' = [req EXCEPT ![p] = s] /\ StoreUnchanged
          \/ Respond(p, 404, Absent, FALSE) /\ StoreUnchanged
      BY <1>0, <2>3 DEF SpeculateMiss
    <3>2. /\ Get(p, req[p].reader, u.norm) /\ req' = [req EXCEPT ![p] = r] /\ StoreUnchanged
               => Moves(c, r)
          /\ Get(p, "origin", u.cands[1]) /\ req' = [req EXCEPT ![p] = s] /\ StoreUnchanged
               => Moves(d, s)
      <4> HIDE DEF r, s
      <4>1. QED
        BY <1>2 DEF Get
    <3> HIDE DEF c, r, d, s
    <3>3. QED
      BY <1>1, <2>1, <2>2, <3>1, <3>2
  <2>4. CASE CandidateHit(p)
    <3>1. \/ \E status, o, fresh : Respond(p, status, o, fresh) /\ StoreUnchanged
          \/ \E r : Moves(NoCall, r)
      BY <1>2, <2>4 DEF CandidateHit, HangUp
    <3>2. QED
      BY <1>1, <2>1, <3>1
  <2>5. CASE Resize(p) \/ FileFetched(p)
    <3>1. \E c, r : Moves(c, r)
      BY <1>2, <2>5 DEF Resize, FileFetched, PutTo, PutObject
    <3>2. QED
      BY <1>1, <3>1
  <2>6. CASE PutReturned(p)
    <3> DEFINE n == req[p].put + 1
               c == Call("put", PutTargets[n], TargetKey(req[p].url), req[p].obj)
               r == [req[p] EXCEPT !.put = n, !.clean = StillClean(p)]
    <3>1. \/ PutTo(p, n, TargetKey(req[p].url), req[p].obj) /\ req' = [req EXCEPT ![p] = r]
             /\ StoreUnchanged
          \/ Respond(p, 200, req[p].obj, TRUE) /\ StoreUnchanged
      BY <1>0, <2>6 DEF PutReturned
    <3> HIDE DEF r
    <3>2. /\ PutTo(p, n, TargetKey(req[p].url), req[p].obj) /\ req' = [req EXCEPT ![p] = r]
          /\ StoreUnchanged
          => Moves(c, r)
      BY <1>2 DEF PutTo, PutObject
    <3> HIDE DEF c
    <3>3. QED
      BY <1>1, <2>1, <3>1, <3>2
  <2>7. /\ CacheHit(p) \/ ResizeFails(p) \/ FileMissing(p) =>
             \E status, o, fresh : Respond(p, status, o, fresh) /\ StoreUnchanged
        /\ RecheckMiss(p) => \E i : TryCandidate(p, i) /\ StoreUnchanged
    BY Zenon DEF CacheHit, ResizeFails, FileMissing, RecheckMiss
  <2>8. CandidateMiss(p) =>
          \/ \E status, o, fresh : Respond(p, status, o, fresh) /\ StoreUnchanged
          \/ \E i : TryCandidate(p, i) /\ StoreUnchanged
    BY Zenon DEF CandidateMiss
  <2>9. \/ CacheHit(p) \/ SpeculateMiss(p) \/ RecheckMiss(p)
        \/ CandidateHit(p) \/ CandidateMiss(p) \/ Resize(p) \/ ResizeFails(p)
        \/ FileFetched(p) \/ FileMissing(p) \/ PutReturned(p)
    BY <1>4 DEF Continue
  <2>10. QED
    BY <2>1, <2>2, <2>3, <2>4, <2>5, <2>6, <2>7, <2>8, <2>9
<1>5. QED
  BY <1>3, <1>4

LEMMA InService ==
    ASSUME NEW p \in Procs, Continue(p)
    PROVE  req[p].pc # "idle"
BY DEF Continue, CacheHit, SpeculateMiss, RecheckMiss, CandidateHit, CandidateMiss, Resize,
       ResizeFails, FileFetched, FileMissing, PutReturned, Ready

\* A slot that serves no request opens an honest call.
LEMMA OtherCallStep ==
    ASSUME IInv, NEW p \in Procs, req[p] = NoReq, UNCHANGED req, StoreUnchanged,
           call' = [call EXCEPT ![p] = call'[p]], call'[p] \in CallRecord, CallOK(call'[p])
    PROVE  IInv'
<1>1. req' = [req EXCEPT ![p] = req'[p]] /\ req'[p] = NoReq
  BY DEF IInv, TypeOK
<1>2. NoReq \in RequestRecord /\ ReqOK(NoReq, call'[p]) /\ Served(NoReq)
  BY NewRequest DEF ReqOK, Served, NoReq
<1>3. QED
  BY <1>1, <1>2, RequestFrame

-----------------------------------------------------------------------------
(* The inductive invariant.                                                *)

\* What the fallback bucket of B answers for key k, under either spelling.
OldValue(B, k) ==
    IF B["fallback"][k] # Absent \/ Strip[k] = NoKey THEN B["fallback"][k]
    ELSE B["fallback"][Strip[k]]

\* A lookup of k through the origin client would find something.
Held(B, k) == B["origin"][k] # Absent \/ (HasFallback /\ OldValue(B, k) # Absent)

\* PutTargets in mode m.
TargetsOf(m) == IF m = "off" THEN <<"origin">>
                ELSE IF m = "shadow" THEN <<"origin", "cache">> ELSE <<"cache", "origin">>

\* What was there when the request arrived still is.
HadStays(r, B) ==
    r.pc # "idle" => \A i \in r.had : i \in DOMAIN r.url.cands /\ Held(B, r.url.cands[i])

\* The places before the one it is at held nothing.
InOrder(r) == \A i \in r.had : r.idx <= i

\* A search for an original does not miss one that was there.
SearchOK(r, c, B) ==
    /\ r.pc \in {"speculate", "file"} => r.idx = 1
    /\ c.at = "returned" =>
         c.res \in IF c.op = "put" THEN {"ok", "error"} ELSE {"ok", "notfound", "error"}
    /\ r.pc \in {"candidate", "file"} =>
         /\ c.client = "origin" /\ r.idx \in DOMAIN r.url.cands /\ c.key = r.url.cands[r.idx]
         /\ r.idx \in r.had =>
              /\ c.at = "fallback" => OldValue(B, c.key) # Absent
              /\ c.at = "stripped" => B["fallback"][Strip[c.key]] # Absent
              /\ c.at = "returned" => c.res # "notfound"
    /\ r.clean /\ r.pc \in {"candidate", "file", "resize", "put"} => InOrder(r)

\* Each write that has succeeded left something under the key.
WritesOK(r, c, B, m) ==
    r.pc = "put" =>
      /\ r.put \in DOMAIN TargetsOf(m)
      /\ c.client = TargetsOf(m)[r.put] /\ c.key = TargetKey(r.url)
      /\ c.at = "returned" /\ c.res = "ok" => B[c.client][c.key] # Absent
      /\ r.clean => \A j \in 1 .. r.put - 1 : B[TargetsOf(m)[j]][TargetKey(r.url)] # Absent

AnswerOK(r, B, m) ==
    r.pc = "done" /\ r.clean =>
      /\ r.status = 404 => r.had = {}
      /\ r.fresh => /\ InOrder(r)
                    /\ B["origin"][TargetKey(r.url)] # Absent
                    /\ m # "off" => B["cache"][TargetKey(r.url)] # Absent

\* A lookup of k through client c would find something.
Shown(B, c, k) == B[c][k] # Absent \/ (FallsBack(c) /\ OldValue(B, k) # Absent)

\* What its reader showed when the request arrived is still shown.
KeptStays(r, B) == r.pc # "idle" /\ r.kept => Shown(B, r.reader, TargetKey(r.url))

\* The request looks up the very key of what it asks for, and that was there.
Seeks(r, c) ==
    r.kept /\ r.pc \in {"speculate", "recheck", "lookup"} /\ c.key = TargetKey(r.url)

\* Such a lookup does not miss it.
LookupOK(r, c, B) ==
    Seeks(r, c) =>
      /\ c.client = r.reader
      /\ c.at = "fallback" => OldValue(B, c.key) # Absent
      /\ c.at = "stripped" => B["fallback"][Strip[c.key]] # Absent
      /\ c.at = "returned" => c.res # "notfound"

\* A request past its lookups asks for something that was not there.
NotRemade(r) ==
    /\ r.clean /\ r.kept
    /\ r.pc \in {"candidate", "file", "resize", "put"} \/ (r.pc = "done" /\ r.fresh)
    => NeverLookedUp(r.url)

KeptOK(r, c, B) == KeptStays(r, B) /\ LookupOK(r, c, B) /\ NotRemade(r)

CleanOK(r, c, B, m) ==
    /\ HadStays(r, B) /\ SearchOK(r, c, B)
    /\ WritesOK(r, c, B, m) /\ AnswerOK(r, B, m) /\ KeptOK(r, c, B)

CleanInv == \A p \in Procs : CleanOK(req[p], call[p], bucket, mode)

-----------------------------------------------------------------------------
(* Nothing that is stored ever goes away.                                  *)

Grows(B, C) ==
    /\ C["fallback"] = B["fallback"]
    /\ \A b \in Clients, k \in Keys : B[b][k] # Absent => C[b][k] # Absent

LEMMA Modes3 ==
    ASSUME IInv
    PROVE  mode \in {"off", "shadow", "live"} /\ PutTargets = TargetsOf(mode)
<1>1. mode \in {"off", "shadow", "live"}
  BY ModesAssumption DEF IInv, TypeOK
<1>2. QED
  BY <1>1 DEF PutTargets, TargetsOf, CacheClient

LEMMA TargetFacts ==
    ASSUME NEW m
    PROVE  /\ Len(TargetsOf(m)) = IF m = "off" THEN 1 ELSE 2
           /\ DOMAIN TargetsOf(m) = 1 .. Len(TargetsOf(m))
           /\ \A j \in DOMAIN TargetsOf(m) : TargetsOf(m)[j] \in Clients
           /\ m = "off" => TargetsOf(m)[1] = "origin"
           /\ m # "off" => /\ "origin" \in {TargetsOf(m)[1], TargetsOf(m)[2]}
                           /\ "cache" \in {TargetsOf(m)[1], TargetsOf(m)[2]}
<1>1. CASE m = "off"
  BY <1>1 DEF TargetsOf, Clients
<1>2. CASE m = "shadow"
  BY <1>2 DEF TargetsOf, Clients
<1>3. CASE m # "off" /\ m # "shadow"
  BY <1>3 DEF TargetsOf, Clients
<1>4. QED
  BY <1>1, <1>2, <1>3

LEMMA TargetKeyType ==
    ASSUME NEW u \in Urls
    PROVE  TargetKey(u) \in Keys
BY UrlFields DEF TargetKey

\* What is known of a request stays true as the buckets grow.
LEMMA GrowthKeeps ==
    ASSUME NEW r \in RequestRecord, NEW c, NEW B, NEW C, NEW m, Grows(B, C),
           CleanOK(r, c, B, m), r.pc # "idle" => r.url \in Urls
    PROVE  CleanOK(r, c, C, m)
<1>1. "origin" \in Clients /\ "cache" \in Clients
  BY DEF Clients
<1>2. HadStays(r, C)
  BY <1>1, UrlFields DEF CleanOK, HadStays, Held, OldValue, Grows
<1>3. SearchOK(r, c, C)
  BY DEF CleanOK, SearchOK, OldValue, Grows
<1>4. WritesOK(r, c, C, m)
  <2> SUFFICES ASSUME r.pc = "put" PROVE WritesOK(r, c, C, m)
    BY DEF WritesOK
  <2>1. r.url \in Urls /\ TargetKey(r.url) \in Keys /\ r.put \in Nat
    BY TargetKeyType DEF RequestRecord
  <2>2. /\ r.put \in DOMAIN TargetsOf(m) /\ TargetsOf(m)[r.put] \in Clients
        /\ \A j \in 1 .. r.put - 1 : j \in DOMAIN TargetsOf(m)
    <3>1. r.put \in DOMAIN TargetsOf(m)
      BY DEF CleanOK, WritesOK
    <3>2. r.put \in 1 .. Len(TargetsOf(m)) /\ Len(TargetsOf(m)) \in Nat
      BY <3>1, TargetFacts
    <3>3. QED
      BY <3>1, <3>2, TargetFacts
  <2>3. \A j \in 1 .. r.put - 1 : TargetsOf(m)[j] \in Clients
    BY <2>2, TargetFacts
  <2>4. QED
    BY <2>1, <2>2, <2>3 DEF CleanOK, WritesOK, Grows
<1>5. AnswerOK(r, C, m)
  BY <1>1, TargetKeyType DEF CleanOK, AnswerOK, Grows
<1>6. KeptOK(r, c, C)
  <2>1. KeptStays(r, B) /\ LookupOK(r, c, B) /\ NotRemade(r)
    BY DEF CleanOK, KeptOK
  <2>2. KeptStays(r, C)
    <3>1. r.reader \in Clients
      BY DEF RequestRecord
    <3>2. QED
      BY <2>1, <3>1, TargetKeyType DEF KeptStays, Shown, OldValue, Grows
  <2>3. LookupOK(r, c, C)
    BY <2>1 DEF LookupOK, OldValue, Grows
  <2>4. QED
    BY <2>1, <2>2, <2>3 DEF KeptOK
<1>7. QED
  BY <1>2, <1>3, <1>4, <1>5, <1>6 DEF CleanOK

LEMMA CleanFacts ==
    ASSUME IInv, CleanInv, NEW p \in Procs
    PROVE  /\ req[p] \in RequestRecord /\ call[p] \in CallRecord
           /\ ReqOK(req[p], call[p]) /\ CallOK(call[p])
           /\ CleanOK(req[p], call[p], bucket, mode)
           /\ req[p].pc # "idle" => req[p].url \in Urls
           /\ req \in [Procs -> RequestRecord] /\ call \in [Procs -> CallRecord]
           /\ bucket \in [Buckets -> [Keys -> Maybe]]
BY CallTypes DEF IInv, TypeOK, StoreTypeOK, CleanInv, ReqOK

\* p moves on, and so perhaps does the store.
LEMMA CleanFrame ==
    ASSUME IInv, CleanInv, NEW p \in Procs, Grows(bucket, bucket'), mode' = mode,
           req' = [req EXCEPT ![p] = req'[p]], call' = [call EXCEPT ![p] = call'[p]],
           CleanOK(req'[p], call'[p], bucket', mode)
    PROVE  CleanInv'
<1> SUFFICES ASSUME NEW q \in Procs PROVE CleanOK(req'[q], call'[q], bucket', mode')
  BY DEF CleanInv
<1>1. CASE q = p
  BY <1>1
<1>2. CASE q # p
  <2>1. req'[q] = req[q] /\ call'[q] = call[q]
    BY <1>2, CleanFacts
  <2>2. CleanOK(req[q], call[q], bucket', mode)
    BY CleanFacts, GrowthKeeps
  <2>3. QED
    BY <2>1, <2>2
<1>3. QED
  BY <1>1, <1>2

LEMMA SameGrows ==
    ASSUME UNCHANGED bucket
    PROVE  Grows(bucket, bucket')
BY DEF Grows

LEMMA StoreGrows ==
    ASSUME IInv, NEW c \in Clients, NEW k \in Keys, NEW STATE d, d \in Object, Store(c, k, d)
    PROVE  Grows(bucket, bucket') /\ bucket'[c][k] # Absent
<1>1. bucket \in [Buckets -> [Keys -> Maybe]] /\ d # Absent
  BY StoreAssumption DEF IInv, TypeOK, StoreTypeOK
<1>2. bucket' = [bucket EXCEPT ![c][k] = d]
  BY DEF Store
<1>3. QED
  BY <1>1, <1>2 DEF Grows, Clients, Buckets

-----------------------------------------------------------------------------
(* Steps of the S3 client.                                                 *)

\* The call of p moves on; nothing else is known to change.
CallMoves(p) ==
    /\ call' = [call EXCEPT ![p] = call'[p]]
    /\ call'[p].op = call[p].op /\ call'[p].client = call[p].client
    /\ call'[p].key = call[p].key /\ UNCHANGED <<req, mode>>

\* What the request is looking for was there.
Expects(r, c) ==
    (r.pc \in {"candidate", "file"} /\ r.idx \in r.had) \/ Seeks(r, c)

\* A call moves on: what its request knows stays true if it misses nothing.
LEMMA CallMovesClean ==
    ASSUME IInv, CleanInv, NEW p \in Procs, CallMoves(p), Grows(bucket, bucket'),
           call'[p].at # "primary",
           call'[p].at = "returned" =>
             call'[p].res \in IF call[p].op = "put" THEN {"ok", "error"}
                              ELSE {"ok", "notfound", "error"},
           Expects(req[p], call[p]) =>
             /\ call'[p].at = "fallback" => OldValue(bucket, call[p].key) # Absent
             /\ call'[p].at = "stripped" => bucket["fallback"][Strip[call[p].key]] # Absent
             /\ call'[p].at = "returned" => call'[p].res # "notfound",
           call[p].op = "put" /\ call'[p].at = "returned" /\ call'[p].res = "ok" =>
             bucket'[call[p].client][call[p].key] # Absent
    PROVE  CleanInv'
<1> DEFINE r == req[p]
           c == call[p]
           d == call'[p]
<1>1. /\ r \in RequestRecord /\ CleanOK(r, c, bucket, mode) /\ ReqOK(r, c)
      /\ r.pc # "idle" => r.url \in Urls
  BY CleanFacts
<1>2. CleanOK(r, c, bucket', mode)
  BY <1>1, GrowthKeeps
<1>3. d.op = c.op /\ d.client = c.client /\ d.key = c.key
  BY DEF CallMoves
<1>4. SearchOK(r, d, bucket')
  <2>1. r.pc \in {"candidate", "file"} =>
          /\ c.client = "origin" /\ r.idx \in DOMAIN r.url.cands /\ c.key = r.url.cands[r.idx]
    BY <1>1 DEF CleanOK, SearchOK
  <2>2. \A k : OldValue(bucket', k) = OldValue(bucket, k)
    BY DEF OldValue, Grows
  <2>3. bucket'["fallback"] = bucket["fallback"]
    BY DEF Grows
  <2>4. /\ r.pc \in {"speculate", "file"} => r.idx = 1
        /\ r.clean /\ r.pc \in {"candidate", "file", "resize", "put"} => InOrder(r)
    BY <1>1 DEF CleanOK, SearchOK
  <2> HIDE DEF r, c, d
  <2>5. QED
    BY <1>3, <2>1, <2>2, <2>3, <2>4 DEF SearchOK, Expects, r, c, d
<1>5. WritesOK(r, d, bucket', mode)
  <2>1. WritesOK(r, c, bucket', mode) /\ (r.pc = "put" => c.op = "put")
    BY <1>1, <1>2 DEF CleanOK, ReqOK
  <2>2. r.pc = "put" /\ d.at = "returned" /\ d.res = "ok" => bucket'[c.client][c.key] # Absent
    BY <2>1
  <2> HIDE DEF r, c, d
  <2>3. QED
    BY <1>3, <2>1, <2>2 DEF WritesOK
<1>k. KeptOK(r, d, bucket')
  <2>1. KeptStays(r, bucket') /\ LookupOK(r, c, bucket') /\ NotRemade(r)
    BY <1>2 DEF CleanOK, KeptOK
  <2>2. \A k : OldValue(bucket', k) = OldValue(bucket, k)
    BY DEF OldValue, Grows
  <2>3. bucket'["fallback"] = bucket["fallback"]
    BY DEF Grows
  <2>4. Seeks(r, d) => Seeks(r, c) /\ Expects(r, c)
    <3> HIDE DEF r, c, d
    <3>1. QED
      BY <1>3 DEF Seeks, Expects
  <2>5. LookupOK(r, d, bucket')
    <3> HIDE DEF r, c, d
    <3>1. QED
      BY <1>3, <2>1, <2>2, <2>3, <2>4 DEF LookupOK, r, c, d
  <2>6. QED
    BY <2>1, <2>5 DEF KeptOK
<1>6. CleanOK(r, d, bucket', mode)
  BY <1>2, <1>4, <1>5, <1>k DEF CleanOK
<1>7. req'[p] = r /\ mode' = mode /\ req' = [req EXCEPT ![p] = req'[p]]
  BY CleanFacts DEF CallMoves
<1>8. QED
  BY <1>6, <1>7, CleanFrame DEF CallMoves

LEMMA ReturnMovesCall ==
    ASSUME IInv, CleanInv, NEW p \in Procs, NEW res, NEW STATE d, Return(p, res, d),
           UNCHANGED <<req, mode>>
    PROVE  CallMoves(p) /\ call'[p].at = "returned" /\ call'[p].res = res
BY CleanFacts DEF Return, CallMoves, CallRecord

LEMMA AtMovesCall ==
    ASSUME IInv, CleanInv, NEW p \in Procs, NEW at,
           call' = [call EXCEPT ![p].at = at], UNCHANGED <<req, mode>>
    PROVE  CallMoves(p) /\ call'[p].at = at
BY CleanFacts DEF CallMoves, CallRecord

\* What a request expects to find is there to be found.
LEMMA ExpectedIsShown ==
    ASSUME IInv, CleanInv, NEW p \in Procs, Expects(req[p], call[p])
    PROVE  /\ Shown(bucket, call[p].client, call[p].key)
           /\ call[p].at = "fallback" => OldValue(bucket, call[p].key) # Absent
           /\ call[p].at = "stripped" => bucket["fallback"][Strip[call[p].key]] # Absent
<1> DEFINE r == req[p]
           c == call[p]
<1>1. HadStays(r, bucket) /\ SearchOK(r, c, bucket) /\ KeptOK(r, c, bucket)
  BY CleanFacts DEF CleanOK
<1> HIDE DEF r, c
<1>2. CASE r.pc \in {"candidate", "file"} /\ r.idx \in r.had
  <2>1. Held(bucket, c.key) /\ c.client = "origin"
    BY <1>1, <1>2 DEF HadStays, SearchOK
  <2>2. Shown(bucket, c.client, c.key)
    BY <2>1 DEF Held, Shown, FallsBack
  <2>3. QED
    BY <1>1, <1>2, <2>2 DEF SearchOK, r, c
<1>3. CASE Seeks(r, c)
  <2>1. Shown(bucket, c.client, c.key)
    BY <1>1, <1>3 DEF KeptOK, KeptStays, LookupOK, Seeks
  <2>2. QED
    BY <1>1, <1>3, <2>1 DEF KeptOK, LookupOK, r, c
<1>4. QED
  BY <1>2, <1>3 DEF Expects, r, c

LEMMA PrimaryClean ==
    ASSUME IInv, CleanInv, NEW p \in Procs, PrimaryHit(p) \/ PrimaryMiss(p),
           UNCHANGED <<req, mode>>
    PROVE  CleanInv'
<1> DEFINE c == call[p]
<1>1. c.op # "put" /\ Grows(bucket, bucket') /\ c.key \in Keys
  BY CleanFacts, SameGrows DEF PrimaryHit, PrimaryMiss, Looking, CallOK
<1>2. CASE PrimaryHit(p)
  <2>1. CallMoves(p) /\ call'[p].at = "returned" /\ call'[p].res = "ok"
    BY <1>2, ReturnMovesCall DEF PrimaryHit
  <2>2. QED
    BY <1>1, <2>1, CallMovesClean
<1>3. CASE PrimaryMiss(p)
  <2>1. \/ FallsBack(c.client) /\ CallMoves(p) /\ call'[p].at = "fallback"
        \/ /\ ~ FallsBack(c.client)
           /\ CallMoves(p) /\ call'[p].at = "returned" /\ call'[p].res = "notfound"
    BY <1>3, ReturnMovesCall, AtMovesCall DEF PrimaryMiss
  <2>2. Expects(req[p], c) => Shown(bucket, c.client, c.key)
    BY ExpectedIsShown
  <2>3. Expects(req[p], c) => OldValue(bucket, c.key) # Absent /\ FallsBack(c.client)
    BY <1>3, <2>2 DEF PrimaryMiss, Shown
  <2>4. QED
    BY <1>1, <2>1, <2>3, CallMovesClean
<1>4. QED
  BY <1>2, <1>3

LEMMA FallbackClean ==
    ASSUME IInv, CleanInv, NEW p \in Procs, FallbackHit(p) \/ FallbackMiss(p),
           UNCHANGED <<req, mode>>
    PROVE  CleanInv'
<1> DEFINE c == call[p]
<1>1. c.op # "put" /\ Grows(bucket, bucket') /\ c.at \in {"fallback", "stripped"}
  BY CleanFacts, SameGrows DEF FallbackHit, FallbackMiss, Looking, CallOK
<1>2. CASE FallbackHit(p)
  <2>1. CASE c.op = "get"
    <3>1. CallMoves(p) /\ call'[p].at = "copyback"
      BY <1>1, <1>2, <2>1, CleanFacts DEF FallbackHit, CallMoves, CallRecord
    <3>2. QED
      BY <1>1, <3>1, CallMovesClean
  <2>2. CASE c.op # "get"
    <3>1. CallMoves(p) /\ call'[p].at = "returned" /\ call'[p].res = "ok"
      BY <1>2, <2>2, ReturnMovesCall DEF FallbackHit
    <3>2. QED
      BY <1>1, <3>1, CallMovesClean
  <2>3. QED
    BY <2>1, <2>2
<1>3. CASE FallbackMiss(p)
  <2>1. \/ /\ c.at = "fallback" /\ Strip[c.key] # NoKey
           /\ CallMoves(p) /\ call'[p].at = "stripped"
        \/ /\ ~ (c.at = "fallback" /\ Strip[c.key] # NoKey)
           /\ CallMoves(p) /\ call'[p].at = "returned" /\ call'[p].res = "notfound"
    BY <1>3, ReturnMovesCall, AtMovesCall DEF FallbackMiss
  <2>2. bucket["fallback"][FallbackKey(c)] = Absent
    BY <1>3 DEF FallbackMiss
  <2>3. Expects(req[p], c) =>
          /\ c.at = "fallback" => OldValue(bucket, c.key) # Absent
          /\ c.at = "stripped" => bucket["fallback"][Strip[c.key]] # Absent
    BY ExpectedIsShown
  <2>4. QED
    BY <1>1, <2>1, <2>2, <2>3, CallMovesClean DEF FallbackKey, OldValue
<1>4. QED
  BY <1>2, <1>3

LEMMA ErrorClean ==
    ASSUME IInv, CleanInv, NEW p \in Procs, LookupFails(p), UNCHANGED <<req, mode>>
    PROVE  CleanInv'
<1>1. Grows(bucket, bucket') /\ call[p].op # "put"
  BY CleanFacts, SameGrows DEF LookupFails, Looking, CallOK
<1>2. CallMoves(p) /\ call'[p].at = "returned" /\ call'[p].res = "error"
  BY ReturnMovesCall DEF LookupFails
<1>3. QED
  BY <1>1, <1>2, CallMovesClean

LEMMA CopyBackClean ==
    ASSUME IInv, CleanInv, NEW p \in Procs, CopyBack(p) \/ CopyBackFails(p),
           UNCHANGED <<req, mode>>
    PROVE  CleanInv'
<1>1. /\ call[p].op = "get" /\ call[p].data \in Object
      /\ call[p].client \in Clients /\ call[p].key \in Keys
  BY CleanFacts DEF CopyBack, CopyBackFails, CallOK, CallRecord
<1>2. Grows(bucket, bucket')
  BY <1>1, SameGrows, StoreGrows DEF CopyBack, CopyBackFails
<1>3. CallMoves(p) /\ call'[p].at = "returned" /\ call'[p].res = "ok"
  BY ReturnMovesCall DEF CopyBack, CopyBackFails
<1>4. QED
  BY <1>1, <1>2, <1>3, CallMovesClean

LEMMA PutClean ==
    ASSUME IInv, CleanInv, NEW p \in Procs, Put(p) \/ PutFails(p), UNCHANGED <<req, mode>>
    PROVE  CleanInv'
<1>1. /\ call[p].op = "put" /\ call[p].data \in Object
      /\ call[p].client \in Clients /\ call[p].key \in Keys
      /\ ~ Expects(req[p], call[p])
  BY CleanFacts DEF Expects, Seeks, Put, PutFails, CallOK, CallRecord, ReqOK
<1>2. Grows(bucket, bucket')
  BY <1>1, SameGrows, StoreGrows DEF Put, PutFails
<1>3. CASE Put(p)
  <2>1. CallMoves(p) /\ call'[p].at = "returned" /\ call'[p].res = "ok"
    BY <1>3, ReturnMovesCall DEF Put
  <2>2. bucket'[call[p].client][call[p].key] # Absent
    BY <1>1, <1>3, StoreGrows DEF Put
  <2>3. QED
    BY <1>1, <1>2, <2>1, <2>2, CallMovesClean
<1>4. CASE PutFails(p)
  <2>1. CallMoves(p) /\ call'[p].at = "returned" /\ call'[p].res = "error"
    BY <1>4, ReturnMovesCall DEF PutFails
  <2>2. QED
    BY <1>1, <1>2, <2>1, CallMovesClean
<1>5. QED
  BY <1>3, <1>4

LEMMA StoreClean ==
    ASSUME IInv, CleanInv, NEW p \in Procs, S3Step(p), UNCHANGED <<req, mode>>
    PROVE  CleanInv'
BY PrimaryClean, FallbackClean, ErrorClean, CopyBackClean, PutClean DEF S3Step

LEMMA PublishClean ==
    ASSUME IInv, CleanInv, NEW k \in CatalogKeys, Publish(k), UNCHANGED <<req, mode>>
    PROVE  CleanInv'
<1> DEFINE o == Original(k, catalog[k] + 1)
<1>1. k \in Keys /\ catalog[k] + 1 \in 0 .. MaxVersion
  BY StoreAssumption DEF Publish, IInv, TypeOK, StoreTypeOK
<1>2. o \in Object /\ Store("origin", k, o) /\ "origin" \in Clients
  BY <1>1 DEF Publish, Original, Object, Clients
<1> HIDE DEF o
<1>3. Grows(bucket, bucket')
  BY <1>1, <1>2, StoreGrows
<1>4. ASSUME NEW p \in Procs PROVE CleanOK(req[p], call[p], bucket', mode)
  BY <1>3, CleanFacts, GrowthKeeps
<1>5. QED
  BY <1>4 DEF CleanInv, Publish

-----------------------------------------------------------------------------
(* Steps of a request: the buckets stay as they are.                       *)

\* p's request is answered.
Closes(p) ==
    /\ req' = [req EXCEPT ![p] = req'[p]] /\ call' = [call EXCEPT ![p] = call'[p]]
    /\ call'[p] = NoCall /\ req'[p].pc = "done" /\ req'[p].clean = StillClean(p)
    /\ req'[p].had = req[p].had /\ req'[p].url = req[p].url /\ req'[p].idx = req[p].idx
    /\ req'[p].kept = req[p].kept /\ req'[p].reader = req[p].reader

Closing(p, status, fresh) ==
    Closes(p) /\ req'[p].status = status /\ req'[p].fresh = fresh

LEMMA RespondCloses ==
    ASSUME IInv, CleanInv, NEW p \in Procs, NEW status, NEW STATE o, NEW fresh,
           Respond(p, status, o, fresh)
    PROVE  Closing(p, status, fresh)
<1>1. call' = [call EXCEPT ![p] = NoCall] /\ call'[p] = NoCall
  BY CleanFacts DEF Respond, HangUp
<1>2. /\ req' = [req EXCEPT ![p] = req'[p]]
      /\ req'[p] = [req[p] EXCEPT !.pc = "done", !.status = status, !.obj = o,
                                  !.fresh = fresh, !.clean = StillClean(p)]
  BY CleanFacts DEF Respond
<1>3. /\ req'[p].pc = "done" /\ req'[p].clean = StillClean(p)
      /\ req'[p].status = status /\ req'[p].fresh = fresh
      /\ req'[p].had = req[p].had /\ req'[p].url = req[p].url /\ req'[p].idx = req[p].idx
      /\ req'[p].kept = req[p].kept /\ req'[p].reader = req[p].reader
  BY <1>2, CleanFacts DEF RequestRecord
<1>4. call' = [call EXCEPT ![p] = call'[p]]
  BY <1>1
<1>5. QED
  BY <1>1, <1>2, <1>3, <1>4 DEF Closes, Closing

LEMMA RespondClean ==
    ASSUME IInv, CleanInv, NEW p \in Procs, StoreUnchanged, req[p].pc # "idle", Closes(p),
           StillClean(p) /\ req'[p].status = 404 => req[p].had = {},
           StillClean(p) /\ req'[p].fresh =>
             /\ InOrder(req[p]) /\ req[p].pc = "put"
             /\ bucket["origin"][TargetKey(req[p].url)] # Absent
             /\ mode # "off" => bucket["cache"][TargetKey(req[p].url)] # Absent
    PROVE  CleanInv'
<1> DEFINE r == req'[p]
<1>1. HadStays(req[p], bucket) /\ KeptOK(req[p], call[p], bucket)
  BY CleanFacts DEF CleanOK
<1>2. HadStays(r, bucket) /\ SearchOK(r, NoCall, bucket) /\ WritesOK(r, NoCall, bucket, mode)
  BY <1>1 DEF HadStays, SearchOK, WritesOK, NoCall, Closes
<1>3. AnswerOK(r, bucket, mode)
  BY DEF AnswerOK, InOrder, Closes
<1>k. KeptOK(r, NoCall, bucket)
  <2>1. KeptStays(r, bucket) /\ LookupOK(r, NoCall, bucket)
    BY <1>1 DEF KeptOK, KeptStays, LookupOK, Seeks, Closes
  <2>2. NotRemade(r)
    BY <1>1 DEF KeptOK, NotRemade, Closes, StillClean
  <2>3. QED
    BY <2>1, <2>2 DEF KeptOK
<1>4. CleanOK(r, call'[p], bucket', mode) /\ Grows(bucket, bucket') /\ mode' = mode
  BY <1>2, <1>3, <1>k, SameGrows DEF CleanOK, StoreUnchanged, Closes
<1>5. QED
  BY <1>4, CleanFrame DEF Closes

\* A request that makes its next read.
LEMMA ReadClean ==
    ASSUME IInv, CleanInv, NEW p \in Procs, StoreUnchanged, req[p].pc # "idle",
           NEW STATE client, NEW STATE k, Get(p, client, k),
           NEW pc, req'[p].pc = pc, req' = [req EXCEPT ![p] = req'[p]],
           req'[p].had = req[p].had, req'[p].url = req[p].url,
           req'[p].kept = req[p].kept, req'[p].reader = req[p].reader,
           pc \in {"recheck", "candidate", "file"},
           pc = "recheck" => client = req[p].reader,
           pc = "file" => req'[p].idx = 1,
           pc \in {"candidate", "file"} =>
             /\ req'[p].clean /\ req[p].kept => NeverLookedUp(req[p].url)
             /\ client = "origin" /\ req'[p].idx \in DOMAIN req[p].url.cands
             /\ k = req[p].url.cands[req'[p].idx]
             /\ req'[p].clean => InOrder(req'[p])
    PROVE  CleanInv'
<1> DEFINE r == req'[p]
           c == call'[p]
<1>1. /\ call' = [call EXCEPT ![p] = c]
      /\ c.at = "primary" /\ c.client = client /\ c.key = k
  BY CleanFacts DEF Get, Call
<1>2. HadStays(req[p], bucket) /\ KeptStays(req[p], bucket)
  BY CleanFacts DEF CleanOK, KeptOK
<1> HIDE DEF r, c
<1>3. HadStays(r, bucket) /\ KeptStays(r, bucket)
  BY <1>2 DEF HadStays, KeptStays, r
<1>4. SearchOK(r, c, bucket)
  BY <1>1 DEF SearchOK, r
<1>5. WritesOK(r, c, bucket, mode) /\ AnswerOK(r, bucket, mode)
  BY DEF WritesOK, AnswerOK, r
<1>k. LookupOK(r, c, bucket) /\ NotRemade(r)
  BY <1>1 DEF LookupOK, Seeks, NotRemade, r
<1>6. CleanOK(r, c, bucket', mode) /\ Grows(bucket, bucket') /\ mode' = mode
  BY <1>3, <1>4, <1>5, <1>k, SameGrows DEF CleanOK, KeptOK, StoreUnchanged
<1>7. QED
  BY <1>1, <1>6, CleanFrame DEF r, c

\* The i-th place is tried when those before it are known to have held nothing.
LEMMA TryClean ==
    ASSUME IInv, CleanInv, NEW p \in Procs, StoreUnchanged, req[p].pc # "idle",
           NEW STATE i, TryCandidate(p, i), i \in DOMAIN req[p].url.cands,
           StillClean(p) => \A j \in req[p].had : i <= j,
           StillClean(p) /\ req[p].kept => NeverLookedUp(req[p].url)
    PROVE  CleanInv'
<1>1. /\ req' = [req EXCEPT ![p] = req'[p]] /\ req'[p].pc = "candidate"
      /\ req'[p].had = req[p].had /\ req'[p].url = req[p].url /\ req'[p].idx = i
      /\ req'[p].kept = req[p].kept /\ req'[p].reader = req[p].reader
      /\ req'[p].clean = StillClean(p)
      /\ Get(p, "origin", req[p].url.cands[i])
  BY CleanFacts DEF TryCandidate, RequestRecord
<1>2. req'[p].clean => InOrder(req'[p])
  BY <1>1 DEF InOrder
<1>3. QED
  BY <1>1, <1>2, ReadClean

LEMMA PositionFacts ==
    ASSUME NEW u \in Urls, NEW had, \A i \in had : i \in DOMAIN u.cands
    PROVE  /\ \A i \in had : i \in Nat /\ 1 <= i /\ i <= Len(u.cands)
           /\ u.shape \in {"noext", "other"} => had = {}
           /\ u.shape \notin {"noext", "other"} => 1 \in DOMAIN u.cands
           /\ u.shape = "file" => \A i \in had : i = 1
<1>1. /\ DOMAIN u.cands = 1 .. Len(u.cands) /\ Len(u.cands) \in Nat
      /\ u.shape \notin {"noext", "other"} => 1 \in DOMAIN u.cands
  BY UrlFields
<1>2. u.shape \in {"noext", "other"} => u.cands = << >>
  BY UrlAssumption
<1>3. u.shape = "file" => Len(u.cands) = 1
  BY UrlAssumption
<1>4. \A i \in had : i \in Nat /\ 1 <= i /\ i <= Len(u.cands)
  BY <1>1
<1>5. u.shape \in {"noext", "other"} => had = {}
  <2>1. u.cands = << >> => Len(u.cands) = 0
    OBVIOUS
  <2>2. QED
    BY <1>2, <1>4, <2>1
<1>6. u.shape = "file" => \A i \in had : i = 1
  BY <1>3, <1>4
<1>7. QED
  BY <1>1, <1>4, <1>5, <1>6

\* What a request in flight knows.
LEMMA KnownClean ==
    ASSUME IInv, CleanInv, NEW p \in Procs, req[p].pc # "idle"
    PROVE  /\ req[p].url \in Urls /\ ReqOK(req[p], call[p])
           /\ \A i \in req[p].had : i \in DOMAIN req[p].url.cands
           /\ SearchOK(req[p], call[p], bucket) /\ WritesOK(req[p], call[p], bucket, mode)
           /\ LookupOK(req[p], call[p], bucket) /\ NotRemade(req[p])
BY CleanFacts DEF CleanOK, HadStays, KeptOK

\* A lookup of what a request asks for misses without an error: it was not there.
LEMMA LookupMissed ==
    ASSUME IInv, CleanInv, NEW p \in Procs, Ready(p, {"speculate", "recheck", "lookup"}),
           ~ Got(p), StillClean(p), call[p].key = TargetKey(req[p].url)
    PROVE  ~ req[p].kept
<1>1. /\ req[p].pc \in {"speculate", "recheck", "lookup"} /\ call[p].at = "returned"
      /\ call[p].res # "ok" /\ call[p].res # "error" /\ call[p].op = "get"
  BY KnownClean DEF Ready, Returned, Got, StillClean, ReqOK
<1>2. call[p].res = "notfound"
  BY <1>1, KnownClean DEF SearchOK
<1>3. QED
  BY <1>1, <1>2, KnownClean DEF LookupOK, Seeks

\* A miss without an error means that there was nothing.
LEMMA MissIsTrue ==
    ASSUME IInv, CleanInv, NEW p \in Procs, Ready(p, {"candidate", "file"}), ~ Got(p),
           StillClean(p)
    PROVE  \A i \in req[p].had : i \in Nat /\ req[p].idx + 1 <= i
<1>1. /\ req[p].pc \in {"candidate", "file"} /\ call[p].at = "returned" /\ req[p].clean
      /\ call[p].res # "ok" /\ call[p].res # "error" /\ call[p].op = "get"
  BY KnownClean DEF Ready, Returned, Got, StillClean, ReqOK
<1>2. req[p].idx \notin req[p].had /\ InOrder(req[p])
  BY <1>1, KnownClean DEF SearchOK
<1>3. /\ \A i \in req[p].had : i \in Nat /\ req[p].idx <= i /\ req[p].idx # i
      /\ req[p].idx \in Nat
  BY <1>1, <1>2, KnownClean, PositionFacts, CleanFacts DEF InOrder, RequestRecord
<1>4. QED
  BY <1>3

LEMMA CacheHitClean ==
    ASSUME IInv, CleanInv, NEW p \in Procs, CacheHit(p)
    PROVE  CleanInv'
<1>1. req[p].pc # "idle" /\ StoreUnchanged
  BY DEF CacheHit, Ready
<1>c. Closing(p, 200, FALSE)
  BY RespondCloses DEF CacheHit
<1>2. Closes(p) /\ req'[p].status = 200 /\ req'[p].fresh = FALSE
  BY <1>c DEF Closing
<1>3. QED
  BY <1>1, <1>2, RespondClean

LEMMA FirstTryClean ==
    ASSUME IInv, CleanInv, NEW p \in Procs, StoreUnchanged, req[p].pc # "idle",
           TryCandidate(p, 1), req[p].url.shape \notin {"noext", "other"},
           StillClean(p) /\ req[p].kept => NeverLookedUp(req[p].url)
    PROVE  CleanInv'
<1>1. /\ \A j \in req[p].had : 1 <= j
      /\ 1 \in DOMAIN req[p].url.cands
  BY KnownClean, PositionFacts
<1>2. QED
  BY <1>1, TryClean

LEMMA SpeculateMissClean ==
    ASSUME IInv, CleanInv, NEW p \in Procs, SpeculateMiss(p)
    PROVE  CleanInv'
<1> DEFINE u == req[p].url
<1>1. /\ req[p].pc = "speculate" /\ StoreUnchanged /\ u \in Urls /\ req[p].idx = 1
      /\ \A i \in req[p].had : i \in DOMAIN u.cands
      /\ call[p].key = u.raw
  BY KnownClean DEF SpeculateMiss, Ready, SearchOK, ReqOK
<1>k. StillClean(p) /\ u.raw = TargetKey(u) => ~ req[p].kept
  BY <1>1, LookupMissed DEF SpeculateMiss, Ready
<1>2. CASE /\ u.shape = "resize" \/ (u.shape = "folder" /\ u.norm = u.raw)
           /\ TryCandidate(p, 1)
  <2>1. StillClean(p) /\ req[p].kept => NeverLookedUp(u)
    BY <1>2, <1>k DEF TargetKey, NeverLookedUp
  <2>2. QED
    BY <1>1, <1>2, <2>1, FirstTryClean
<1>3. CASE /\ Get(p, req[p].reader, u.norm)
           /\ req' = [req EXCEPT ![p] = [@ EXCEPT !.pc = "recheck", !.clean = StillClean(p)]]
  <2>1. /\ req'[p].pc = "recheck" /\ req' = [req EXCEPT ![p] = req'[p]]
        /\ req'[p].had = req[p].had /\ req'[p].url = req[p].url
        /\ req'[p].kept = req[p].kept /\ req'[p].reader = req[p].reader
    BY <1>3, CleanFacts DEF RequestRecord
  <2>2. QED
    BY <1>1, <1>3, <2>1, ReadClean
<1>4. CASE /\ u.shape = "file" /\ Get(p, "origin", u.cands[1])
           /\ req' = [req EXCEPT ![p] = [@ EXCEPT !.pc = "file", !.clean = StillClean(p)]]
  <2>1. /\ req'[p].pc = "file" /\ req' = [req EXCEPT ![p] = req'[p]]
        /\ req'[p].had = req[p].had /\ req'[p].url = req[p].url /\ req'[p].idx = 1
        /\ req'[p].kept = req[p].kept /\ req'[p].reader = req[p].reader
        /\ req'[p].clean = StillClean(p)
    BY <1>1, <1>4, CleanFacts DEF RequestRecord
  <2>2. InOrder(req'[p]) /\ 1 \in DOMAIN u.cands
    BY <1>1, <1>4, <2>1, PositionFacts DEF InOrder
  <2>3. req'[p].clean => ~ req[p].kept
    BY <1>4, <1>k, <2>1 DEF TargetKey
  <2>4. QED
    BY <1>1, <1>4, <2>1, <2>2, <2>3, ReadClean
<1>5. CASE u.shape = "other" /\ Respond(p, 404, Absent, FALSE)
  <2>1. req[p].had = {}
    BY <1>1, <1>5, PositionFacts
  <2>c. Closing(p, 404, FALSE)
    BY <1>5, RespondCloses
  <2>2. Closes(p) /\ req'[p].fresh = FALSE
    BY <2>c DEF Closing
  <2>3. QED
    BY <1>1, <2>1, <2>2, RespondClean
<1>6. QED
  BY <1>2, <1>3, <1>4, <1>5 DEF SpeculateMiss

LEMMA RecheckMissClean ==
    ASSUME IInv, CleanInv, NEW p \in Procs, RecheckMiss(p)
    PROVE  CleanInv'
<1>1. req[p].pc \in {"recheck", "lookup"} /\ StoreUnchanged /\ TryCandidate(p, 1)
  BY DEF RecheckMiss, Ready
<1>2. /\ req[p].url.shape \notin {"noext", "other"}
      /\ call[p].key = TargetKey(req[p].url)
  BY <1>1, KnownClean DEF ReqOK, ImageUrls, TargetKey
<1>3. StillClean(p) => ~ req[p].kept
  BY <1>1, <1>2, LookupMissed DEF RecheckMiss, Ready
<1>4. QED
  BY <1>1, <1>2, <1>3, FirstTryClean

LEMMA CandidateMissClean ==
    ASSUME IInv, CleanInv, NEW p \in Procs, CandidateMiss(p)
    PROVE  CleanInv'
<1> DEFINE u == req[p].url
           i == req[p].idx
<1>1. /\ Ready(p, {"candidate", "file"}) /\ ~ Got(p) /\ StoreUnchanged
      /\ req[p].pc = "candidate"
  BY DEF CandidateMiss, Ready
<1>2. /\ StillClean(p) => \A j \in req[p].had : j \in Nat /\ i + 1 <= j
      /\ i \in Nat /\ i \in DOMAIN u.cands /\ u \in Urls
  BY <1>1, MissIsTrue, KnownClean, CleanFacts DEF SearchOK, RequestRecord
<1>3. DOMAIN u.cands = 1 .. Len(u.cands) /\ Len(u.cands) \in Nat
  BY <1>2, UrlFields
<1>4. CASE i < Len(u.cands) /\ TryCandidate(p, i + 1)
  <2>1. i + 1 \in DOMAIN u.cands
    <3> HIDE DEF i, u
    <3>1. QED
      BY <1>2, <1>3, <1>4
  <2>2. StillClean(p) /\ req[p].kept => NeverLookedUp(u)
    BY <1>1, KnownClean DEF NotRemade, StillClean
  <2>3. QED
    BY <1>1, <1>2, <1>4, <2>1, <2>2, TryClean
<1>5. CASE ~ (i < Len(u.cands)) /\ Respond(p, 404, Absent, FALSE)
  <2>1. StillClean(p) => req[p].had = {}
    <3>1. \A j \in req[p].had : j \in Nat /\ j <= Len(u.cands)
      BY <1>1, KnownClean, PositionFacts
    <3> DEFINE had == req[p].had
    <3> HIDE DEF i, u, had
    <3>2. StillClean(p) => had = {}
      BY <1>2, <1>3, <1>5, <3>1 DEF had
    <3>3. QED
      BY <3>2 DEF had
  <2>c. Closing(p, 404, FALSE)
    BY <1>5, RespondCloses
  <2>2. Closes(p) /\ req'[p].fresh = FALSE
    BY <2>c DEF Closing
  <2>3. QED
    BY <1>1, <2>1, <2>2, RespondClean
<1>6. QED
  BY <1>4, <1>5 DEF CandidateMiss

LEMMA FileMissingClean ==
    ASSUME IInv, CleanInv, NEW p \in Procs, FileMissing(p)
    PROVE  CleanInv'
<1>1. /\ Ready(p, {"candidate", "file"}) /\ ~ Got(p) /\ StoreUnchanged
      /\ req[p].pc = "file" /\ Respond(p, 404, Absent, FALSE)
  BY DEF FileMissing, Ready
<1>2. req[p].idx = 1 /\ \A j \in req[p].had : j = 1
  BY <1>1, KnownClean, PositionFacts DEF SearchOK, ReqOK, FileUrls
<1>3. StillClean(p) => req[p].had = {}
  BY <1>1, <1>2, MissIsTrue
<1>c. Closing(p, 404, FALSE)
  BY <1>1, RespondCloses
<1>4. Closes(p) /\ req'[p].fresh = FALSE
  BY <1>c DEF Closing
<1>5. QED
  BY <1>1, <1>3, <1>4, RespondClean

LEMMA CandidateHitClean ==
    ASSUME IInv, CleanInv, NEW p \in Procs, CandidateHit(p)
    PROVE  CleanInv'
<1>1. req[p].pc = "candidate" /\ StoreUnchanged
  BY DEF CandidateHit, Ready
<1>2. CASE Respond(p, 200, call[p].data, FALSE)
  <2>c. Closing(p, 200, FALSE)
    BY <1>2, RespondCloses
  <2>1. Closes(p) /\ req'[p].status = 200 /\ req'[p].fresh = FALSE
    BY <2>c DEF Closing
  <2>2. QED
    BY <1>1, <2>1, RespondClean
<1>3. CASE /\ req' = [req EXCEPT ![p] = [@ EXCEPT !.pc = "resize", !.obj = call[p].data]]
           /\ HangUp(p)
  <2> DEFINE r == req'[p]
  <2>1. /\ req' = [req EXCEPT ![p] = r] /\ call' = [call EXCEPT ![p] = call'[p]]
        /\ call'[p] = NoCall /\ r.pc = "resize" /\ r.clean = req[p].clean
        /\ r.had = req[p].had /\ r.url = req[p].url /\ r.idx = req[p].idx
        /\ r.kept = req[p].kept /\ r.reader = req[p].reader
    BY <1>3, CleanFacts DEF HangUp, RequestRecord
  <2>2. /\ HadStays(req[p], bucket)
        /\ req[p].clean => InOrder(req[p])
        /\ KeptStays(req[p], bucket) /\ NotRemade(req[p])
    BY <1>1, CleanFacts DEF CleanOK, SearchOK, KeptOK
  <2> HIDE DEF r
  <2>3. HadStays(r, bucket) /\ SearchOK(r, NoCall, bucket)
    BY <1>1, <2>1, <2>2 DEF HadStays, SearchOK, NoCall, InOrder
  <2>4. WritesOK(r, NoCall, bucket, mode) /\ AnswerOK(r, bucket, mode)
    BY <2>1 DEF WritesOK, AnswerOK
  <2>k. KeptOK(r, NoCall, bucket)
    BY <1>1, <2>1, <2>2 DEF KeptOK, KeptStays, LookupOK, Seeks, NotRemade
  <2>5. CleanOK(r, call'[p], bucket', mode) /\ Grows(bucket, bucket') /\ mode' = mode
    BY <1>1, <2>1, <2>3, <2>4, <2>k, SameGrows DEF CleanOK, StoreUnchanged
  <2>6. QED
    BY <2>1, <2>5, CleanFrame DEF r
<1>4. QED
  BY <1>2, <1>3 DEF CandidateHit

\* A request that makes its n-th write, all before it having succeeded if it is
\* still clean.
LEMMA WriteClean ==
    ASSUME IInv, CleanInv, NEW p \in Procs, StoreUnchanged, req[p].pc # "idle",
           NEW STATE n, n \in DOMAIN PutTargets, NEW STATE o,
           PutTo(p, n, TargetKey(req[p].url), o),
           req' = [req EXCEPT ![p] = req'[p]], req'[p].pc = "put", req'[p].put = n,
           req'[p].had = req[p].had, req'[p].url = req[p].url, req'[p].idx = req[p].idx,
           req'[p].kept = req[p].kept, req'[p].reader = req[p].reader,
           req'[p].clean /\ req[p].kept => NeverLookedUp(req[p].url),
           req'[p].clean => InOrder(req[p]),
           req'[p].clean => \A j \in 1 .. n - 1 :
                              bucket[TargetsOf(mode)[j]][TargetKey(req[p].url)] # Absent
    PROVE  CleanInv'
<1> DEFINE r == req'[p]
           c == call'[p]
           k == TargetKey(req[p].url)
<1>1. /\ call' = [call EXCEPT ![p] = c]
      /\ c.at = "primary" /\ c.client = TargetsOf(mode)[n] /\ c.key = k
  BY CleanFacts, Modes3 DEF PutTo, PutObject, Call
<1>2. /\ HadStays(req[p], bucket) /\ KeptStays(req[p], bucket)
      /\ n \in DOMAIN TargetsOf(mode)
  BY CleanFacts, Modes3 DEF CleanOK, KeptOK
<1> HIDE DEF r, c, k
<1>3. HadStays(r, bucket) /\ AnswerOK(r, bucket, mode) /\ KeptOK(r, c, bucket)
  BY <1>2 DEF HadStays, AnswerOK, KeptOK, KeptStays, LookupOK, Seeks, NotRemade, r
<1>4. SearchOK(r, c, bucket)
  BY <1>1 DEF SearchOK, InOrder, r
<1>5. WritesOK(r, c, bucket, mode)
  BY <1>1, <1>2 DEF WritesOK, r, k
<1>6. CleanOK(r, c, bucket', mode) /\ Grows(bucket, bucket') /\ mode' = mode
  BY <1>3, <1>4, <1>5, SameGrows DEF CleanOK, StoreUnchanged
<1>7. QED
  BY <1>1, <1>6, CleanFrame DEF r, c

LEMMA FirstWriteClean ==
    ASSUME IInv, CleanInv, NEW p \in Procs, Resize(p) \/ FileFetched(p)
    PROVE  CleanInv'
<1>1. req[p].pc \in {"resize", "file"} /\ StoreUnchanged
  BY DEF Resize, FileFetched, Ready
<1>2. PICK v : req' = [req EXCEPT ![p] = [@ EXCEPT !.pc = "put", !.put = 1, !.obj = v]]
  BY DEF Resize, FileFetched
<1>c. /\ req' = [req EXCEPT ![p] = req'[p]] /\ req'[p].pc = "put" /\ req'[p].put = 1
      /\ req'[p].had = req[p].had /\ req'[p].url = req[p].url /\ req'[p].idx = req[p].idx
      /\ req'[p].kept = req[p].kept /\ req'[p].reader = req[p].reader
      /\ req'[p].clean = req[p].clean
  BY <1>2, CleanFacts DEF RequestRecord
<1>3. 1 \in DOMAIN PutTargets
  BY Modes3, TargetFacts
<1>4. req[p].clean => InOrder(req[p])
  BY <1>1, CleanFacts DEF CleanOK, SearchOK
<1>5. PICK o : PutTo(p, 1, TargetKey(req[p].url), o)
  BY <1>1, KnownClean DEF Resize, FileFetched, Ready, ReqOK, ImageUrls, FileUrls, TargetKey
<1>6. \A j \in 1 .. 1 - 1 : bucket[TargetsOf(mode)[j]][TargetKey(req[p].url)] # Absent
  OBVIOUS
<1>k. req[p].clean /\ req[p].kept => NeverLookedUp(req[p].url)
  BY <1>1, KnownClean DEF NotRemade
<1>7. QED
  BY <1>1, <1>c, <1>3, <1>4, <1>5, <1>6, <1>k, WriteClean

LEMMA ResizeFailsClean ==
    ASSUME IInv, CleanInv, NEW p \in Procs, ResizeFails(p)
    PROVE  CleanInv'
<1>1. req[p].pc # "idle" /\ StoreUnchanged
  BY DEF ResizeFails
<1>c. Closing(p, 500, FALSE)
  BY RespondCloses DEF ResizeFails
<1>2. Closes(p) /\ req'[p].status = 500 /\ req'[p].fresh = FALSE
  BY <1>c DEF Closing
<1>3. QED
  BY <1>1, <1>2, RespondClean

\* The writes a clean request has behind it all left something.
LEMMA WritesBehind ==
    ASSUME IInv, CleanInv, NEW p \in Procs, Ready(p, {"put"}), StillClean(p)
    PROVE  \A j \in 1 .. req[p].put :
             bucket[TargetsOf(mode)[j]][TargetKey(req[p].url)] # Absent
<1>1. req[p].pc = "put" /\ call[p].at = "returned" /\ call[p].op = "put" /\ req[p].clean
  BY KnownClean DEF Ready, Returned, StillClean, ReqOK
<1>2. call[p].res = "ok"
  BY <1>1, KnownClean DEF SearchOK, StillClean
<1>3. bucket[TargetsOf(mode)[req[p].put]][TargetKey(req[p].url)] # Absent
  BY <1>1, <1>2, KnownClean DEF WritesOK
<1>4. \A j \in 1 .. req[p].put - 1 :
        bucket[TargetsOf(mode)[j]][TargetKey(req[p].url)] # Absent
  BY <1>1, KnownClean DEF WritesOK
<1>5. req[p].put \in Nat
  BY CleanFacts DEF RequestRecord
<1> DEFINE n == req[p].put
<1> HIDE DEF n
<1>6. \A j \in 1 .. n : j \in 1 .. n - 1 \/ j = n
  BY <1>5 DEF n
<1>7. QED
  BY <1>3, <1>4, <1>6 DEF n

LEMMA PutReturnedClean ==
    ASSUME IInv, CleanInv, NEW p \in Procs, PutReturned(p)
    PROVE  CleanInv'
<1> DEFINE n == req[p].put
           k == TargetKey(req[p].url)
<1>1. Ready(p, {"put"}) /\ req[p].pc = "put" /\ StoreUnchanged
  BY DEF PutReturned, Ready
<1>2. /\ n \in DOMAIN TargetsOf(mode) /\ PutTargets = TargetsOf(mode)
      /\ StillClean(p) => InOrder(req[p])
      /\ StillClean(p) => \A j \in 1 .. n : bucket[TargetsOf(mode)[j]][k] # Absent
      /\ StillClean(p) /\ req[p].kept => NeverLookedUp(req[p].url)
  BY <1>1, KnownClean, Modes3, WritesBehind DEF SearchOK, WritesOK, StillClean, NotRemade
<1>3. /\ n \in 1 .. Len(PutTargets) /\ DOMAIN PutTargets = 1 .. Len(PutTargets)
      /\ Len(PutTargets) = IF mode = "off" THEN 1 ELSE 2
  BY <1>2, TargetFacts
<1>4. CASE /\ n < Len(PutTargets)
           /\ req' = [req EXCEPT ![p] = [@ EXCEPT !.put = n + 1, !.clean = StillClean(p)]]
           /\ PutTo(p, n + 1, k, req[p].obj)
  <2>1. /\ req' = [req EXCEPT ![p] = req'[p]] /\ req'[p].pc = "put" /\ req'[p].put = n + 1
        /\ req'[p].had = req[p].had /\ req'[p].url = req[p].url /\ req'[p].idx = req[p].idx
        /\ req'[p].kept = req[p].kept /\ req'[p].reader = req[p].reader
        /\ req'[p].clean = StillClean(p)
    BY <1>1, <1>4, CleanFacts DEF RequestRecord
  <2> HIDE DEF n, k
  <2>2. n + 1 \in DOMAIN PutTargets /\ (n + 1) - 1 = n
    BY <1>3, <1>4
  <2>3. req[p].pc # "idle"
    BY <1>1
  <2>4. QED
    BY <1>1, <1>2, <1>4, <2>1, <2>2, <2>3, WriteClean DEF k
<1>5. CASE ~ (n < Len(PutTargets)) /\ Respond(p, 200, req[p].obj, TRUE)
  <2>c. Closing(p, 200, TRUE)
    BY <1>5, RespondCloses
  <2>1. Closes(p) /\ req'[p].status = 200
    BY <2>c DEF Closing
  <2> HIDE DEF n, k
  <2>2. n = Len(PutTargets)
    BY <1>3, <1>5
  <2>3. StillClean(p) =>
          bucket["origin"][k] # Absent /\ (mode # "off" => bucket["cache"][k] # Absent)
    <3>1. CASE mode = "off"
      BY <1>2, <1>3, <2>2, <3>1, TargetFacts
    <3>2. CASE mode # "off"
      <4>1. StillClean(p) => /\ bucket[TargetsOf(mode)[1]][k] # Absent
                             /\ bucket[TargetsOf(mode)[2]][k] # Absent
        BY <1>2, <1>3, <2>2, <3>2
      <4>2. QED
        BY <4>1, <3>2, TargetFacts
    <3>3. QED
      BY <3>1, <3>2
  <2>4. QED
    BY <1>1, <1>2, <2>1, <2>3, RespondClean DEF k
<1>6. QED
  BY <1>4, <1>5 DEF PutReturned

LEMMA ContinueClean ==
    ASSUME IInv, CleanInv, NEW p \in Procs, Continue(p)
    PROVE  CleanInv'
BY CacheHitClean, SpeculateMissClean, RecheckMissClean, CandidateHitClean,
   CandidateMissClean, FirstWriteClean, ResizeFailsClean, FileMissingClean,
   PutReturnedClean DEF Continue

-----------------------------------------------------------------------------
(* New requests, restarts, and the whole.                                  *)

\* A request knows what was there as it arrived.
LEMMA ArriveClean ==
    ASSUME IInv, CleanInv, NEW p \in Procs, StoreUnchanged, NEW u \in Urls, NEW pc,
           NEW STATE reader, Arrive(p, u, pc, reader),
           NEW STATE client, NEW STATE k, Get(p, client, k),
           pc \in {"speculate", "lookup", "candidate"}, reader \in Clients,
           pc # "candidate" => client = reader,
           pc = "candidate" =>
             client = "origin" /\ 1 \in DOMAIN u.cands /\ k = u.cands[1] /\ u.pass
    PROVE  CleanInv'
<1> DEFINE r == req'[p]
           c == call'[p]
           had == {i \in DOMAIN u.cands : View("origin")[u.cands[i]] # Absent}
           kept == ~ u.pass /\ View(reader)[TargetKey(u)] # Absent
<1>1. /\ call' = [call EXCEPT ![p] = c]
      /\ c.at = "primary" /\ c.client = client /\ c.key = k
  BY CleanFacts DEF Get, Call
<1>2. /\ req' = [req EXCEPT ![p] = r]
      /\ r = [NoReq EXCEPT !.pc = pc, !.url = u, !.reader = reader, !.had = had,
                           !.kept = kept]
  BY CleanFacts DEF Arrive
<1>k. kept => ~ u.pass /\ Shown(bucket, reader, TargetKey(u))
  <2>1. TargetKey(u) \in Keys
    BY TargetKeyType
  <2>2. \A b \in Clients, j \in Keys : View(b)[j] # Absent => Shown(bucket, b, j)
    BY DEF View, LegacyView, LegacyOf, Shown, OldValue
  <2>3. QED
    BY <2>1, <2>2 DEF kept
<1> HIDE DEF had, kept
<1>3. /\ r.pc = pc /\ r.url = u /\ r.had = had /\ r.idx = 1
      /\ r.reader = reader /\ r.kept = kept
  BY <1>2 DEF NoReq
<1>4. \A i \in had : i \in DOMAIN u.cands /\ Held(bucket, u.cands[i])
  <2>1. \A i \in DOMAIN u.cands : u.cands[i] \in Keys
    BY UrlFields
  <2>2. \A j \in Keys : View("origin")[j] # Absent => Held(bucket, j)
    BY DEF View, LegacyView, LegacyOf, FallsBack, Held, OldValue
  <2>3. QED
    BY <2>1, <2>2 DEF had
<1>5. \A i \in had : i \in Nat /\ 1 <= i
  BY <1>4, PositionFacts
<1> HIDE DEF r, c
<1>6. HadStays(r, bucket) /\ AnswerOK(r, bucket, mode) /\ WritesOK(r, c, bucket, mode)
  BY <1>3, <1>4 DEF HadStays, AnswerOK, WritesOK
<1>7. SearchOK(r, c, bucket)
  BY <1>1, <1>3, <1>5 DEF SearchOK, InOrder
<1>m. KeptOK(r, c, bucket)
  BY <1>1, <1>3, <1>k DEF KeptOK, KeptStays, LookupOK, Seeks, NotRemade
<1>8. CleanOK(r, c, bucket', mode) /\ Grows(bucket, bucket') /\ mode' = mode
  BY <1>6, <1>7, <1>m, SameGrows DEF CleanOK, StoreUnchanged
<1>9. QED
  BY <1>1, <1>2, <1>8, CleanFrame DEF r, c

LEMMA TurnAwayClean ==
    ASSUME IInv, CleanInv, NEW p \in Procs, NEW u \in Urls, NEW STATE status,
           TurnAway(p, u, status)
    PROVE  CleanInv'
<1> DEFINE r == req'[p]
           c == call'[p]
<1>1. /\ req' = [req EXCEPT ![p] = r] /\ call' = [call EXCEPT ![p] = c] /\ c = NoCall
      /\ r = [NoReq EXCEPT !.pc = "done", !.url = u, !.status = status]
  BY CleanFacts DEF TurnAway, HangUp
<1>2. r.pc = "done" /\ r.had = {} /\ r.fresh = FALSE /\ r.kept = FALSE
  BY <1>1 DEF NoReq
<1> HIDE DEF r, c
<1>3. CleanOK(r, c, bucket, mode)
  BY <1>1, <1>2 DEF CleanOK, HadStays, SearchOK, WritesOK, AnswerOK, KeptOK, KeptStays,
                    LookupOK, Seeks, NotRemade, NoCall
<1>4. CleanOK(r, c, bucket', mode) /\ Grows(bucket, bucket') /\ mode' = mode
  BY <1>3, SameGrows DEF TurnAway, StoreUnchanged
<1>5. QED
  BY <1>1, <1>4, CleanFrame DEF r, c

LEMMA StartClean ==
    ASSUME IInv, CleanInv, NEW p \in Procs, Start(p)
    PROVE  CleanInv'
<1>1. PICK u \in Urls :
        \/ NoExtension(p, u) \/ RejectParam(p, u)
        \/ \E header \in {"none", "true", "false"} :
             Speculate(p, u, header) \/ AcceptParam(p, u, header)
  BY DEF Start
<1>2. CASE NoExtension(p, u)
  BY <1>2, TurnAwayClean DEF NoExtension
<1>3. CASE RejectParam(p, u)
  <2>1. PICK i \in DOMAIN Gates : TurnAway(p, u, Gates[i].status)
    BY <1>3 DEF RejectParam
  <2> DEFINE status == Gates[i].status
  <2>2. TurnAway(p, u, status)
    BY <2>1
  <2> HIDE DEF status
  <2>3. QED
    BY <2>2, TurnAwayClean
<1>4. ASSUME NEW header, Speculate(p, u, header)
      PROVE  CleanInv'
  <2> DEFINE client == EffectiveReadClient(header)
  <2>1. /\ Arrive(p, u, "speculate", client) /\ Get(p, client, u.raw) /\ StoreUnchanged
        /\ client \in Clients
    BY <1>4, ClientTypes DEF Speculate
  <2> HIDE DEF client
  <2>2. QED
    BY <2>1, ArriveClean
<1>5. ASSUME NEW header, AcceptParam(p, u, header)
      PROVE  CleanInv'
  <2> DEFINE client == EffectiveReadClient(header)
  <2>1. /\ u.shape = "param" /\ StoreUnchanged
        /\ \/ Arrive(p, u, "candidate", "origin") /\ Get(p, "origin", u.cands[1]) /\ u.pass
           \/ Arrive(p, u, "lookup", client) /\ Get(p, client, u.norm)
        /\ client \in Clients /\ "origin" \in Clients
    BY <1>5, ClientTypes DEF AcceptParam, Clients
  <2>2. 1 \in DOMAIN u.cands
    BY <2>1, UrlFields
  <2> HIDE DEF client
  <2>3. QED
    BY <2>1, <2>2, ArriveClean
<1>6. QED
  BY <1>1, <1>2, <1>3, <1>4, <1>5

LEMMA IdleIsClean ==
    ASSUME NEW B, NEW m
    PROVE  CleanOK(NoReq, NoCall, B, m)
BY DEF CleanOK, HadStays, SearchOK, WritesOK, AnswerOK, KeptOK, KeptStays, LookupOK, Seeks,
       NotRemade, NoReq, NoCall

LEMMA CleanInitially ==
    ASSUME Init
    PROVE  CleanInv
BY IdleIsClean DEF Init, StoreInit, CleanInv

LEMMA StepKeepsClean ==
    IInv /\ CleanInv /\ [Next]_vars => CleanInv'
<1> SUFFICES ASSUME IInv, CleanInv, [Next]_vars PROVE CleanInv'
  OBVIOUS
<1>1. ASSUME NEW p \in Procs, Start(p) PROVE CleanInv'
  BY <1>1, StartClean
<1>2. ASSUME NEW p \in Procs, Continue(p) PROVE CleanInv'
  BY <1>2, ContinueClean
<1>3. ASSUME NEW p \in Procs, S3Step(p), UNCHANGED <<req, mode>> PROVE CleanInv'
  BY <1>3, StoreClean
<1>4. ASSUME NEW k \in CatalogKeys, Publish(k), UNCHANGED <<req, mode>> PROVE CleanInv'
  BY <1>4, PublishClean
<1>5. ASSUME NEW m \in Modes, Restart(m) PROVE CleanInv'
  BY <1>5, IdleIsClean DEF Restart, CleanInv
<1>6. CASE UNCHANGED vars
  BY <1>6 DEF vars, CleanInv
<1>7. QED
  BY <1>1, <1>2, <1>3, <1>4, <1>5, <1>6 DEF Next

\* What clean requests know of the buckets, together with the honesty it rests
\* on, holds throughout.
THEOREM CleanInvariant == Spec => [](IInv /\ CleanInv)
<1>1. Init => CleanInv
  BY CleanInitially
<1>2. QED
  BY <1>1, InductiveInvariant, StepKeepsClean, PTL DEF Spec

\* A 404 without an S3 error is the truth, whatever other requests, the
\* catalogue, restarts and mode changes do meanwhile (handleResize, handleFile,
\* handleParams).
THEOREM NotFoundTruly == Spec => []CleanNotFoundIsTrue
<1>1. CleanInv => CleanNotFoundIsTrue
  BY DEF CleanInv, CleanOK, AnswerOK, CleanNotFoundIsTrue
<1>2. QED
  BY <1>1, CleanInvariant, PTL

\* No original that was there as the request arrived is passed over for a worse
\* one (originCandidateKeys, handleResize).
THEOREM RendersBest == Spec => []CleanRenderUsesBest
<1>1. CleanInv => CleanRenderUsesBest
  BY DEF CleanInv, CleanOK, SearchOK, AnswerOK, InOrder, CleanRenderUsesBest
<1>2. QED
  BY <1>1, CleanInvariant, PTL

\* What a clean miss rendered is there for the next reader, in every bucket the
\* mode reads (putBoth).
THEOREM MissPopulates == Spec => []CleanMissPopulates
<1>1. CleanInv => CleanMissPopulates
  BY DEF CleanInv, CleanOK, AnswerOK, CleanMissPopulates
<1>2. QED
  BY <1>1, CleanInvariant, PTL

\* What its reader showed as a clean request arrived is not fetched, rendered and
\* written again, but for resize URLs without a version, which are never looked up
\* (ServeHTTP, handleResize, handleFile, handleParams).
THEOREM NothingRemade == Spec => []StoredIsNotRemade
<1>1. CleanInv => StoredIsNotRemade
  BY DEF CleanInv, CleanOK, KeptOK, NotRemade, StoredIsNotRemade
<1>2. QED
  BY <1>1, CleanInvariant, PTL

-----------------------------------------------------------------------------
(* Beside batches (module ImageProxy).                                     *)

\* A slot that serves no request opens a call.
LEMMA OtherCallClean ==
    ASSUME IInv, CleanInv, NEW p \in Procs, req[p] = NoReq, UNCHANGED req, StoreUnchanged,
           call' = [call EXCEPT ![p] = call'[p]], call'[p].at \in {"idle", "primary"}
    PROVE  CleanInv'
<1>1. req' = [req EXCEPT ![p] = req'[p]] /\ req'[p] = NoReq
  BY CleanFacts
<1>2. CleanOK(NoReq, call'[p], bucket', mode)
  BY DEF CleanOK, HadStays, SearchOK, WritesOK, AnswerOK, KeptOK, KeptStays, LookupOK, Seeks,
         NotRemade, NoReq
<1>3. Grows(bucket, bucket') /\ mode' = mode
  BY SameGrows DEF StoreUnchanged
<1>4. QED
  BY <1>1, <1>2, <1>3, CleanFrame

\* What the invariant says of answers.
LEMMA CleanAnswers ==
    CleanInv => /\ CleanNotFoundIsTrue /\ CleanRenderUsesBest
                /\ CleanMissPopulates /\ StoredIsNotRemade
BY DEF CleanInv, CleanOK, SearchOK, AnswerOK, InOrder, KeptOK, NotRemade,
       CleanNotFoundIsTrue, CleanRenderUsesBest, CleanMissPopulates, StoredIsNotRemade
==============================================================================
