--------------------------- MODULE ImageProxyProofs ---------------------------
(***************************************************************************)
(* Requests and batches beside each other.  Each side keeps its own        *)
(* inductive invariants (ProxyServerProofs, BatchWorkerProofs): through    *)
(* its own steps because they are steps of its own specification, through  *)
(* the other's because a call that the other side opens carries what this  *)
(* side takes for prepared, or for filed.                                  *)
(***************************************************************************)
EXTENDS ImageProxy, TLAPS

PP == INSTANCE ProxyServerProofs
WW == INSTANCE BatchWorkerProofs

-----------------------------------------------------------------------------
(* One formula under two names: P and PP, like W and WW, are the same      *)
(* module, once without and once with its proofs; unfolded, a definition   *)
(* of the one is that of the other.                                        *)

\* What the two sides assume of the constants is assumed here.
LEMMA Assumptions ==
    /\ PP!StoreAssumption /\ PP!ModesAssumption
    /\ PP!UrlAssumption /\ PP!LayoutAssumption /\ PP!PreparedAssumption
    /\ WW!StoreAssumption /\ WW!ModesAssumption /\ WW!WorkerAssumption /\ WW!FiledAssumption
<1>1. PP!StoreAssumption /\ WW!StoreAssumption
  BY StoreAssumption DEF StoreAssumption, Object, PP!StoreAssumption, PP!Object,
         WW!StoreAssumption, WW!Object
<1>2. PP!ModesAssumption /\ WW!ModesAssumption
  BY ModesAssumption DEF ModesAssumption, PP!ModesAssumption, WW!ModesAssumption
<1>3. PP!UrlAssumption
  BY ServerAssumption DEF P!UrlAssumption, P!Url, P!Shapes, P!Flaws, P!Gates, PP!UrlAssumption,
         PP!Url, PP!Shapes, PP!Flaws, PP!Gates
<1>4. PP!LayoutAssumption
  BY ServerAssumption DEF P!LayoutAssumption, P!ImageUrls, P!Origins, P!OriginalKeys,
         P!FileUrls, P!Alias, P!FileOf, PP!LayoutAssumption, PP!ImageUrls, PP!Origins,
         PP!OriginalKeys, PP!FileUrls, PP!Alias, PP!FileOf
<1>5. PP!PreparedAssumption
  BY ServerAssumption DEF P!PreparedAssumption, P!Object, P!FileUrls, P!ImageUrls,
         PP!PreparedAssumption, PP!Object, PP!FileUrls, PP!ImageUrls
<1>6. WW!WorkerAssumption
  BY BatchAssumption DEF W!WorkerAssumption, W!Trigger, W!AcceptedTriggers, W!OriginalKeys,
         W!RowsOf, W!IsPair, W!ThumbKey, W!Variant, W!Malformed, W!EffectiveSizes, W!NewWorker,
         W!Version, W!allowedFormats, WW!WorkerAssumption, WW!Trigger, WW!AcceptedTriggers,
         WW!OriginalKeys, WW!RowsOf, WW!IsPair, WW!ThumbKey, WW!Variant, WW!Malformed,
         WW!EffectiveSizes, WW!NewWorker, WW!Version, WW!allowedFormats
<1>7. WW!FiledAssumption
  BY BatchAssumption DEF W!FiledAssumption, W!Object, W!AcceptedTriggers, W!IsOriginal,
         W!Malformed, W!Alias, W!OriginalKeys, W!allowedFormats, WW!FiledAssumption, WW!Object,
         WW!AcceptedTriggers, WW!IsOriginal, WW!Malformed, WW!Alias, WW!OriginalKeys,
         WW!allowedFormats
<1>8. QED
  BY <1>1, <1>2, <1>3, <1>4, <1>5, <1>6, <1>7

\* The steps of a request.
LEMMA RequestContinues ==
    ASSUME NEW p \in Procs, P!Continue(p)
    PROVE  PP!Continue(p)
<1>1. P!CacheHit(p) => PP!CacheHit(p)
  BY DEF P!CacheHit, P!Ready, P!Got, P!Respond, P!StoreUnchanged, P!Returned, P!StillClean,
         P!HangUp, P!NoCall, PP!CacheHit, PP!Ready, PP!Got, PP!Respond, PP!StoreUnchanged,
         PP!Returned, PP!StillClean, PP!HangUp, PP!NoCall
<1>2. P!SpeculateMiss(p) => PP!SpeculateMiss(p)
  BY DEF P!SpeculateMiss, P!Ready, P!Got, P!TryCandidate, P!Get, P!StillClean, P!Respond,
         P!StoreUnchanged, P!Returned, P!Call, P!HangUp, P!NoCall, PP!SpeculateMiss, PP!Ready,
         PP!Got, PP!TryCandidate, PP!Get, PP!StillClean, PP!Respond, PP!StoreUnchanged,
         PP!Returned, PP!Call, PP!HangUp, PP!NoCall
<1>3. P!RecheckMiss(p) => PP!RecheckMiss(p)
  BY DEF P!RecheckMiss, P!Ready, P!Got, P!TryCandidate, P!StoreUnchanged, P!Returned, P!Get,
         P!StillClean, P!Call, PP!RecheckMiss, PP!Ready, PP!Got, PP!TryCandidate,
         PP!StoreUnchanged, PP!Returned, PP!Get, PP!StillClean, PP!Call
<1>4. P!CandidateHit(p) => PP!CandidateHit(p)
  BY DEF P!CandidateHit, P!Ready, P!Got, P!Respond, P!HangUp, P!StoreUnchanged, P!Returned,
         P!StillClean, P!NoCall, PP!CandidateHit, PP!Ready, PP!Got, PP!Respond, PP!HangUp,
         PP!StoreUnchanged, PP!Returned, PP!StillClean, PP!NoCall
<1>5. P!CandidateMiss(p) => PP!CandidateMiss(p)
  BY DEF P!CandidateMiss, P!Ready, P!Got, P!TryCandidate, P!Respond, P!StoreUnchanged,
         P!Returned, P!Get, P!StillClean, P!HangUp, P!Call, P!NoCall, PP!CandidateMiss,
         PP!Ready, PP!Got, PP!TryCandidate, PP!Respond, PP!StoreUnchanged, PP!Returned, PP!Get,
         PP!StillClean, PP!HangUp, PP!Call, PP!NoCall
<1>6. P!Resize(p) => PP!Resize(p)
  BY DEF P!Resize, P!Render, P!PutTo, P!StoreUnchanged, P!PutObject, P!PutTargets, P!Call,
         P!CacheClient, PP!Resize, PP!Render, PP!PutTo, PP!StoreUnchanged, PP!PutObject,
         PP!PutTargets, PP!Call, PP!CacheClient
<1>7. P!ResizeFails(p) => PP!ResizeFails(p)
  BY DEF P!ResizeFails, P!Respond, P!StoreUnchanged, P!StillClean, P!HangUp, P!NoCall,
         PP!ResizeFails, PP!Respond, PP!StoreUnchanged, PP!StillClean, PP!HangUp, PP!NoCall
<1>8. P!FileFetched(p) => PP!FileFetched(p)
  BY DEF P!FileFetched, P!Ready, P!Got, P!PutTo, P!StoreUnchanged, P!Returned, P!PutObject,
         P!PutTargets, P!Call, P!CacheClient, PP!FileFetched, PP!Ready, PP!Got, PP!PutTo,
         PP!StoreUnchanged, PP!Returned, PP!PutObject, PP!PutTargets, PP!Call, PP!CacheClient
<1>9. P!FileMissing(p) => PP!FileMissing(p)
  BY DEF P!FileMissing, P!Ready, P!Got, P!Respond, P!StoreUnchanged, P!Returned, P!StillClean,
         P!HangUp, P!NoCall, PP!FileMissing, PP!Ready, PP!Got, PP!Respond, PP!StoreUnchanged,
         PP!Returned, PP!StillClean, PP!HangUp, PP!NoCall
<1>10. P!PutReturned(p) => PP!PutReturned(p)
  BY DEF P!PutReturned, P!Ready, P!PutTargets, P!StillClean, P!PutTo, P!TargetKey, P!Respond,
         P!StoreUnchanged, P!Returned, P!CacheClient, P!PutObject, P!HangUp, P!Call, P!NoCall,
         PP!PutReturned, PP!Ready, PP!PutTargets, PP!StillClean, PP!PutTo, PP!TargetKey,
         PP!Respond, PP!StoreUnchanged, PP!Returned, PP!CacheClient, PP!PutObject, PP!HangUp,
         PP!Call, PP!NoCall
<1>11. QED
  BY <1>1, <1>2, <1>3, <1>4, <1>5, <1>6, <1>7, <1>8, <1>9, <1>10 DEF P!Continue, PP!Continue

\* Its arrival.
LEMMA RequestStarts ==
    ASSUME NEW p \in Procs, P!Start(p)
    PROVE  PP!Start(p)
<1>1. \A u \in Urls : P!NoExtension(p, u) => PP!NoExtension(p, u)
  BY DEF P!NoExtension, P!Free, P!TurnAway, P!NoReq, P!HangUp, P!StoreUnchanged, P!NoCall,
         PP!NoExtension, PP!Free, PP!TurnAway, PP!NoReq, PP!HangUp, PP!StoreUnchanged, PP!NoCall
<1>2. \A u \in Urls : P!RejectParam(p, u) => PP!RejectParam(p, u)
  <2>1. P!Gates = PP!Gates
    BY DEF P!Gates, PP!Gates
  <2>2. \A u, status : P!TurnAway(p, u, status) => PP!TurnAway(p, u, status)
    BY DEF P!TurnAway, P!NoReq, P!HangUp, P!StoreUnchanged, P!NoCall, PP!TurnAway, PP!NoReq,
           PP!HangUp, PP!StoreUnchanged, PP!NoCall
  <2>3. P!Free(p) <=> PP!Free(p)
    BY DEF P!Free, PP!Free
  <2>4. QED
    BY <2>1, <2>2, <2>3 DEF P!RejectParam, PP!RejectParam
<1>a. \A u, pc, reader : P!Arrive(p, u, pc, reader) => PP!Arrive(p, u, pc, reader)
  <2>1. \A c : P!View(c) = PP!View(c)
    BY DEF P!View, P!LegacyView, P!FallsBack, P!LegacyOf, PP!View, PP!LegacyView, PP!FallsBack,
           PP!LegacyOf
  <2>2. P!NoReq = PP!NoReq /\ \A u : P!TargetKey(u) = PP!TargetKey(u)
    BY DEF P!NoReq, P!TargetKey, PP!NoReq, PP!TargetKey
  <2>3. QED
    BY <2>1, <2>2 DEF P!Arrive, PP!Arrive
<1>3. \A u \in Urls : \A h : P!Speculate(p, u, h) => PP!Speculate(p, u, h)
  BY <1>a DEF P!Speculate, P!Free, P!EffectiveReadClient, P!Get, P!StoreUnchanged,
         P!CacheClient, P!Call, PP!Speculate, PP!Free, PP!EffectiveReadClient, PP!Get,
         PP!StoreUnchanged, PP!CacheClient, PP!Call
<1>4. \A u \in Urls : \A h : P!AcceptParam(p, u, h) => PP!AcceptParam(p, u, h)
  BY <1>a DEF P!AcceptParam, P!Free, P!Get, P!EffectiveReadClient, P!StoreUnchanged,
         P!Call, P!CacheClient, PP!AcceptParam, PP!Free, PP!Get, PP!EffectiveReadClient,
         PP!StoreUnchanged, PP!Call, PP!CacheClient
<1>5. QED
  BY <1>1, <1>2, <1>3, <1>4 DEF P!Start, PP!Start

\* The steps of a batch.
LEMMA BatchContinues ==
    ASSUME NEW p \in Procs, W!WorkerContinue(p)
    PROVE  WW!WorkerContinue(p) /\ (WW!Panic(p) <=> W!Panic(p))
<1>1. W!ImageSkipped(p) => WW!ImageSkipped(p)
  BY DEF W!ImageSkipped, W!At, W!Got, W!NextImage, W!Unhurt, W!StoreUnchanged, W!Returned,
         W!Get, W!HangUp, W!Call, W!NoCall, WW!ImageSkipped, WW!At, WW!Got, WW!NextImage,
         WW!Unhurt, WW!StoreUnchanged, WW!Returned, WW!Get, WW!HangUp, WW!Call, WW!NoCall
<1>2. W!ImageFetched(p) => WW!ImageFetched(p)
  BY DEF W!ImageFetched, W!At, W!Got, W!HangUp, W!StoreUnchanged, W!Returned, W!NoCall,
         WW!ImageFetched, WW!At, WW!Got, WW!HangUp, WW!StoreUnchanged, WW!Returned, WW!NoCall
<1>3. W!Panic(p) <=> WW!Panic(p)
  BY DEF W!Panic, W!IsPair, W!Row, W!NoJob, W!NoCall, WW!Panic, WW!IsPair, WW!Row, WW!NoJob,
         WW!NoCall
<1>4. W!ResizeFails(p) => WW!ResizeFails(p)
  BY DEF W!ResizeFails, W!IsPair, W!Row, W!NextOutput, W!StoreUnchanged, W!HangUp, W!NextImage,
         W!NoCall, W!Get, W!Call, WW!ResizeFails, WW!IsPair, WW!Row, WW!NextOutput,
         WW!StoreUnchanged, WW!HangUp, WW!NextImage, WW!NoCall, WW!Get, WW!Call
<1>5. W!Resize(p) => WW!Resize(p)
  BY DEF W!Resize, W!IsPair, W!Row, W!Render, W!Variant, W!Format, W!Exists, W!CacheClient,
         W!Key, W!StoreUnchanged, W!Call, W!ThumbKey, W!Version, WW!Resize, WW!IsPair, WW!Row,
         WW!Render, WW!Variant, WW!Format, WW!Exists, WW!CacheClient, WW!Key, WW!StoreUnchanged,
         WW!Call, WW!ThumbKey, WW!Version
<1>6. W!AlreadyExists(p) => WW!AlreadyExists(p)
  BY DEF W!AlreadyExists, W!At, W!Got, W!NextOutput, W!StoreUnchanged, W!Returned, W!HangUp,
         W!NextImage, W!NoCall, W!Get, W!Call, WW!AlreadyExists, WW!At, WW!Got, WW!NextOutput,
         WW!StoreUnchanged, WW!Returned, WW!HangUp, WW!NextImage, WW!NoCall, WW!Get, WW!Call
<1>7. W!PutOrigin(p) => WW!PutOrigin(p)
  BY DEF W!PutOrigin, W!At, W!Got, W!Unhurt, W!PutObject, W!Key, W!StoreUnchanged, W!Returned,
         W!Call, W!ThumbKey, W!Row, W!Format, W!Version, WW!PutOrigin, WW!At, WW!Got, WW!Unhurt,
         WW!PutObject, WW!Key, WW!StoreUnchanged, WW!Returned, WW!Call, WW!ThumbKey, WW!Row,
         WW!Format, WW!Version
<1>8. W!PutCache(p) => WW!PutCache(p)
  BY DEF W!PutCache, W!At, W!CacheClient, W!Unhurt, W!PutObject, W!Key, W!StoreUnchanged,
         W!Returned, W!Call, W!ThumbKey, W!Row, W!Format, W!Version, WW!PutCache, WW!At,
         WW!CacheClient, WW!Unhurt, WW!PutObject, WW!Key, WW!StoreUnchanged, WW!Returned,
         WW!Call, WW!ThumbKey, WW!Row, WW!Format, WW!Version
<1>9. W!Saved(p) => WW!Saved(p)
  BY DEF W!Saved, W!At, W!CacheClient, W!NextOutput, W!Unhurt, W!StoreUnchanged, W!Returned,
         W!HangUp, W!NextImage, W!NoCall, W!Get, W!Call, WW!Saved, WW!At, WW!CacheClient,
         WW!NextOutput, WW!Unhurt, WW!StoreUnchanged, WW!Returned, WW!HangUp, WW!NextImage,
         WW!NoCall, WW!Get, WW!Call
<1>10. QED
  BY <1>1, <1>2, <1>3, <1>4, <1>5, <1>6, <1>7, <1>8, <1>9 DEF W!WorkerContinue, WW!WorkerContinue

\* What a batch starts from.
LEMMA BatchTerms ==
    /\ W!AcceptedTriggers = WW!AcceptedTriggers /\ W!CacheClient = WW!CacheClient
    /\ \A t, i, rows : W!Outputs(t, i, rows) = WW!Outputs(t, i, rows)
    /\ \A t, own : W!EffectiveSizes(t, own) = WW!EffectiveSizes(t, own)
    /\ \A client : W!View(client) = WW!View(client)
<1>1. W!AcceptedTriggers = WW!AcceptedTriggers
  BY DEF W!AcceptedTriggers, W!Malformed, W!allowedFormats, WW!AcceptedTriggers, WW!Malformed,
         WW!allowedFormats
<1>2. W!CacheClient = WW!CacheClient
  BY DEF W!CacheClient, WW!CacheClient
<1>3. \A t, i, rows : W!Outputs(t, i, rows) = WW!Outputs(t, i, rows)
  BY DEF W!Outputs, W!ThumbKey, W!IsPair, W!Version, WW!Outputs, WW!ThumbKey, WW!IsPair,
         WW!Version
<1>4. \A t, own : W!EffectiveSizes(t, own) = WW!EffectiveSizes(t, own)
  BY DEF W!EffectiveSizes, WW!EffectiveSizes
<1>5. \A client : W!View(client) = WW!View(client)
  BY DEF W!View, W!LegacyView, W!FallsBack, W!LegacyOf, WW!View, WW!LegacyView, WW!FallsBack,
         WW!LegacyOf
<1>6. QED
  BY <1>1, <1>2, <1>3, <1>4, <1>5

\* Its start.
LEMMA BatchStarts ==
    ASSUME NEW p \in Procs, W!WorkerStart(p)
    PROVE  WW!WorkerStart(p)
<1>1. \A t \in Triggers : W!Reject(p, t) => WW!Reject(p, t)
  BY DEF W!Reject, W!Idle, W!Malformed, W!NoJob, W!HangUp, W!StoreUnchanged, W!allowedFormats,
         W!NoCall, WW!Reject, WW!Idle, WW!Malformed, WW!NoJob, WW!HangUp, WW!StoreUnchanged,
         WW!allowedFormats, WW!NoCall
<1>2. ASSUME NEW t \in Triggers, W!Accept(p, t)
      PROVE  WW!Accept(p, t)
  <2> DEFINE rows == WW!EffectiveSizes(t, sizes)
             had == {i \in DOMAIN t.images : W!View("origin")[t.images[i]] # Absent}
             kept == {k \in UNION {W!Outputs(t, i, rows) : i \in DOMAIN t.images} :
                        W!View(W!CacheClient)[k] # Absent}
             had2 == {i \in DOMAIN t.images : WW!View("origin")[t.images[i]] # Absent}
             kept2 == {k \in UNION {WW!Outputs(t, i, rows) : i \in DOMAIN t.images} :
                         WW!View(WW!CacheClient)[k] # Absent}
  <2>1. W!EffectiveSizes(t, sizes) = rows
    BY BatchTerms
  <2>2. had = had2 /\ kept = kept2
    <3> HIDE DEF rows
    <3>1. QED
      BY BatchTerms
  <2>3. /\ W!Idle(p) /\ t \in W!AcceptedTriggers
        /\ job' = [job EXCEPT ![p] = [W!NoJob EXCEPT !.pc = "get", !.trigger = t,
                                        !.rows = rows, !.status = 202,
                                        !.had = had, !.kept = kept]]
        /\ W!Get(p, "origin", t.images[1])
        /\ W!StoreUnchanged /\ UNCHANGED <<sizes, down>>
    BY <1>2, <2>1 DEF W!Accept
  <2> HIDE DEF had, kept, rows
  <2>4. /\ WW!Idle(p) /\ t \in WW!AcceptedTriggers
        /\ job' = [job EXCEPT ![p] = [WW!NoJob EXCEPT !.pc = "get", !.trigger = t,
                                        !.rows = rows, !.status = 202,
                                        !.had = had2, !.kept = kept2]]
        /\ WW!Get(p, "origin", t.images[1])
        /\ WW!StoreUnchanged /\ UNCHANGED <<sizes, down>>
    <3> HIDE DEF had2, kept2
    <3>1. QED
      BY <2>2, <2>3, BatchTerms
         DEF W!Idle, WW!Idle, W!NoJob, WW!NoJob, W!Get, WW!Get, W!Call, WW!Call,
             W!StoreUnchanged, WW!StoreUnchanged
  <2>5. QED
    BY <2>4 DEF WW!Accept, rows
<1>3. QED
  BY <1>1, <1>2 DEF W!WorkerStart, WW!WorkerStart

\* The steps of the store, and of the catalogue.
LEMMA StoreSteps ==
    /\ \A p \in Procs : S3Step(p) => PP!S3Step(p) /\ WW!S3Step(p)
    /\ \A k \in CatalogKeys : Publish(k) => PP!Publish(k) /\ WW!Publish(k)
<1>1. \A p : PrimaryHit(p) => PP!PrimaryHit(p) /\ WW!PrimaryHit(p)
  BY DEF PrimaryHit, Looking, Return, PP!PrimaryHit, PP!Looking, PP!Return, WW!PrimaryHit,
         WW!Looking, WW!Return
<1>2. \A p : PrimaryMiss(p) => PP!PrimaryMiss(p) /\ WW!PrimaryMiss(p)
  BY DEF PrimaryMiss, Looking, FallsBack, Return, PP!PrimaryMiss, PP!Looking, PP!FallsBack,
         PP!Return, WW!PrimaryMiss, WW!Looking, WW!FallsBack, WW!Return
<1>3. \A p : FallbackHit(p) => PP!FallbackHit(p) /\ WW!FallbackHit(p)
  BY DEF FallbackHit, FallbackKey, Looking, Return, PP!FallbackHit, PP!FallbackKey, PP!Looking,
         PP!Return, WW!FallbackHit, WW!FallbackKey, WW!Looking, WW!Return
<1>4. \A p : FallbackMiss(p) => PP!FallbackMiss(p) /\ WW!FallbackMiss(p)
  BY DEF FallbackMiss, Looking, FallbackKey, Return, PP!FallbackMiss, PP!Looking,
         PP!FallbackKey, PP!Return, WW!FallbackMiss, WW!Looking, WW!FallbackKey, WW!Return
<1>5. \A p : LookupFails(p) => PP!LookupFails(p) /\ WW!LookupFails(p)
  BY DEF LookupFails, Looking, Fault, Return, PP!LookupFails, PP!Looking, PP!Fault, PP!Return,
         WW!LookupFails, WW!Looking, WW!Fault, WW!Return
<1>6. \A p : CopyBack(p) => PP!CopyBack(p) /\ WW!CopyBack(p)
  BY DEF CopyBack, Store, Return, PP!CopyBack, PP!Store, PP!Return, WW!CopyBack, WW!Store,
         WW!Return
<1>7. \A p : CopyBackFails(p) => PP!CopyBackFails(p) /\ WW!CopyBackFails(p)
  BY DEF CopyBackFails, Fault, Store, Return, PP!CopyBackFails, PP!Fault, PP!Store, PP!Return,
         WW!CopyBackFails, WW!Fault, WW!Store, WW!Return
<1>8. \A p : Put(p) => PP!Put(p) /\ WW!Put(p)
  BY DEF Put, Store, Return, PP!Put, PP!Store, PP!Return, WW!Put, WW!Store, WW!Return
<1>9. \A p : PutFails(p) => PP!PutFails(p) /\ WW!PutFails(p)
  BY DEF PutFails, Fault, Store, Return, PP!PutFails, PP!Fault, PP!Store, PP!Return,
         WW!PutFails, WW!Fault, WW!Store, WW!Return
<1>10. \A k : Publish(k) => PP!Publish(k) /\ WW!Publish(k)
  BY DEF Publish, Store, Original, PP!Publish, PP!Store, PP!Original, WW!Publish, WW!Store,
         WW!Original
<1>11. QED
  BY <1>1, <1>2, <1>3, <1>4, <1>5, <1>6, <1>7, <1>8, <1>9, <1>10 DEF S3Step, PP!S3Step, WW!S3Step

\* Start and restart of the process, and what is idle.
LEMMA ProcessSteps ==
    /\ P!Init => PP!Init
    /\ W!WorkerInit => WW!WorkerInit
    /\ \A m : P!Restart(m) => PP!Restart(m)
    /\ \A m, env : W!WorkerRestart(m, env) => WW!WorkerRestart(m, env)
    /\ P!NoReq = PP!NoReq /\ W!NoJob = WW!NoJob
<1>1. P!Init => PP!Init
  BY DEF P!Init, P!StoreInit, P!NoReq, P!Buckets, P!Original, P!NothingStored, P!NoCall,
         PP!Init, PP!StoreInit, PP!NoReq, PP!Buckets, PP!Original, PP!NothingStored, PP!NoCall
<1>2. W!WorkerInit => WW!WorkerInit
  BY DEF W!WorkerInit, W!StoreInit, W!NewWorker, W!NoJob, W!Buckets, W!Original,
         W!NothingStored, W!NoCall, WW!WorkerInit, WW!StoreInit, WW!NewWorker, WW!NoJob,
         WW!Buckets, WW!Original, WW!NothingStored, WW!NoCall
<1>3. \A m : P!Restart(m) => PP!Restart(m)
  BY DEF P!Restart, P!NoReq, P!NoCall, PP!Restart, PP!NoReq, PP!NoCall
<1>4. \A m, env : W!WorkerRestart(m, env) => WW!WorkerRestart(m, env)
  BY DEF W!WorkerRestart, W!NewWorker, W!NoJob, W!NoCall, WW!WorkerRestart, WW!NewWorker,
         WW!NoJob, WW!NoCall
<1>5. P!NoReq = PP!NoReq
  BY DEF P!NoReq, PP!NoReq
<1>6. W!NoJob = WW!NoJob
  BY DEF W!NoJob, WW!NoJob
<1>7. QED
  BY <1>1, <1>2, <1>3, <1>4, <1>5, <1>6

\* What belongs where.
LEMMA Terms ==
    /\ \A k, o : P!OnDemand(k, o) <=> PP!OnDemand(k, o)
    /\ \A u, o : P!Asked(u, o) <=> PP!Asked(u, o)
    /\ \A k, o : W!IsThumb(k, o) <=> WW!IsThumb(k, o)
<1>1. \A k, o : P!OnDemand(k, o) <=> PP!OnDemand(k, o)
  BY DEF P!OnDemand, P!IsOriginalOf, P!ImageUrls, P!RendersFor, P!Origins, P!OriginalKeys,
         P!Alias, P!FileOf, P!FileUrls, PP!OnDemand, PP!IsOriginalOf, PP!ImageUrls,
         PP!RendersFor, PP!Origins, PP!OriginalKeys, PP!Alias, PP!FileOf, PP!FileUrls
<1>2. \A u, o : P!Asked(u, o) <=> PP!Asked(u, o)
  BY DEF P!Asked, P!ImageUrls, P!RendersFor, P!IsOriginalOf, P!OnDemand, P!Origins,
         P!OriginalKeys, P!Alias, P!FileOf, P!FileUrls, PP!Asked, PP!ImageUrls, PP!RendersFor,
         PP!IsOriginalOf, PP!OnDemand, PP!Origins, PP!OriginalKeys, PP!Alias, PP!FileOf,
         PP!FileUrls
<1>3. \A k, o : W!IsThumb(k, o) <=> WW!IsThumb(k, o)
  BY DEF W!IsThumb, W!AcceptedTriggers, W!RowsOf, W!MadeFor, W!Malformed, W!EffectiveSizes,
         W!NewWorker, W!IsPair, W!ThumbKey, W!Variant, W!Alias, W!OriginalKeys,
         W!allowedFormats, W!Version, WW!IsThumb, WW!AcceptedTriggers, WW!RowsOf, WW!MadeFor,
         WW!Malformed, WW!EffectiveSizes, WW!NewWorker, WW!IsPair, WW!ThumbKey, WW!Variant,
         WW!Alias, WW!OriginalKeys, WW!allowedFormats, WW!Version
<1>4. QED
  BY <1>1, <1>2, <1>3

\* What is claimed of either side.
LEMMA Claims ==
    /\ PP!IInv => P!IInv
    /\ WW!WorkerInv => W!WorkerInv
    /\ WW!CleanBatchCovers => CleanBatchCovers
<1>1. PP!TypeOK => P!TypeOK
  BY DEF P!TypeOK, P!StoreTypeOK, P!RequestRecord, P!Buckets, P!Maybe, P!CallRecord, P!Stages,
         P!Clients, P!Statuses, P!Object, PP!TypeOK, PP!StoreTypeOK, PP!RequestRecord,
         PP!Buckets, PP!Maybe, PP!CallRecord, PP!Stages, PP!Clients, PP!Statuses, PP!Object
<1>2. PP!StoredIsHonest => P!StoredIsHonest
  BY DEF P!StoredIsHonest, P!Buckets, P!Honest, P!OnDemand, P!IsOriginalOf, P!ImageUrls,
         P!RendersFor, P!Origins, P!OriginalKeys, P!Alias, P!FileOf, P!FileUrls,
         PP!StoredIsHonest, PP!Buckets, PP!Honest, PP!OnDemand, PP!IsOriginalOf, PP!ImageUrls,
         PP!RendersFor, PP!Origins, PP!OriginalKeys, PP!Alias, PP!FileOf, PP!FileUrls
<1>3. PP!LegacyIsOriginal => P!LegacyIsOriginal
  BY DEF P!LegacyIsOriginal, P!Original, PP!LegacyIsOriginal, PP!Original
<1>4. PP!CacheHoldsNoImageOriginal => P!CacheHoldsNoImageOriginal
  BY DEF P!CacheHoldsNoImageOriginal, P!FileUrls, PP!CacheHoldsNoImageOriginal, PP!FileUrls
<1>5. PP!ServedAsAsked => P!ServedAsAsked
  BY DEF P!ServedAsAsked, P!Served, P!Asked, P!ImageUrls, P!RendersFor, P!IsOriginalOf,
         P!OnDemand, P!Origins, P!OriginalKeys, P!Alias, P!FileOf, P!FileUrls, PP!ServedAsAsked,
         PP!Served, PP!Asked, PP!ImageUrls, PP!RendersFor, PP!IsOriginalOf, PP!OnDemand,
         PP!Origins, PP!OriginalKeys, PP!Alias, PP!FileOf, PP!FileUrls
<1>6. \A c : PP!CallOK(c) => P!CallOK(c)
  BY DEF P!CallOK, P!Object, P!Honest, P!FileUrls, P!OnDemand, P!IsOriginalOf, P!ImageUrls,
         P!RendersFor, P!Origins, P!OriginalKeys, P!Alias, P!FileOf, PP!CallOK, PP!Object,
         PP!Honest, PP!FileUrls, PP!OnDemand, PP!IsOriginalOf, PP!ImageUrls, PP!RendersFor,
         PP!Origins, PP!OriginalKeys, PP!Alias, PP!FileOf
<1>7. \A r, c : PP!ReqOK(r, c) => P!ReqOK(r, c)
  BY DEF P!ReqOK, P!ImageUrls, P!FileUrls, P!Object, P!IsOriginalOf, P!RendersFor, P!Origins,
         P!OriginalKeys, P!Alias, P!FileOf, PP!ReqOK, PP!ImageUrls, PP!FileUrls, PP!Object,
         PP!IsOriginalOf, PP!RendersFor, PP!Origins, PP!OriginalKeys, PP!Alias, PP!FileOf
<1>8. PP!IInv => P!IInv
  BY <1>1, <1>2, <1>3, <1>4, <1>5, <1>6, <1>7 DEF P!IInv, PP!IInv
<1>9. WW!WorkerTypeOK => W!WorkerTypeOK
  BY DEF W!WorkerTypeOK, W!StoreTypeOK, W!JobRecord, W!NewWorker, W!Buckets, W!Maybe,
         W!CallRecord, W!JobStages, W!JobStatuses, W!Object, W!Clients, WW!WorkerTypeOK,
         WW!StoreTypeOK, WW!JobRecord, WW!NewWorker, WW!Buckets, WW!Maybe, WW!CallRecord,
         WW!JobStages, WW!JobStatuses, WW!Object, WW!Clients
<1>10. WW!ThumbsAreHonest => W!ThumbsAreHonest
  BY DEF W!ThumbsAreHonest, W!Buckets, W!Belongs, W!IsOriginal, W!IsThumb, W!Alias,
         W!OriginalKeys, W!AcceptedTriggers, W!RowsOf, W!MadeFor, W!Malformed, W!EffectiveSizes,
         W!NewWorker, W!IsPair, W!ThumbKey, W!Variant, W!allowedFormats, W!Version,
         WW!ThumbsAreHonest, WW!Buckets, WW!Belongs, WW!IsOriginal, WW!IsThumb, WW!Alias,
         WW!OriginalKeys, WW!AcceptedTriggers, WW!RowsOf, WW!MadeFor, WW!Malformed,
         WW!EffectiveSizes, WW!NewWorker, WW!IsPair, WW!ThumbKey, WW!Variant, WW!allowedFormats,
         WW!Version
<1>11. WW!LegacyIsOriginal => W!LegacyIsOriginal
  BY DEF W!LegacyIsOriginal, W!Original, WW!LegacyIsOriginal, WW!Original
<1>12. \A c : WW!CallOK(c) => W!CallOK(c)
  BY DEF W!CallOK, W!Object, W!Belongs, W!IsOriginal, W!IsThumb, W!Alias, W!OriginalKeys,
         W!AcceptedTriggers, W!RowsOf, W!MadeFor, W!Malformed, W!EffectiveSizes, W!NewWorker,
         W!IsPair, W!ThumbKey, W!Variant, W!allowedFormats, W!Version, WW!CallOK, WW!Object,
         WW!Belongs, WW!IsOriginal, WW!IsThumb, WW!Alias, WW!OriginalKeys, WW!AcceptedTriggers,
         WW!RowsOf, WW!MadeFor, WW!Malformed, WW!EffectiveSizes, WW!NewWorker, WW!IsPair,
         WW!ThumbKey, WW!Variant, WW!allowedFormats, WW!Version
<1>13. \A j, c : WW!JobOK(j, c) => W!JobOK(j, c)
  <2>1. \A j : WW!PlaceOK(j) => W!PlaceOK(j)
    BY DEF W!PlaceOK, W!AcceptedTriggers, W!RowsOf, W!Malformed, W!EffectiveSizes, W!NewWorker,
           W!allowedFormats, WW!PlaceOK, WW!AcceptedTriggers, WW!RowsOf, WW!Malformed,
           WW!EffectiveSizes, WW!NewWorker, WW!allowedFormats
  <2>2. \A t, image, row, format : WW!ThumbKey(t, image, row, format)
          = W!ThumbKey(t, image, row, format)
    BY DEF W!ThumbKey, W!Version, WW!ThumbKey, WW!Version
  <2>3. QED
    BY <2>1, <2>2, Terms DEF W!JobOK, W!Object, W!IsOriginal, W!IsPair, W!Row, W!Key, W!Alias,
           W!OriginalKeys, W!Format, WW!JobOK, WW!Object, WW!IsOriginal, WW!IsPair, WW!Row,
           WW!Key, WW!Alias, WW!OriginalKeys, WW!Format
<1>14. WW!WorkerInv => W!WorkerInv
  BY <1>9, <1>10, <1>11, <1>12, <1>13 DEF W!WorkerInv, WW!WorkerInv
<1>15. WW!CleanBatchCovers => CleanBatchCovers
  BY BatchTerms DEF CleanBatchCovers, W!CleanBatchCovers, WW!CleanBatchCovers, W!Finished,
     WW!Finished
<1>16. QED
  BY <1>8, <1>14, <1>15

-----------------------------------------------------------------------------
(* The invariant.                                                          *)

\* A process that has died runs no batch.
DownIsEmpty == down => job = [p \in Procs |-> W!NoJob]

\* Each side's invariants, about what belongs where and about what a call that
\* did not fail has shown, in slots of its own.
BothInv ==
    /\ PP!IInv /\ PP!CleanInv
    /\ WW!WorkerInv /\ WW!BatchCleanInv
    /\ SlotsApart /\ DownIsEmpty

\* Requests take for prepared what batches make, batches for filed what requests
\* make: both sides mean the same by what belongs under a key.
LEMMA SameBelongs ==
    ASSUME NEW k \in Keys, NEW o \in WW!Object
    PROVE  PP!Honest(k, o) <=> WW!Belongs(k, o)
<1>1. o \in Prepared[k] <=> W!IsThumb(k, o)
  BY SharingAssumption DEF Object, WW!Object
<1>2. o \in Filed[k] <=> P!OnDemand(k, o)
  BY SharingAssumption DEF Object, WW!Object
<1>3. WW!IsOriginal(k, o) => PP!OnDemand(k, o)
  BY DEF WW!IsOriginal, WW!Alias, WW!OriginalKeys, PP!OnDemand, PP!IsOriginalOf, PP!Origins,
         PP!FileOf, PP!Alias, PP!OriginalKeys
<1>4. QED
  BY <1>1, <1>2, <1>3, Terms DEF PP!Honest, WW!Belongs

\* A call that is in order for a request is so for a batch.
LEMMA RequestCall ==
    ASSUME NEW c, PP!CallOK(c)
    PROVE  WW!CallOK(c)
<1>1. PP!Object = WW!Object
  BY DEF PP!Object, WW!Object, PP!Maybe, WW!Maybe
<1>2. c.at # "idle" => c.key \in Keys
  BY DEF PP!CallOK
<1>3. QED
  BY <1>1, <1>2, SameBelongs DEF PP!CallOK, WW!CallOK

\* A call that is in order for a batch is so for a request: no batch writes
\* anything but renderings.
LEMMA BatchCall ==
    ASSUME NEW c, WW!CallOK(c), c.op = "put" => \E k \in Keys : WW!IsThumb(k, c.data)
    PROVE  PP!CallOK(c)
<1>1. PP!Object = WW!Object /\ WW!Object = Object
  BY DEF PP!Object, WW!Object, Object
<1>2. c.at # "idle" => c.key \in Keys
  BY DEF WW!CallOK
<1>3. ASSUME c.op = "put", c.at = "primary" PROVE c.data.opts # AsIs
  <2>1. c.data \in Object
    BY <1>1, <1>3 DEF WW!CallOK
  <2>2. PICK k \in Keys : W!IsThumb(k, c.data)
    BY <1>3, Terms
  <2>3. c.data \in Prepared[k]
    BY <2>1, <2>2, SharingAssumption
  <2>4. QED
    BY <2>3, Assumptions DEF PP!PreparedAssumption
<1>4. QED
  BY <1>1, <1>2, <1>3, SameBelongs DEF PP!CallOK, WW!CallOK

LEMMA SameRecords == PP!CallRecord = WW!CallRecord
BY DEF PP!CallRecord, WW!CallRecord, PP!Maybe, WW!Maybe, PP!Object, WW!Object, PP!Clients,
       WW!Clients

LEMMA InitBoth ==
    ASSUME ProxyInit
    PROVE  BothInv
<1>1. PP!Init /\ WW!WorkerInit
  BY ProcessSteps DEF ProxyInit
<1>2. PP!IInv /\ PP!CleanInv
  BY <1>1, Assumptions, PP!InitIsInv, PP!CleanInitially
<1>3. WW!WorkerInv /\ WW!BatchCleanInv
  BY <1>1, Assumptions, WW!InitIsInv, WW!InitIsClean
<1>4. SlotsApart /\ DownIsEmpty
  BY HandlersAssumption DEF ProxyInit, P!Init, W!WorkerInit, SlotsApart, DownIsEmpty
<1>5. QED
  BY <1>2, <1>3, <1>4 DEF BothInv

-----------------------------------------------------------------------------
(* The steps.                                                              *)

\* A step that requests and batches know alike.
LEMMA OwnSteps ==
    ASSUME BothInv, PP!Next, WW!WorkerNext
    PROVE  PP!IInv' /\ PP!CleanInv' /\ WW!WorkerInv' /\ WW!BatchCleanInv'
<1>1. PP!IInv' /\ PP!CleanInv'
  BY Assumptions, PP!NextKeepsInv, PP!StepKeepsClean DEF BothInv
<1>2. WW!WorkerInv' /\ WW!BatchCleanInv'
  BY Assumptions, WW!NextKeepsInv, WW!NextKeepsClean DEF BothInv
<1>3. QED
  BY <1>1, <1>2

\* A step of a request, beside whose slot no batch runs.
LEMMA RequestStep ==
    ASSUME BothInv, NEW p \in Handlers, PP!Start(p) \/ PP!Continue(p),
           UNCHANGED <<job, sizes, down>>
    PROVE  BothInv'
<1> USE DEF BothInv
<1>1. p \in Procs
  BY HandlersAssumption
<1>2. PP!IInv' /\ PP!CleanInv'
  BY <1>1, Assumptions, PP!NextKeepsInv, PP!StepKeepsClean DEF PP!Next
<1>3. /\ PP!StoreUnchanged
      /\ req' = [req EXCEPT ![p] = req'[p]] /\ call' = [call EXCEPT ![p] = call'[p]]
      /\ call'[p].at \in {"idle", "primary"}
  BY <1>1, Assumptions, PP!RequestMoves
<1>4. call'[p] \in WW!CallRecord /\ WW!CallOK(call'[p])
  <2>1. call' \in [Procs -> PP!CallRecord] /\ PP!CallOK(call'[p])
    BY <1>1, <1>2 DEF PP!IInv, PP!TypeOK, PP!StoreTypeOK
  <2>2. QED
    BY <1>1, <2>1, SameRecords, RequestCall
<1>5. job[p] = WW!NoJob
  BY ProcessSteps DEF SlotsApart
<1>6. WW!StoreUnchanged
  BY <1>3 DEF PP!StoreUnchanged, WW!StoreUnchanged
<1>7. WW!WorkerInv' /\ WW!BatchCleanInv'
  BY <1>1, <1>3, <1>4, <1>5, <1>6, Assumptions, WW!OtherCallStep, WW!OtherCallClean
<1>8. SlotsApart' /\ DownIsEmpty'
  <2>1. \A q \in Procs \ Handlers : req'[q] = req[q]
    BY <1>3 DEF PP!IInv, PP!TypeOK
  <2>2. QED
    BY <2>1 DEF SlotsApart, DownIsEmpty
<1>9. QED
  BY <1>2, <1>7, <1>8

\* A step of a batch, but for a panic, beside whose slot no request is served.
LEMMA BatchStep ==
    ASSUME BothInv, NEW p \in Procs \ Handlers,
           WW!WorkerStart(p) \/ (WW!WorkerContinue(p) /\ ~ WW!Panic(p)),
           UNCHANGED req, ~ down
    PROVE  BothInv'
<1> USE DEF BothInv
<1>2. WW!WorkerInv' /\ WW!BatchCleanInv'
  BY Assumptions, WW!NextKeepsInv, WW!NextKeepsClean DEF WW!WorkerNext
<1>3. /\ WW!StoreUnchanged /\ UNCHANGED <<sizes, down>>
      /\ job' = [job EXCEPT ![p] = job'[p]] /\ call' = [call EXCEPT ![p] = call'[p]]
      /\ call'[p].at \in {"idle", "primary"}
      /\ call'[p].op = "put" => \E k \in Keys : WW!IsThumb(k, call'[p].data)
  BY Assumptions, WW!BatchMoves
<1>4. call'[p] \in PP!CallRecord /\ PP!CallOK(call'[p])
  <2>1. call' \in [Procs -> WW!CallRecord] /\ WW!CallOK(call'[p])
    BY <1>2 DEF WW!WorkerInv, WW!WorkerTypeOK, WW!StoreTypeOK
  <2>2. QED
    BY <1>3, <2>1, SameRecords, BatchCall
<1>5. req[p] = PP!NoReq
  BY ProcessSteps DEF SlotsApart
<1>6. PP!StoreUnchanged
  BY <1>3 DEF PP!StoreUnchanged, WW!StoreUnchanged
<1>7. PP!IInv' /\ PP!CleanInv'
  BY <1>3, <1>4, <1>5, <1>6, Assumptions, PP!OtherCallStep, PP!OtherCallClean
<1>8. SlotsApart' /\ DownIsEmpty'
  <2>1. \A q \in Handlers : job'[q] = job[q]
    BY <1>3, HandlersAssumption DEF WW!WorkerInv, WW!WorkerTypeOK
  <2>2. QED
    BY <1>3, <2>1 DEF SlotsApart, DownIsEmpty
<1>9. QED
  BY <1>2, <1>7, <1>8

\* A panic is a death of the process to the requests, whatever mode it is
\* started in again.
LEMMA PanicStep ==
    ASSUME BothInv, NEW p \in Procs, WW!Panic(p), req' = [q \in Procs |-> P!NoReq]
    PROVE  BothInv'
<1> USE DEF BothInv
<1>1. mode \in Modes
  BY DEF PP!IInv, PP!TypeOK
<1>2. PP!Restart(mode)
  BY ProcessSteps DEF WW!Panic, PP!Restart, PP!NoCall, WW!NoCall
<1>3. PP!Next /\ WW!WorkerNext
  BY <1>1, <1>2 DEF PP!Next, WW!WorkerNext, WW!WorkerContinue
<1>4. SlotsApart' /\ DownIsEmpty'
  BY ProcessSteps, HandlersAssumption DEF WW!Panic, SlotsApart, DownIsEmpty
<1>5. QED
  BY <1>3, <1>4, OwnSteps

\* Every step of the process keeps what either side relies on.
LEMMA NextKeepsBoth ==
    BothInv /\ [ProxyNext]_proxyVars => BothInv'
<1> SUFFICES ASSUME BothInv, [ProxyNext]_proxyVars PROVE BothInv'
  OBVIOUS
<1>1. ASSUME NEW p \in Procs, Request(p) PROVE BothInv'
  BY <1>1, RequestStarts, RequestStep DEF Request
<1>2. ASSUME NEW p \in Procs, Serve(p) PROVE BothInv'
  <2>1. PP!Continue(p)
    BY <1>2, RequestContinues DEF Serve
  <2>2. req[p].pc # "idle"
    BY <2>1, Assumptions, PP!InService
  <2>3. p \in Handlers
    BY <2>2 DEF BothInv, SlotsApart, P!NoReq
  <2>4. QED
    BY <1>2, <2>1, <2>3, RequestStep DEF Serve
<1>3. ASSUME NEW p \in Procs, Batch(p) PROVE BothInv'
  <2>1. WW!WorkerStart(p)
    BY <1>3, BatchStarts DEF Batch
  <2>2. ~ down
    BY <1>3 DEF Batch, W!WorkerStart, W!Reject, W!Accept, W!Idle
  <2>3. QED
    BY <1>3, <2>1, <2>2, BatchStep DEF Batch
<1>4. ASSUME NEW p \in Procs, Work(p) PROVE BothInv'
  <2>1. WW!WorkerContinue(p)
    BY <1>4, BatchContinues DEF Work
  <2>2. job[p].pc # "idle"
    BY <2>1, Assumptions, WW!AtWork
  <2>3. p \in Procs \ Handlers /\ ~ down
    BY <2>2 DEF BothInv, SlotsApart, DownIsEmpty, W!NoJob
  <2>4. CASE WW!Panic(p)
    <3>1. down'
      BY <2>4 DEF WW!Panic
    <3>2. QED
      BY <1>4, <2>4, <3>1, PanicStep DEF Work
  <2>5. CASE ~ WW!Panic(p)
    <3>1. UNCHANGED down
      BY <2>1, <2>5, Assumptions, WW!BatchMoves DEF BothInv
    <3>2. UNCHANGED req
      BY <1>4, <2>3, <3>1 DEF Work
    <3>3. QED
      BY <2>1, <2>3, <2>5, <3>2, BatchStep
  <2>6. QED
    BY <2>4, <2>5
<1>5. ASSUME NEW p \in Procs, S3Step(p), UNCHANGED <<mode, req, job, sizes, down>>
      PROVE  BothInv'
  <2>1. PP!Next /\ WW!WorkerNext
    BY <1>5, StoreSteps DEF PP!Next, WW!WorkerNext
  <2>2. QED
    BY <1>5, <2>1, OwnSteps DEF BothInv, SlotsApart, DownIsEmpty
<1>6. ASSUME NEW k \in CatalogKeys, Publish(k), UNCHANGED <<mode, req, job, sizes, down>>
      PROVE  BothInv'
  <2>1. PP!Next /\ WW!WorkerNext
    BY <1>6, StoreSteps DEF PP!Next, WW!WorkerNext
  <2>2. QED
    BY <1>6, <2>1, OwnSteps DEF BothInv, SlotsApart, DownIsEmpty
<1>7. ASSUME ProcessRestart PROVE BothInv'
  <2>1. PICK m \in Modes, env \in EnvSizes : P!Restart(m) /\ W!WorkerRestart(m, env)
    BY <1>7 DEF ProcessRestart
  <2>2. PP!Next /\ WW!WorkerNext
    BY <2>1, ProcessSteps DEF PP!Next, WW!WorkerNext
  <2>3. SlotsApart' /\ DownIsEmpty'
    BY <2>1, HandlersAssumption DEF P!Restart, W!WorkerRestart, SlotsApart, DownIsEmpty
  <2>4. QED
    BY <2>2, <2>3, OwnSteps DEF BothInv
<1>8. CASE UNCHANGED proxyVars
  <2>1. UNCHANGED PP!vars /\ UNCHANGED WW!workerVars
    BY <1>8 DEF proxyVars, PP!vars, WW!workerVars
  <2>2. PP!IInv' /\ PP!CleanInv'
    BY <2>1, Assumptions, PP!NextKeepsInv, PP!StepKeepsClean DEF BothInv
  <2>3. WW!WorkerInv' /\ WW!BatchCleanInv'
    BY <2>1, Assumptions, WW!NextKeepsInv, WW!NextKeepsClean DEF BothInv
  <2>4. QED
    BY <1>8, <2>2, <2>3 DEF BothInv, SlotsApart, DownIsEmpty, proxyVars
<1>9. QED
  BY <1>1, <1>2, <1>3, <1>4, <1>5, <1>6, <1>7, <1>8 DEF ProxyNext

\* Requests and batches keep their own invariants and each other's, whatever
\* interleaving, failures, deaths and restarts come between (ServeHTTP,
\* handleWorkerTrigger, ProcessBatch).
THEOREM BothInvariant == ProxySpec => []BothInv
BY InitBoth, NextKeepsBoth, PTL DEF ProxySpec

-----------------------------------------------------------------------------
(* What follows.                                                           *)

\* The joint invariant that the run of module ImageProxy checks.
THEOREM JointInvariant == ProxySpec => []JointInv
<1>1. BothInv => JointInv
  BY Claims DEF BothInv, JointInv
<1>2. QED
  BY <1>1, BothInvariant, PTL

\* Whatever requests and batches do beside each other, an object under a key is
\* what the key stands for (handleResize, handleFile, putBoth, processOutput).
THEOREM WritersAgree == ProxySpec => []WritersAgreeOnKeys
<1>1. BothInv => WritersAgreeOnKeys
  <2> SUFFICES ASSUME BothInv, NEW b \in Buckets, NEW k \in Keys, bucket[b][k] # Absent
               PROVE  P!OnDemand(k, bucket[b][k]) \/ W!IsThumb(k, bucket[b][k])
    BY DEF WritersAgreeOnKeys
  <2>1. PP!Honest(k, bucket[b][k])
    BY DEF BothInv, PP!IInv, PP!StoredIsHonest, Buckets, PP!Buckets
  <2>2. QED
    BY <2>1, Terms, SharingAssumption DEF PP!Honest
<1>2. QED
  BY <1>1, BothInvariant, PTL

\* A client gets the size, format and fit its URL asks for, whether a request or
\* a batch made the rendering, but for version 1 and the size 0x0, and of a batch
\* every page of an animation (ServeHTTP, processOutput).
THEOREM PreparedLooksSame == ProxySpec => []PreparedLooksOnDemand
<1>1. BothInv => PreparedLooksOnDemand
  <2> SUFFICES ASSUME BothInv, NEW p \in Procs,
                      req[p].pc = "done", req[p].status = 200, ~ P!Asked(req[p].url, req[p].obj)
               PROVE  /\ req[p].url.shape # "param" /\ W!IsThumb(req[p].url.raw, req[p].obj)
                      /\ req[p].url \in P!ImageUrls =>
                           req[p].obj.opts = AllPages[req[p].url.opts] \/ Differs(req[p].url.raw)
    BY DEF PreparedLooksOnDemand
  <2> DEFINE u == req[p].url
             o == req[p].obj
  <2>1. u.shape # "param" /\ o \in Prepared[u.raw]
    BY Terms DEF BothInv, PP!IInv, PP!ServedAsAsked, PP!Served
  <2>2. u \in Urls /\ u.raw \in Keys
    BY Assumptions DEF BothInv, PP!IInv, PP!ReqOK, PP!UrlAssumption, PP!Url
  <2>3. W!IsThumb(u.raw, o)
    BY <2>1, <2>2, SharingAssumption
  <2>4. ASSUME u \in P!ImageUrls PROVE o.opts = AllPages[u.opts] \/ Differs(u.raw)
    <3>1. PICK t \in W!AcceptedTriggers :
            \E i \in DOMAIN t.images, n \in DOMAIN t.formats : \E row \in W!RowsOf(t) :
              W!MadeFor(t, i, row, t.formats[n], u.raw, o)
      BY <2>3 DEF W!IsThumb
    <3>2. PICK i \in DOMAIN t.images, n \in DOMAIN t.formats : \E row \in W!RowsOf(t) :
            W!MadeFor(t, i, row, t.formats[n], u.raw, o)
      BY <3>1
    <3>3. PICK row \in W!RowsOf(t) : W!MadeFor(t, i, row, t.formats[n], u.raw, o)
      BY <3>2
    <3> HIDE DEF u, o
    <3>4. QED
      BY <2>1, <2>4, <3>3, AgreementAssumption DEF W!MadeFor
  <2>5. QED
    BY <2>1, <2>3, <2>4
<1>2. QED
  BY <1>1, BothInvariant, PTL

\* A batch in which nothing failed leaves no output out, although requests write
\* and serve the same keys meanwhile (ProcessBatch, putBoth).
THEOREM BatchCoversBeside == ProxySpec => []CleanBatchCovers
<1>1. BothInv => CleanBatchCovers
  BY Assumptions, Claims, WW!CleanCovers DEF BothInv
<1>2. QED
  BY <1>1, BothInvariant, PTL

\* What a request none of whose S3 calls failed answers is true beside batches,
\* too: a 404, the best original, the copies left behind, what need not be made
\* again (handleResize, putBoth).
THEOREM CleanAnswersBeside ==
    ProxySpec => [](/\ PP!CleanNotFoundIsTrue /\ PP!CleanRenderUsesBest
                    /\ PP!CleanMissPopulates /\ PP!StoredIsNotRemade)
<1>1. BothInv => /\ PP!CleanNotFoundIsTrue /\ PP!CleanRenderUsesBest
                 /\ PP!CleanMissPopulates /\ PP!StoredIsNotRemade
  BY Assumptions, PP!CleanAnswers DEF BothInv
<1>2. QED
  BY <1>1, BothInvariant, PTL

\* A batch in which nothing failed never overwrites an output it was shown as it
\* began, beside requests, too (the skip-existing check of processOutput).
THEOREM ExistingSkippedBeside == ProxySpec => []WW!ExistingAreSkipped
<1>1. BothInv => WW!ExistingAreSkipped
  BY Assumptions, WW!CleanSkips DEF BothInv
<1>2. QED
  BY <1>1, BothInvariant, PTL
====
