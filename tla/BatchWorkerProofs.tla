-------------------------- MODULE BatchWorkerProofs --------------------------
(***************************************************************************)
(* Proofs about BatchWorker, for every set of triggers, images and sizes,  *)
(* any number of batches side by side, failures, restarts and panics.      *)
(*                                                                         *)
(* The second half is about batches in which nothing failed: they leave no *)
(* output out and write none they were shown.                              *)
(***************************************************************************)
EXTENDS BatchWorker, TLAPS

-----------------------------------------------------------------------------
(* Facts about constants: triggers, their outputs, and what belongs where. *)

LEMMA PositionsArePositive ==
    ASSUME NEW S, NEW s \in Seq(S), NEW n \in DOMAIN s
    PROVE  n \in Nat \ {0}
OBVIOUS

LEMMA TriggerFields ==
    ASSUME NEW t \in AcceptedTriggers
    PROVE  /\ t \in Triggers
           /\ t.images \in Seq(Keys) /\ 1 \in DOMAIN t.images
           /\ t.formats \in Seq(STRING) /\ 1 \in DOMAIN t.formats
           /\ t.sizes \in Seq(Seq(Int))
<1>1. t \in Trigger /\ ~ Malformed(t)
  BY WorkerAssumption DEF AcceptedTriggers
<1>2. t.images \in Seq(Keys) /\ t.formats \in Seq(STRING) /\ t.sizes \in Seq(Seq(Int))
  BY <1>1 DEF Trigger
<1>3. t.images # << >> /\ t.formats # << >>
  BY <1>1 DEF Malformed
<1>4. QED
  BY <1>2, <1>3 DEF AcceptedTriggers

\* A process never runs with an empty list of sizes.
LEMMA OwnSizes ==
    ASSUME NEW own \in {NewWorker(env) : env \in EnvSizes}
    PROVE  own \in Seq(Seq(Int)) /\ 1 \in DOMAIN own
<1>1. PICK env \in EnvSizes : own = NewWorker(env)
  OBVIOUS
<1>2. own \in Seq(Seq(Int)) /\ own # << >>
  BY <1>1, WorkerAssumption DEF NewWorker
<1>3. QED
  BY <1>2

LEMMA RowsInRange ==
    ASSUME NEW t \in AcceptedTriggers, NEW own \in {NewWorker(env) : env \in EnvSizes}
    PROVE  /\ EffectiveSizes(t, own) \in Seq(Seq(Int))
           /\ 1 \in DOMAIN EffectiveSizes(t, own)
           /\ \A n \in DOMAIN EffectiveSizes(t, own) : EffectiveSizes(t, own)[n] \in RowsOf(t)
<1>1. t.sizes \in Seq(Seq(Int))
  BY TriggerFields
<1>2. own \in Seq(Seq(Int)) /\ 1 \in DOMAIN own
  BY OwnSizes
<1>3. /\ EffectiveSizes(t, own) \in Seq(Seq(Int))
      /\ 1 \in DOMAIN EffectiveSizes(t, own)
  BY <1>1, <1>2 DEF EffectiveSizes
<1>4. PICK env \in EnvSizes : own = NewWorker(env)
  OBVIOUS
<1>5. \A n \in DOMAIN EffectiveSizes(t, own) : EffectiveSizes(t, own)[n] \in RowsOf(t)
  BY <1>4 DEF RowsOf
<1>6. QED
  BY <1>3, <1>5

\* The key of an output is no original's key; its image's key is.
LEMMA OutputKey ==
    ASSUME NEW t \in AcceptedTriggers, NEW i \in DOMAIN t.images,
           NEW n \in DOMAIN t.formats, NEW row \in RowsOf(t), IsPair(row)
    PROVE  /\ ThumbKey(t, t.images[i], row, t.formats[n]) \in Keys
           /\ ThumbKey(t, t.images[i], row, t.formats[n]) \notin OriginalKeys
           /\ Variant(row, t.formats[n]) \in Options
BY WorkerAssumption

LEMMA ImagesAreOriginals ==
    ASSUME NEW t \in AcceptedTriggers, NEW i \in DOMAIN t.images
    PROVE  t.images[i] \in OriginalKeys
BY WorkerAssumption

\* The image of a trigger is never found to be a rendering.
LEMMA ImageIsOriginal ==
    ASSUME NEW t \in AcceptedTriggers, NEW i \in DOMAIN t.images, NEW o,
           Belongs(t.images[i], o)
    PROVE  IsOriginal(t.images[i], o)
<1>1. ~ IsThumb(t.images[i], o)
  BY ImagesAreOriginals, OutputKey DEF IsThumb, MadeFor
<1>2. QED
  BY <1>1, FiledAssumption DEF Belongs

\* Rendering the original of an image gives what its output's key says.
LEMMA RenderingIsThumb ==
    ASSUME NEW t \in AcceptedTriggers, NEW i \in DOMAIN t.images,
           NEW n \in DOMAIN t.formats, NEW row \in RowsOf(t), IsPair(row),
           NEW o \in Object, IsOriginal(t.images[i], o)
    PROVE  /\ Render(o, Variant(row, t.formats[n])) \in Object
           /\ IsThumb(ThumbKey(t, t.images[i], row, t.formats[n]),
                      Render(o, Variant(row, t.formats[n])))
<1> DEFINE v == Variant(row, t.formats[n])
           r == Render(o, v)
<1>1. v \in Options
  BY OutputKey
<1>2. r = [o EXCEPT !.opts = v] /\ o.src \in Alias(t.images[i]) \intersect OriginalKeys
  BY DEF Render, IsOriginal
<1> HIDE DEF v
<1>3. r \in Object /\ r.opts = v /\ r.src = o.src
  BY <1>1, <1>2 DEF Object
<1> HIDE DEF r
<1>4. MadeFor(t, i, row, t.formats[n], ThumbKey(t, t.images[i], row, t.formats[n]), r)
  BY <1>2, <1>3 DEF MadeFor, v
<1>5. QED
  BY <1>3, <1>4 DEF IsThumb, r, v

-----------------------------------------------------------------------------
(* Steps of the S3 client.                                                 *)

LEMMA CallTypes ==
    ASSUME WorkerInv, NEW p \in Procs
    PROVE  /\ call[p] \in CallRecord /\ CallOK(call[p]) /\ call[p].client \in Buckets
           /\ job[p] \in JobRecord /\ JobOK(job[p], call[p])
           /\ call \in [Procs -> CallRecord] /\ job \in [Procs -> JobRecord]
           /\ bucket \in [Buckets -> [Keys -> Maybe]] /\ faults \in 0 .. MaxFaults
           /\ sizes \in {NewWorker(env) : env \in EnvSizes}
BY DEF WorkerInv, WorkerTypeOK, StoreTypeOK, CallRecord, Clients, Buckets

\* What a batch waits for does not change while its call goes on.
LEMMA JobWaits ==
    ASSUME NEW j, NEW c, NEW d, JobOK(j, c),
           c.at # "idle", d.at # "idle", d.op = c.op, d.key = c.key
    PROVE  JobOK(j, d)
BY DEF JobOK

\* A lookup that moves on leaves the batch that waits for it as it is.
LEMMA LookupFrame ==
    ASSUME WorkerInv, NEW p \in Procs,
           UNCHANGED <<bucket, catalog, mode, job, sizes, down>>, faults' \in 0 .. MaxFaults,
           call[p].at # "idle",
           call' = [call EXCEPT ![p] = call'[p]],
           call'[p] \in CallRecord, CallOK(call'[p]),
           call'[p].op = call[p].op, call'[p].key = call[p].key, call'[p].at # "idle"
    PROVE  WorkerInv'
<1>1. WorkerTypeOK'
  BY DEF WorkerInv, WorkerTypeOK, StoreTypeOK
<1>2. ThumbsAreHonest' /\ LegacyIsOriginal'
  BY DEF WorkerInv, ThumbsAreHonest, LegacyIsOriginal
<1>3. ASSUME NEW q \in Procs
      PROVE  CallOK(call'[q]) /\ JobOK(job'[q], call'[q])
  <2>1. CASE q = p
    <3>1. JobOK(job[p], call'[p])
      BY CallTypes, JobWaits
    <3>2. QED
      BY <2>1, <3>1
  <2>2. CASE q # p
    <3>1. call'[q] = call[q] /\ job'[q] = job[q]
      BY <2>2 DEF WorkerInv, WorkerTypeOK, StoreTypeOK
    <3>2. QED
      BY <3>1 DEF WorkerInv
  <2>3. QED
    BY <2>1, <2>2
<1>4. QED
  BY <1>1, <1>2, <1>3 DEF WorkerInv

\* A write of an object that belongs there, with the answer to its call.
LEMMA WriteFrame ==
    ASSUME WorkerInv, NEW p \in Procs, NEW b \in Clients, NEW k \in Keys,
           UNCHANGED <<catalog, mode, job, sizes, down>>, faults' \in 0 .. MaxFaults,
           call[p].at # "idle",
           call' = [call EXCEPT ![p] = call'[p]],
           call'[p] \in CallRecord, CallOK(call'[p]),
           call'[p].op = call[p].op, call'[p].key = call[p].key, call'[p].at # "idle",
           bucket' = [bucket EXCEPT ![b][k] = bucket'[b][k]],
           bucket'[b][k] \in Object, Belongs(k, bucket'[b][k])
    PROVE  WorkerInv'
<1>1. WorkerTypeOK'
  BY DEF WorkerInv, WorkerTypeOK, StoreTypeOK, Buckets, Clients, Maybe
<1>2. ThumbsAreHonest'
  BY DEF WorkerInv, WorkerTypeOK, StoreTypeOK, ThumbsAreHonest, Buckets, Clients
<1>3. LegacyIsOriginal'
  BY DEF WorkerInv, WorkerTypeOK, StoreTypeOK, LegacyIsOriginal, Buckets, Clients
<1>4. ASSUME NEW q \in Procs
      PROVE  CallOK(call'[q]) /\ JobOK(job'[q], call'[q])
  <2>1. CASE q = p
    <3>1. JobOK(job[p], call'[p])
      BY CallTypes, JobWaits
    <3>2. QED
      BY <2>1, <3>1
  <2>2. CASE q # p
    <3>1. call'[q] = call[q] /\ job'[q] = job[q]
      BY <2>2 DEF WorkerInv, WorkerTypeOK, StoreTypeOK
    <3>2. QED
      BY <3>1 DEF WorkerInv
  <2>3. QED
    BY <2>1, <2>2
<1>5. QED
  BY <1>1, <1>2, <1>3, <1>4 DEF WorkerInv

\* What the fallback bucket answers for a key belongs under that key.
LEMMA FallbackBelongs ==
    ASSUME WorkerInv, NEW k \in Keys, NEW f \in Keys, f \in Alias(k),
           bucket["fallback"][f] # Absent
    PROVE  bucket["fallback"][f] \in Object /\ Belongs(k, bucket["fallback"][f])
<1>1. bucket["fallback"][f] = Original(f, 0) /\ f \in LegacyKeys
  BY DEF WorkerInv, LegacyIsOriginal
<1>2. bucket["fallback"][f] \in Object
  BY DEF WorkerInv, WorkerTypeOK, StoreTypeOK, Maybe, Buckets
<1>3. QED
  BY <1>1, <1>2 DEF OriginalKeys, Belongs, IsOriginal, Original

\* The call of p has gone on: still the same call, and as it should be.
GoesOn(p) ==
    /\ call' = [call EXCEPT ![p] = call'[p]]
    /\ call'[p] \in CallRecord /\ CallOK(call'[p]) /\ call'[p].at # "idle"
    /\ call'[p].op = call[p].op /\ call'[p].key = call[p].key

LEMMA LookupStep ==
    ASSUME WorkerInv, NEW p \in Procs, UNCHANGED <<mode, job, sizes, down>>,
           \/ PrimaryHit(p) \/ PrimaryMiss(p)
           \/ FallbackHit(p) \/ FallbackMiss(p) \/ LookupFails(p)
    PROVE  WorkerInv'
<1>0. /\ call[p] \in CallRecord /\ CallOK(call[p]) /\ call[p].client \in Buckets
      /\ call \in [Procs -> CallRecord] /\ bucket \in [Buckets -> [Keys -> Maybe]]
      /\ faults \in 0 .. MaxFaults
  BY CallTypes
<1>1. /\ call[p].op \in {"get", "exists"} /\ call[p].key \in Keys /\ call[p].at # "idle"
      /\ UNCHANGED <<bucket, catalog>>
  BY <1>0 DEF PrimaryHit, PrimaryMiss, FallbackHit, FallbackMiss, LookupFails, Looking, CallOK
<1>2. faults' \in 0 .. MaxFaults
  BY <1>0, StoreAssumption
     DEF PrimaryHit, PrimaryMiss, FallbackHit, FallbackMiss, LookupFails, Fault
<1>3. GoesOn(p)
  <2>1. CASE PrimaryHit(p)
    <3>1. bucket[call[p].client][call[p].key] \in Object
      BY <1>0, <1>1, <2>1 DEF PrimaryHit, Maybe
    <3>2. Belongs(call[p].key, bucket[call[p].client][call[p].key])
      BY <1>0, <1>1, <2>1 DEF PrimaryHit, WorkerInv, ThumbsAreHonest
    <3>3. QED
      BY <1>0, <1>1, <2>1, <3>1, <3>2
         DEF PrimaryHit, Return, CallRecord, CallOK, Maybe, GoesOn
  <2>2. CASE PrimaryMiss(p)
    BY <1>0, <1>1, <2>2 DEF PrimaryMiss, Return, CallRecord, CallOK, FallsBack, Maybe, GoesOn
  <2>3. CASE FallbackHit(p)
    <3> DEFINE f == FallbackKey(call[p])
    <3>1. f \in Keys /\ f \in Alias(call[p].key) /\ call[p].client = "origin"
      BY <1>0, <1>1, <2>3, StoreAssumption DEF FallbackHit, CallOK, FallbackKey, Alias
    <3>2. bucket["fallback"][f] \in Object /\ Belongs(call[p].key, bucket["fallback"][f])
      BY <1>1, <2>3, <3>1, FallbackBelongs DEF FallbackHit
    <3>3. QED
      BY <1>0, <1>1, <2>3, <3>1, <3>2
         DEF FallbackHit, Return, CallRecord, CallOK, Maybe, GoesOn
  <2>4. CASE FallbackMiss(p)
    BY <1>0, <1>1, <2>4 DEF FallbackMiss, Return, CallRecord, CallOK, Maybe, GoesOn
  <2>5. CASE LookupFails(p)
    BY <1>0, <1>1, <2>5 DEF LookupFails, Return, CallRecord, CallOK, Maybe, GoesOn
  <2>6. QED
    BY <2>1, <2>2, <2>3, <2>4, <2>5
<1>4. QED
  BY <1>1, <1>2, <1>3, LookupFrame DEF GoesOn

LEMMA WriteStep ==
    ASSUME WorkerInv, NEW p \in Procs, UNCHANGED <<mode, job, sizes, down>>,
           CopyBack(p) \/ CopyBackFails(p) \/ Put(p) \/ PutFails(p)
    PROVE  WorkerInv'
<1> DEFINE k == call[p].key
           d == call[p].data
           b == call[p].client
<1>0. /\ call[p] \in CallRecord /\ CallOK(call[p]) /\ call[p].client \in Clients
      /\ call \in [Procs -> CallRecord] /\ bucket \in [Buckets -> [Keys -> Maybe]]
      /\ faults \in 0 .. MaxFaults
  BY CallTypes DEF CallRecord
<1>1. k \in Keys /\ d \in Object /\ Belongs(k, d) /\ call[p].at # "idle"
  BY <1>0 DEF CopyBack, CopyBackFails, Put, PutFails, CallOK
<1>2. faults' \in 0 .. MaxFaults /\ UNCHANGED catalog
  BY <1>0, StoreAssumption DEF CopyBack, CopyBackFails, Put, PutFails, Fault
<1>3. GoesOn(p)
  BY <1>0, <1>1 DEF CopyBack, CopyBackFails, Put, PutFails, Return, CallRecord, CallOK, Maybe, GoesOn
<1>4. CASE UNCHANGED bucket
  BY <1>1, <1>2, <1>3, <1>4, LookupFrame DEF GoesOn
<1>5. CASE Store(b, k, d)
  <2>1. bucket' = [bucket EXCEPT ![b][k] = bucket'[b][k]] /\ bucket'[b][k] = d
    BY <1>0, <1>1, <1>5 DEF Store, Buckets, Clients
  <2>2. QED
    BY <1>0, <1>1, <1>2, <1>3, <2>1, WriteFrame DEF GoesOn
<1>6. QED
  BY <1>4, <1>5 DEF CopyBack, CopyBackFails, Put, PutFails

-----------------------------------------------------------------------------
(* Steps of a batch.                                                       *)

\* A batch that moves on touches nothing but its own two records.
LEMMA JobFrame ==
    ASSUME WorkerInv, NEW p \in Procs, StoreUnchanged, UNCHANGED <<sizes, down>>,
           NEW STATE j, j \in JobRecord, job' = [job EXCEPT ![p] = j],
           NEW STATE c, c \in CallRecord, call' = [call EXCEPT ![p] = c],
           CallOK(c), JobOK(j, c)
    PROVE  WorkerInv'
<1>1. WorkerTypeOK'
  BY DEF WorkerInv, WorkerTypeOK, StoreTypeOK, StoreUnchanged
<1>2. ThumbsAreHonest' /\ LegacyIsOriginal'
  BY DEF WorkerInv, ThumbsAreHonest, LegacyIsOriginal, StoreUnchanged
<1>3. ASSUME NEW q \in Procs
      PROVE  CallOK(call'[q]) /\ JobOK(job'[q], call'[q])
  <2>0. call \in [Procs -> CallRecord] /\ job \in [Procs -> JobRecord]
    BY CallTypes
  <2>1. CASE q = p
    <3>1. call'[q] = c /\ job'[q] = j
      BY <2>0, <2>1
    <3>2. QED
      BY <3>1
  <2>2. CASE q # p
    <3>1. call'[q] = call[q] /\ job'[q] = job[q]
      BY <2>0, <2>2
    <3>2. QED
      BY <3>1 DEF WorkerInv
  <2>3. QED
    BY <2>1, <2>2
<1>4. QED
  BY <1>1, <1>2, <1>3 DEF WorkerInv

\* A call that has just been opened, or none.
LEMMA FreshCall ==
    ASSUME NEW client \in Clients, NEW k \in Keys
    PROVE  /\ Call("get", client, k, Absent) \in CallRecord
           /\ CallOK(Call("get", client, k, Absent))
           /\ Call("exists", client, k, Absent) \in CallRecord
           /\ CallOK(Call("exists", client, k, Absent))
BY DEF Call, CallRecord, CallOK, Maybe, Clients

LEMMA FreshPut ==
    ASSUME NEW client \in Clients, NEW k \in Keys, NEW d \in Object, Belongs(k, d)
    PROVE  /\ Call("put", client, k, d) \in CallRecord
           /\ CallOK(Call("put", client, k, d))
BY DEF Call, CallRecord, CallOK, Maybe, Clients

LEMMA NoCallOpen == NoCall \in CallRecord /\ CallOK(NoCall) /\ NoCall.at = "idle"
BY DEF NoCall, CallRecord, CallOK, Maybe, Clients

LEMMA CacheClientIsClient == CacheClient \in Clients /\ "origin" \in Clients /\ "cache" \in Clients
BY DEF CacheClient, Clients

LEMMA StageNames ==
    /\ "idle" \in JobStages /\ "get" \in JobStages /\ "resize" \in JobStages
    /\ "exists" \in JobStages /\ "origin" \in JobStages /\ "cache" \in JobStages
    /\ "done" \in JobStages
    /\ 0 \in JobStatuses /\ 202 \in JobStatuses /\ 400 \in JobStatuses /\ 401 \in JobStatuses
BY DEF JobStages, JobStatuses

LEMMA NoJobYet ==
    /\ NoJob \in JobRecord /\ JobOK(NoJob, NoCall)
BY DEF NoJob, JobRecord, JobStages, JobStatuses, Maybe, JobOK, NoCall

\* Each way the record of a batch is updated keeps it one.
LEMMA RejectUpdate ==
    ASSUME NEW j \in JobRecord, NEW pc \in JobStages, NEW s \in JobStatuses
    PROVE  [j EXCEPT !.pc = pc, !.status = s] \in JobRecord
BY DEF JobRecord

LEMMA AcceptUpdate ==
    ASSUME NEW j \in JobRecord, NEW pc \in JobStages, NEW t \in Triggers,
           NEW rows \in Seq(Seq(Int)), NEW s \in JobStatuses,
           NEW had \in SUBSET Nat, NEW kept \in SUBSET Keys
    PROVE  [j EXCEPT !.pc = pc, !.trigger = t, !.rows = rows, !.status = s,
                     !.had = had, !.kept = kept] \in JobRecord
BY DEF JobRecord

LEMMA ImageUpdate ==
    ASSUME NEW j \in JobRecord, NEW pc \in JobStages, NEW i \in Nat \ {0},
           NEW r \in Nat \ {0}, NEW f \in Nat \ {0},
           NEW d \in Maybe, NEW o \in Maybe, NEW c \in BOOLEAN
    PROVE  [j EXCEPT !.pc = pc, !.i = i, !.row = r, !.format = f, !.data = d, !.obj = o,
                     !.clean = c] \in JobRecord
BY DEF JobRecord

LEMMA OverUpdate ==
    ASSUME NEW j \in JobRecord, NEW pc \in JobStages, NEW kept \in SUBSET Keys,
           NEW r \in Nat \ {0}, NEW f \in Nat \ {0},
           NEW d \in Maybe, NEW o \in Maybe, NEW c \in BOOLEAN
    PROVE  [j EXCEPT !.pc = pc, !.kept = kept, !.row = r, !.format = f, !.data = d, !.obj = o,
                     !.clean = c] \in JobRecord
BY DEF JobRecord

LEMMA OutputUpdate ==
    ASSUME NEW j \in JobRecord, NEW pc \in JobStages, NEW o \in Maybe, NEW c \in BOOLEAN,
           NEW r \in Nat \ {0}, NEW f \in Nat \ {0}
    PROVE  [j EXCEPT !.pc = pc, !.obj = o, !.clean = c, !.row = r, !.format = f] \in JobRecord
BY DEF JobRecord

LEMMA FetchedUpdate ==
    ASSUME NEW j \in JobRecord, NEW pc \in JobStages, NEW d \in Maybe
    PROVE  [j EXCEPT !.pc = pc, !.data = d] \in JobRecord
BY DEF JobRecord

LEMMA RenderedUpdate ==
    ASSUME NEW j \in JobRecord, NEW pc \in JobStages, NEW o \in Maybe
    PROVE  [j EXCEPT !.pc = pc, !.obj = o] \in JobRecord
BY DEF JobRecord

LEMMA PutUpdate ==
    ASSUME NEW j \in JobRecord, NEW pc \in JobStages, NEW c \in BOOLEAN
    PROVE  [j EXCEPT !.pc = pc, !.clean = c] \in JobRecord
BY DEF JobRecord

\* A trigger that is turned away.
LEMMA RejectStep ==
    ASSUME WorkerInv, NEW p \in Procs, NEW t \in Triggers, Reject(p, t)
    PROVE  WorkerInv'
<1> DEFINE s == IF t.authorized THEN 400 ELSE 401
           j == [NoJob EXCEPT !.pc = "done", !.status = s]
<1>1. s \in JobStatuses /\ "done" \in JobStages
  BY StageNames
<1> HIDE DEF s
<1>2. j \in JobRecord
  BY <1>1, NoJobYet, RejectUpdate
<1>3. j.pc = "done"
  BY DEF NoJob
<1>4. job' = [job EXCEPT ![p] = j] /\ call' = [call EXCEPT ![p] = NoCall]
  BY DEF Reject, HangUp, s
<1> HIDE DEF j
<1>5. JobOK(j, NoCall)
  BY <1>3, NoCallOpen DEF JobOK
<1>6. StoreUnchanged /\ UNCHANGED <<sizes, down>>
  BY DEF Reject
<1>7. QED
  BY <1>2, <1>4, <1>5, <1>6, NoCallOpen, JobFrame

\* A trigger whose batch begins.
LEMMA AcceptStep ==
    ASSUME WorkerInv, NEW p \in Procs, NEW t \in Triggers, Accept(p, t)
    PROVE  WorkerInv'
<1> DEFINE rows == EffectiveSizes(t, sizes)
           had == {i \in DOMAIN t.images : View("origin")[t.images[i]] # Absent}
           kept == {k \in UNION {Outputs(t, i, rows) : i \in DOMAIN t.images} :
                      View(CacheClient)[k] # Absent}
           j == [NoJob EXCEPT !.pc = "get", !.trigger = t, !.rows = rows, !.status = 202,
                              !.had = had, !.kept = kept]
           c == Call("get", "origin", t.images[1], Absent)
<1>1. t \in AcceptedTriggers /\ sizes \in {NewWorker(env) : env \in EnvSizes}
  BY CallTypes DEF Accept
<1>2. /\ rows \in Seq(Seq(Int)) /\ 1 \in DOMAIN rows
      /\ \A n \in DOMAIN rows : rows[n] \in RowsOf(t)
  BY <1>1, RowsInRange
<1>3. t.images \in Seq(Keys) /\ 1 \in DOMAIN t.images /\ 1 \in DOMAIN t.formats
  BY <1>1, TriggerFields
<1> HIDE DEF rows
<1>4. had \in SUBSET Nat
  BY <1>3
<1>5. kept \in SUBSET Keys
  <2>1. ASSUME NEW i \in DOMAIN t.images
        PROVE  Outputs(t, i, rows) \subseteq Keys
    BY <1>1, <1>2, OutputKey DEF Outputs
  <2>2. QED
    BY <2>1
<1> HIDE DEF had, kept
<1>6. j \in JobRecord
  <2>1. "get" \in JobStages /\ 202 \in JobStatuses
    BY StageNames
  <2>2. NoJob \in JobRecord
    BY NoJobYet
  <2>3. \A job0 \in JobRecord, st \in JobStatuses :
          [job0 EXCEPT !.pc = "get", !.trigger = t, !.rows = rows, !.status = st,
                       !.had = had, !.kept = kept] \in JobRecord
    BY <1>2, <1>4, <1>5, <2>1, AcceptUpdate
  <2>4. QED
    BY <2>1, <2>2, <2>3
<1>7. /\ j.pc = "get" /\ j.trigger = t /\ j.rows = rows
      /\ j.i = 1 /\ j.row = 1 /\ j.format = 1
  BY DEF NoJob
<1>8. job' = [job EXCEPT ![p] = j]
  BY DEF Accept, rows, had, kept
<1>9. call' = [call EXCEPT ![p] = c]
  BY DEF Accept, Get
<1> HIDE DEF j
<1>10. c \in CallRecord /\ CallOK(c)
  <2>1. t.images[1] \in Keys
    BY <1>3
  <2>2. QED
    BY <2>1, FreshCall, CacheClientIsClient
<1>11. c.op = "get" /\ c.at # "idle" /\ c.key = t.images[1]
  BY DEF Call
<1> HIDE DEF c
<1>12. PlaceOK(j)
  BY <1>1, <1>2, <1>3, <1>7 DEF PlaceOK
<1>13. JobOK(j, c)
  BY <1>7, <1>11, <1>12 DEF JobOK
<1>14. QED
  BY <1>6, <1>8, <1>9, <1>10, <1>13, JobFrame DEF Accept

\* A batch that is under way, and the output it is at.
LEMMA Place ==
    ASSUME NEW j \in JobRecord, PlaceOK(j)
    PROVE  /\ j.trigger \in AcceptedTriggers
           /\ j.trigger.images \in Seq(Keys) /\ j.trigger.images[j.i] \in Keys
           /\ j.trigger.formats \in Seq(STRING) /\ j.rows \in Seq(Seq(Int))
           /\ 1 \in DOMAIN j.trigger.formats /\ 1 \in DOMAIN j.rows
           /\ Row(j) \in RowsOf(j.trigger)
<1>1. j.trigger \in AcceptedTriggers /\ j.rows \in Seq(Seq(Int)) /\ j.row \in DOMAIN j.rows
  BY DEF PlaceOK, JobRecord
<1>2. /\ j.trigger.images \in Seq(Keys) /\ j.trigger.formats \in Seq(STRING)
      /\ 1 \in DOMAIN j.trigger.formats
  BY <1>1, TriggerFields
<1>3. 1 \in DOMAIN j.rows
  BY <1>1
<1>4. j.trigger.images[j.i] \in Keys
  BY <1>2 DEF PlaceOK
<1>5. Row(j) \in RowsOf(j.trigger)
  BY DEF PlaceOK, Row
<1>6. QED
  BY <1>1, <1>2, <1>3, <1>4, <1>5

LEMMA NextImageStep ==
    ASSUME WorkerInv, NEW p \in Procs, StoreUnchanged, UNCHANGED <<sizes, down>>,
           PlaceOK(job[p]), NEW STATE clean, clean \in BOOLEAN, NextImage(p, clean)
    PROVE  WorkerInv'
<1>1. job[p] \in JobRecord /\ Absent \in Maybe
  BY CallTypes DEF Maybe
<1> DEFINE t == job[p].trigger
           i == job[p].i
<1>2. /\ t \in AcceptedTriggers /\ t.images \in Seq(Keys)
      /\ 1 \in DOMAIN t.formats /\ 1 \in DOMAIN job[p].rows /\ i \in DOMAIN t.images
  BY <1>1, Place DEF PlaceOK
<1>3. 1 \in Nat \ {0} /\ {} \in SUBSET Keys
  OBVIOUS
<1>4. CASE i < Len(t.images)
  <2> DEFINE n == i + 1
             j == [job[p] EXCEPT !.pc = "get", !.i = n, !.row = 1, !.format = 1,
                                 !.data = Absent, !.obj = Absent, !.clean = clean]
             c == Call("get", "origin", t.images[n], Absent)
  <2>1. n \in Nat \ {0} /\ n \in DOMAIN t.images /\ t.images[n] \in Keys
    BY <1>2, <1>4
  <2>2. job' = [job EXCEPT ![p] = j] /\ call' = [call EXCEPT ![p] = c]
    BY <1>4 DEF NextImage, Get
  <2> HIDE DEF n
  <2>3. j \in JobRecord
    <3>1. "get" \in JobStages
      BY StageNames
    <3>2. QED
      BY <1>1, <1>3, <2>1, <3>1, ImageUpdate
  <2>4. /\ j.pc = "get" /\ j.trigger = t /\ j.rows = job[p].rows
        /\ j.i = n /\ j.row = 1 /\ j.format = 1
    BY <1>1 DEF JobRecord
  <2> HIDE DEF j
  <2>5. c \in CallRecord /\ CallOK(c)
    BY <2>1, FreshCall, CacheClientIsClient
  <2>6. c.op = "get" /\ c.at # "idle" /\ c.key = t.images[n]
    BY DEF Call
  <2> HIDE DEF c
  <2>7. PlaceOK(j)
    BY <1>2, <2>1, <2>4 DEF PlaceOK
  <2>8. JobOK(j, c)
    BY <2>4, <2>6, <2>7 DEF JobOK
  <2>9. QED
    BY <2>2, <2>3, <2>5, <2>8, JobFrame
<1>5. CASE ~ (i < Len(t.images))
  <2> DEFINE j == [job[p] EXCEPT !.pc = "done", !.kept = {}, !.row = 1, !.format = 1,
                                 !.data = Absent, !.obj = Absent, !.clean = clean]
  <2>1. job' = [job EXCEPT ![p] = j] /\ call' = [call EXCEPT ![p] = NoCall]
    BY <1>5 DEF NextImage, HangUp
  <2>2. j \in JobRecord
    <3>1. "done" \in JobStages
      BY StageNames
    <3>2. QED
      BY <1>1, <1>3, <3>1, OverUpdate
  <2>3. j.pc = "done"
    BY <1>1 DEF JobRecord
  <2> HIDE DEF j
  <2>4. JobOK(j, NoCall)
    BY <2>3, NoCallOpen DEF JobOK
  <2>5. QED
    BY <2>1, <2>2, <2>4, NoCallOpen, JobFrame
<1>6. QED
  BY <1>4, <1>5

\* The place after the m-th format of the n-th row.
LEMMA NextPlace ==
    ASSUME NEW a \in Nat, NEW b \in Nat, NEW m \in 1 .. a, NEW n \in 1 .. b, m < a \/ n < b
    PROVE  /\ (IF m < a THEN n ELSE n + 1) \in 1 .. b
           /\ (IF m < a THEN m + 1 ELSE 1) \in 1 .. a
OBVIOUS

LEMMA NextOutputStep ==
    ASSUME WorkerInv, NEW p \in Procs, StoreUnchanged, UNCHANGED <<sizes, down>>,
           PlaceOK(job[p]), job[p].data \in Object,
           IsOriginal(job[p].trigger.images[job[p].i], job[p].data),
           NEW STATE clean, clean \in BOOLEAN, NextOutput(p, clean)
    PROVE  WorkerInv'
<1>1. job[p] \in JobRecord /\ Absent \in Maybe
  BY CallTypes DEF Maybe
<1> DEFINE t == job[p].trigger
           more == job[p].format < Len(t.formats)
           r == IF more THEN job[p].row ELSE job[p].row + 1
           f == IF more THEN job[p].format + 1 ELSE 1
<1>2. /\ t.formats \in Seq(STRING) /\ job[p].rows \in Seq(Seq(Int))
      /\ 1 \in DOMAIN t.formats
      /\ job[p].format \in DOMAIN t.formats /\ job[p].row \in DOMAIN job[p].rows
  BY <1>1, Place DEF PlaceOK
<1>3. CASE more \/ job[p].row < Len(job[p].rows)
  <2> DEFINE j == [job[p] EXCEPT !.pc = "resize", !.obj = Absent, !.clean = clean,
                                 !.row = r, !.format = f]
  <2>1. r \in DOMAIN job[p].rows /\ f \in DOMAIN t.formats
    <3>1. /\ DOMAIN t.formats = 1 .. Len(t.formats) /\ Len(t.formats) \in Nat
          /\ DOMAIN job[p].rows = 1 .. Len(job[p].rows) /\ Len(job[p].rows) \in Nat
      <4> HIDE DEF t
      <4>1. QED
        BY <1>2
    <3>2. job[p].format \in 1 .. Len(t.formats) /\ job[p].row \in 1 .. Len(job[p].rows)
      BY <1>2, <3>1
    <3>3. QED
      BY <1>3, <3>1, <3>2, NextPlace
  <2>2. r \in Nat \ {0} /\ f \in Nat \ {0}
    <3> HIDE DEF r, f, more, t
    <3>1. QED
      BY <1>2, <2>1, PositionsArePositive
  <2>3. job' = [job EXCEPT ![p] = j] /\ call' = [call EXCEPT ![p] = NoCall]
    BY <1>3 DEF NextOutput, HangUp
  <2> HIDE DEF r, f, more
  <2>4. j \in JobRecord
    BY <1>1, <2>2, StageNames, OutputUpdate
  <2>5. /\ j.pc = "resize" /\ j.trigger = t /\ j.rows = job[p].rows /\ j.i = job[p].i
        /\ j.row = r /\ j.format = f /\ j.data = job[p].data
    BY <1>1 DEF JobRecord
  <2> HIDE DEF j
  <2>6. PlaceOK(j)
    BY <2>1, <2>5 DEF PlaceOK
  <2>7. JobOK(j, NoCall)
    BY <2>5, <2>6, NoCallOpen DEF JobOK
  <2>8. QED
    BY <2>3, <2>4, <2>7, NoCallOpen, JobFrame
<1>4. CASE ~ (more \/ job[p].row < Len(job[p].rows))
  BY <1>4, NextImageStep DEF NextOutput
<1>5. QED
  BY <1>3, <1>4

LEMMA ImageSkippedStep ==
    ASSUME WorkerInv, NEW p \in Procs, ImageSkipped(p)
    PROVE  WorkerInv'
<1>1. job[p] \in JobRecord /\ JobOK(job[p], call[p]) /\ job[p].pc = "get"
  BY CallTypes DEF ImageSkipped, At
<1>2. PlaceOK(job[p]) /\ Unhurt(p) \in BOOLEAN
  BY <1>1 DEF JobOK, Unhurt, JobRecord
<1>3. QED
  BY <1>2, NextImageStep DEF ImageSkipped

\* What is found under an image's key is the image's original.
LEMMA ImageFetchedStep ==
    ASSUME WorkerInv, NEW p \in Procs, ImageFetched(p)
    PROVE  WorkerInv'
<1> DEFINE o == call[p].data
           j == [job[p] EXCEPT !.pc = "resize", !.data = o]
<1>1. /\ job[p] \in JobRecord /\ JobOK(job[p], call[p]) /\ CallOK(call[p])
      /\ job[p].pc = "get" /\ call[p].at = "returned" /\ call[p].res = "ok"
  BY CallTypes DEF ImageFetched, At, Returned, Got
<1>2. /\ PlaceOK(job[p]) /\ call[p].op = "get"
      /\ call[p].key = job[p].trigger.images[job[p].i]
  BY <1>1 DEF JobOK
<1>3. o \in Object /\ Belongs(job[p].trigger.images[job[p].i], o)
  BY <1>1, <1>2 DEF CallOK
<1>4. IsOriginal(job[p].trigger.images[job[p].i], o)
  <2>1. job[p].trigger \in AcceptedTriggers /\ job[p].i \in DOMAIN job[p].trigger.images
    BY <1>2 DEF PlaceOK
  <2>2. QED
    BY <1>3, <2>1, ImageIsOriginal
<1>5. j \in JobRecord
  BY <1>1, <1>3, StageNames, FetchedUpdate DEF Maybe
<1>6. /\ j.pc = "resize" /\ j.trigger = job[p].trigger /\ j.rows = job[p].rows
      /\ j.i = job[p].i /\ j.row = job[p].row /\ j.format = job[p].format /\ j.data = o
  BY <1>1 DEF JobRecord
<1>7. job' = [job EXCEPT ![p] = j] /\ call' = [call EXCEPT ![p] = NoCall]
  BY DEF ImageFetched, HangUp
<1> HIDE DEF j, o
<1>8. PlaceOK(j)
  BY <1>2, <1>6 DEF PlaceOK
<1>9. JobOK(j, NoCall)
  BY <1>3, <1>4, <1>6, <1>8, NoCallOpen DEF JobOK, o
<1>10. QED
  BY <1>5, <1>7, <1>9, NoCallOpen, JobFrame DEF ImageFetched

LEMMA ResizeFailsStep ==
    ASSUME WorkerInv, NEW p \in Procs, ResizeFails(p)
    PROVE  WorkerInv'
<1>1. JobOK(job[p], call[p]) /\ job[p].pc = "resize"
  BY CallTypes DEF ResizeFails
<1>2. /\ PlaceOK(job[p]) /\ job[p].data \in Object
      /\ IsOriginal(job[p].trigger.images[job[p].i], job[p].data)
  BY <1>1 DEF JobOK
<1>3. QED
  BY <1>2, NextOutputStep DEF ResizeFails

\* The rendering is what the key of the output says.
LEMMA ResizeStep ==
    ASSUME WorkerInv, NEW p \in Procs, Resize(p)
    PROVE  WorkerInv'
<1> DEFINE o == Render(job[p].data, Variant(Row(job[p]), Format(job[p])))
           k == Key(job[p])
           j == [job[p] EXCEPT !.pc = "exists", !.obj = o]
           c == Call("exists", CacheClient, k, Absent)
<1>1. /\ job[p] \in JobRecord /\ JobOK(job[p], call[p])
      /\ job[p].pc = "resize" /\ IsPair(Row(job[p]))
  BY CallTypes DEF Resize
<1>2. /\ PlaceOK(job[p]) /\ job[p].data \in Object
      /\ IsOriginal(job[p].trigger.images[job[p].i], job[p].data)
  BY <1>1 DEF JobOK
<1>3. /\ job[p].trigger \in AcceptedTriggers /\ Row(job[p]) \in RowsOf(job[p].trigger)
      /\ job[p].i \in DOMAIN job[p].trigger.images
      /\ job[p].format \in DOMAIN job[p].trigger.formats
  BY <1>1, <1>2, Place DEF PlaceOK
<1>4. k \in Keys
  BY <1>1, <1>3, OutputKey DEF Key, Format
<1>5. o \in Object /\ IsThumb(k, o)
  BY <1>1, <1>2, <1>3, RenderingIsThumb DEF Key, Format
<1>6. job' = [job EXCEPT ![p] = j] /\ call' = [call EXCEPT ![p] = c]
  BY DEF Resize, Exists
<1> HIDE DEF o, k
<1>7. j \in JobRecord
  BY <1>1, <1>5, StageNames, RenderedUpdate DEF Maybe
<1>8. /\ j.pc = "exists" /\ j.trigger = job[p].trigger /\ j.rows = job[p].rows
      /\ j.i = job[p].i /\ j.row = job[p].row /\ j.format = job[p].format
      /\ j.data = job[p].data /\ j.obj = o
  BY <1>1 DEF JobRecord
<1> HIDE DEF j
<1>9. PlaceOK(j)
  BY <1>2, <1>8 DEF PlaceOK
<1>10. Row(j) = Row(job[p]) /\ Key(j) = k
  BY <1>8 DEF Row, Key, Format, k
<1>11. c \in CallRecord /\ CallOK(c)
  BY <1>4, FreshCall, CacheClientIsClient
<1>12. c.op = "exists" /\ c.at # "idle"
  BY DEF Call
<1> HIDE DEF c
<1>13. JobOK(j, c)
  BY <1>1, <1>2, <1>5, <1>8, <1>9, <1>10, <1>12 DEF JobOK
<1>14. QED
  BY <1>6, <1>7, <1>11, <1>13, JobFrame DEF Resize

\* What a batch that is past the rendering of an output holds.
LEMMA Holding ==
    ASSUME WorkerInv, NEW p \in Procs, job[p].pc \in {"exists", "origin", "cache"}
    PROVE  /\ job[p] \in JobRecord /\ PlaceOK(job[p]) /\ IsPair(Row(job[p]))
           /\ job[p].data \in Object
           /\ IsOriginal(job[p].trigger.images[job[p].i], job[p].data)
           /\ job[p].obj \in Object /\ IsThumb(Key(job[p]), job[p].obj)
           /\ Key(job[p]) \in Keys
           /\ Unhurt(p) \in BOOLEAN /\ job[p].clean \in BOOLEAN
<1>1. job[p] \in JobRecord /\ JobOK(job[p], call[p])
  BY CallTypes
<1>2. /\ PlaceOK(job[p]) /\ IsPair(Row(job[p]))
      /\ job[p].data \in Object
      /\ IsOriginal(job[p].trigger.images[job[p].i], job[p].data)
      /\ job[p].obj \in Object /\ IsThumb(Key(job[p]), job[p].obj)
  BY <1>1 DEF JobOK
<1>3. Key(job[p]) \in Keys
  BY <1>1, <1>2, Place, OutputKey DEF PlaceOK, Key, Format
<1>4. Unhurt(p) \in BOOLEAN /\ job[p].clean \in BOOLEAN
  BY <1>1 DEF Unhurt, JobRecord
<1>5. QED
  BY <1>1, <1>2, <1>3, <1>4

LEMMA OutputDoneStep ==
    ASSUME WorkerInv, NEW p \in Procs, AlreadyExists(p) \/ Saved(p)
    PROVE  WorkerInv'
<1>1. job[p].pc \in {"exists", "origin", "cache"}
  BY DEF AlreadyExists, Saved, At
<1>2. QED
  BY <1>1, Holding, NextOutputStep DEF AlreadyExists, Saved

\* The output goes to one of its buckets.
LEMMA PutStep ==
    ASSUME WorkerInv, NEW p \in Procs, StoreUnchanged, UNCHANGED <<sizes, down>>,
           job[p].pc \in {"exists", "origin", "cache"},
           NEW pc \in {"origin", "cache"}, NEW client \in Clients,
           job' = [job EXCEPT ![p] = [@ EXCEPT !.pc = pc, !.clean = Unhurt(p)]],
           PutObject(p, client, Key(job[p]), job[p].obj)
    PROVE  WorkerInv'
<1> DEFINE j == [job[p] EXCEPT !.pc = pc, !.clean = Unhurt(p)]
           k == Key(job[p])
           c == Call("put", client, k, job[p].obj)
<1>1. /\ job[p] \in JobRecord /\ PlaceOK(job[p]) /\ IsPair(Row(job[p]))
      /\ job[p].data \in Object
      /\ IsOriginal(job[p].trigger.images[job[p].i], job[p].data)
      /\ job[p].obj \in Object /\ IsThumb(k, job[p].obj)
      /\ k \in Keys /\ Unhurt(p) \in BOOLEAN
  BY Holding
<1>2. job' = [job EXCEPT ![p] = j] /\ call' = [call EXCEPT ![p] = c]
  BY DEF PutObject
<1>3. j \in JobRecord
  BY <1>1, StageNames, PutUpdate
<1>4. /\ j.pc = pc /\ j.trigger = job[p].trigger /\ j.rows = job[p].rows
      /\ j.i = job[p].i /\ j.row = job[p].row /\ j.format = job[p].format
      /\ j.data = job[p].data /\ j.obj = job[p].obj
  BY <1>1 DEF JobRecord
<1> HIDE DEF j, k
<1>5. PlaceOK(j)
  BY <1>1, <1>4 DEF PlaceOK
<1>6. Row(j) = Row(job[p]) /\ Key(j) = k
  BY <1>4 DEF Row, Key, Format, k
<1>7. c \in CallRecord /\ CallOK(c)
  BY <1>1, FreshPut DEF Belongs
<1>8. c.op = "put" /\ c.at # "idle"
  BY DEF Call
<1> HIDE DEF c
<1>9. JobOK(j, c)
  BY <1>1, <1>4, <1>5, <1>6, <1>8 DEF JobOK
<1>10. QED
  BY <1>2, <1>3, <1>7, <1>9, JobFrame

LEMMA PutsStep ==
    ASSUME WorkerInv, NEW p \in Procs, PutOrigin(p) \/ PutCache(p)
    PROVE  WorkerInv'
BY PutStep, CacheClientIsClient DEF PutOrigin, PutCache, At

-----------------------------------------------------------------------------
(* The process, the catalogue, and the whole.                              *)

LEMMA ProcessGone ==
    ASSUME WorkerInv, UNCHANGED <<bucket, catalog, faults>>,
           mode' \in Modes, sizes' \in {NewWorker(env) : env \in EnvSizes}, down' \in BOOLEAN,
           job' = [p \in Procs |-> NoJob], call' = [p \in Procs |-> NoCall]
    PROVE  WorkerInv'
<1>1. job' \in [Procs -> JobRecord] /\ call' \in [Procs -> CallRecord]
  BY NoJobYet, NoCallOpen
<1>2. WorkerTypeOK'
  BY <1>1 DEF WorkerInv, WorkerTypeOK, StoreTypeOK
<1>3. ThumbsAreHonest' /\ LegacyIsOriginal'
  BY DEF WorkerInv, ThumbsAreHonest, LegacyIsOriginal
<1>4. ASSUME NEW p \in Procs PROVE CallOK(call'[p]) /\ JobOK(job'[p], call'[p])
  BY NoJobYet, NoCallOpen
<1>5. QED
  BY <1>2, <1>3, <1>4 DEF WorkerInv

LEMMA PublishStep ==
    ASSUME WorkerInv, NEW k \in CatalogKeys, Publish(k), UNCHANGED <<mode, job, sizes, down>>
    PROVE  WorkerInv'
<1> DEFINE v == catalog[k] + 1
<1>1. k \in Keys /\ catalog \in [Keys -> 0 .. MaxVersion] /\ MaxVersion \in Nat
  BY StoreAssumption DEF WorkerInv, WorkerTypeOK, StoreTypeOK
<1>2. v \in 0 .. MaxVersion
  BY <1>1 DEF Publish
<1>3. catalog' \in [Keys -> 0 .. MaxVersion]
  BY <1>1, <1>2 DEF Publish
<1>4. Original(k, v) \in Object
  BY <1>1, <1>2 DEF Original, Object
<1>5. Belongs(k, Original(k, v))
  BY DEF Belongs, IsOriginal, Original, Alias, OriginalKeys
<1>6. bucket' = [bucket EXCEPT !["origin"][k] = Original(k, v)] /\ UNCHANGED <<call, faults>>
  BY DEF Publish, Store
<1> HIDE DEF v
<1>7. WorkerTypeOK'
  BY <1>1, <1>3, <1>4, <1>6 DEF WorkerInv, WorkerTypeOK, StoreTypeOK, Buckets, Maybe
<1>8. ThumbsAreHonest'
  BY <1>1, <1>5, <1>6 DEF WorkerInv, WorkerTypeOK, StoreTypeOK, ThumbsAreHonest, Buckets
<1>9. LegacyIsOriginal'
  BY <1>1, <1>6 DEF WorkerInv, WorkerTypeOK, StoreTypeOK, LegacyIsOriginal, Buckets
<1>10. QED
  BY <1>6, <1>7, <1>8, <1>9 DEF WorkerInv

LEMMA InitIsInv ==
    WorkerInit => WorkerInv
<1> SUFFICES ASSUME WorkerInit PROVE WorkerInv
  OBVIOUS
<1>1. job \in [Procs -> JobRecord] /\ call \in [Procs -> CallRecord]
  BY NoJobYet, NoCallOpen DEF WorkerInit, StoreInit
<1>2. PICK old \in SUBSET LegacyKeys :
        bucket = [b \in Buckets |->
                    IF b = "fallback"
                      THEN [k \in Keys |-> IF k \in old THEN Original(k, 0) ELSE Absent]
                      ELSE NothingStored]
  BY DEF WorkerInit, StoreInit
<1>3. \A k \in LegacyKeys :
        k \in Keys /\ Original(k, 0) \in Object /\ Belongs(k, Original(k, 0))
  <2> SUFFICES ASSUME NEW k \in LegacyKeys
               PROVE  k \in Keys /\ Original(k, 0) \in Object /\ Belongs(k, Original(k, 0))
    OBVIOUS
  <2>1. k \in Keys /\ 0 \in 0 .. MaxVersion
    BY StoreAssumption
  <2>2. QED
    BY <2>1 DEF Original, Object, Alias, OriginalKeys, Belongs, IsOriginal
<1>4. /\ \A k \in Keys : bucket["fallback"][k] = IF k \in old THEN Original(k, 0) ELSE Absent
      /\ \A b \in Clients, k \in Keys : bucket[b][k] = Absent
      /\ bucket \in [Buckets -> [Keys -> Maybe]]
  BY <1>2, <1>3 DEF NothingStored, Buckets, Clients, Maybe
<1>5. WorkerTypeOK
  <2>1. 0 \in 0 .. MaxVersion /\ 0 \in 0 .. MaxFaults
    BY StoreAssumption
  <2>2. catalog \in [Keys -> 0 .. MaxVersion] /\ faults \in 0 .. MaxFaults
    BY <2>1 DEF WorkerInit, StoreInit
  <2>3. NoCall \in CallRecord /\ NoJob \in JobRecord
    BY NoCallOpen, NoJobYet
  <2>4. call \in [Procs -> CallRecord] /\ job \in [Procs -> JobRecord]
    BY <2>3 DEF WorkerInit, StoreInit
  <2>5. StoreTypeOK
    BY <1>4, <2>2, <2>4 DEF StoreTypeOK
  <2>6. mode \in Modes /\ sizes \in {NewWorker(env) : env \in EnvSizes} /\ down \in BOOLEAN
    BY DEF WorkerInit
  <2>7. QED
    BY <2>4, <2>5, <2>6 DEF WorkerTypeOK
<1>6. ThumbsAreHonest
  BY <1>3, <1>4 DEF ThumbsAreHonest, Buckets, Clients
<1>7. LegacyIsOriginal
  BY <1>4 DEF LegacyIsOriginal
<1>8. ASSUME NEW p \in Procs PROVE CallOK(call[p]) /\ JobOK(job[p], call[p])
  BY NoJobYet, NoCallOpen DEF WorkerInit, StoreInit
<1>9. QED
  BY <1>5, <1>6, <1>7, <1>8 DEF WorkerInv

LEMMA NextKeepsInv ==
    WorkerInv /\ [WorkerNext]_workerVars => WorkerInv'
<1> SUFFICES ASSUME WorkerInv, [WorkerNext]_workerVars PROVE WorkerInv'
  OBVIOUS
<1>1. ASSUME NEW p \in Procs, WorkerStart(p) PROVE WorkerInv'
  BY <1>1, RejectStep, AcceptStep DEF WorkerStart
<1>2. ASSUME NEW p \in Procs, Panic(p) PROVE WorkerInv'
  BY <1>2, ProcessGone DEF Panic, WorkerInv, WorkerTypeOK
<1>3. ASSUME NEW p \in Procs, WorkerContinue(p) PROVE WorkerInv'
  BY <1>2, <1>3, ImageSkippedStep, ImageFetchedStep, ResizeFailsStep, ResizeStep,
     OutputDoneStep, PutsStep DEF WorkerContinue
<1>4. ASSUME NEW p \in Procs, S3Step(p), UNCHANGED <<mode, job, sizes, down>>
      PROVE  WorkerInv'
  BY <1>4, LookupStep, WriteStep DEF S3Step
<1>5. ASSUME NEW k \in CatalogKeys, Publish(k), UNCHANGED <<mode, job, sizes, down>>
      PROVE  WorkerInv'
  BY <1>5, PublishStep
<1>6. ASSUME NEW m \in Modes, NEW env \in EnvSizes, WorkerRestart(m, env) PROVE WorkerInv'
  BY <1>6, ProcessGone DEF WorkerRestart
<1>7. CASE UNCHANGED workerVars
  BY <1>7 DEF workerVars, WorkerInv, WorkerTypeOK, StoreTypeOK, ThumbsAreHonest,
              LegacyIsOriginal
<1>8. QED
  BY <1>1, <1>3, <1>4, <1>5, <1>6, <1>7 DEF WorkerNext

\* The inductive invariant holds throughout: what the buckets hold and what
\* calls and batches carry belongs where it is or goes (ProcessBatch).
THEOREM WorkerInvariant == WorkerSpec => []WorkerInv
BY InitIsInv, NextKeepsInv, PTL DEF WorkerSpec

\* Every variable keeps its type (handleWorkerTrigger, ProcessBatch).
THEOREM WorkerTypeCorrect == WorkerSpec => []WorkerTypeOK
<1>1. WorkerInv => WorkerTypeOK
  BY DEF WorkerInv
<1>2. QED
  BY <1>1, WorkerInvariant, PTL

\* Whatever batches run side by side, fail or are cut off, nothing is filed under
\* a key that stands for something else (processOutput).
THEOREM ThumbsHonestly == WorkerSpec => []ThumbsAreHonest
<1>1. WorkerInv => ThumbsAreHonest
  BY DEF WorkerInv
<1>2. QED
  BY <1>1, WorkerInvariant, PTL

-----------------------------------------------------------------------------
(* Beside requests (module ImageProxy).                                    *)

\* A step of a batch, but for a panic, touches nothing but its own two records,
\* any call it opens has yet to be made, and any write is of a rendering.
LEMMA BatchMoves ==
    ASSUME WorkerInv, NEW p \in Procs, WorkerStart(p) \/ (WorkerContinue(p) /\ ~ Panic(p))
    PROVE  /\ StoreUnchanged /\ UNCHANGED <<sizes, down>>
           /\ job' = [job EXCEPT ![p] = job'[p]] /\ call' = [call EXCEPT ![p] = call'[p]]
           /\ call'[p].at \in {"idle", "primary"}
           /\ call'[p].op = "put" => \E k \in Keys : IsThumb(k, call'[p].data)
<1>0. call \in [Procs -> CallRecord] /\ job \in [Procs -> JobRecord]
  BY CallTypes
<1> DEFINE Opens(c) == c.at \in {"idle", "primary"}
                       /\ (c.op = "put" => \E k \in Keys : IsThumb(k, c.data))
           Moves(c, j) == /\ call' = [call EXCEPT ![p] = c] /\ Opens(c)
                          /\ job' = [job EXCEPT ![p] = j]
                          /\ StoreUnchanged /\ UNCHANGED <<sizes, down>>
<1>1. ASSUME NEW c, NEW j, Moves(c, j)
      PROVE  /\ StoreUnchanged /\ UNCHANGED <<sizes, down>>
             /\ job' = [job EXCEPT ![p] = job'[p]] /\ call' = [call EXCEPT ![p] = call'[p]]
             /\ Opens(call'[p])
  BY <1>0, <1>1
<1>2. Opens(NoCall) /\ \A client, k : /\ Opens(Call("get", client, k, Absent))
                                      /\ Opens(Call("exists", client, k, Absent))
  BY DEF NoCall, Call
<1>3. CASE WorkerStart(p)
  <2>1. PICK t \in Triggers : Reject(p, t) \/ Accept(p, t)
    BY <1>3 DEF WorkerStart
  <2>2. CASE Reject(p, t)
    <3>1. \E j : Moves(NoCall, j)
      BY <1>2, <2>2 DEF Reject, HangUp
    <3>2. QED
      BY <1>1, <3>1
  <2>3. CASE Accept(p, t)
    <3>1. \E c, j : Moves(c, j)
      BY <1>2, <2>3 DEF Accept, Get
    <3>2. QED
      BY <1>1, <3>1
  <2>4. QED
    BY <2>1, <2>2, <2>3
<1>4. CASE PutOrigin(p) \/ PutCache(p)
  <2> DEFINE k == Key(job[p])
             o == job[p].obj
  <2>1. IsThumb(k, o) /\ k \in Keys
    <3>1. JobOK(job[p], call[p]) /\ CallOK(call[p])
      BY CallTypes
    <3>2. job[p].pc \in {"exists", "origin"}
      BY <1>4 DEF PutOrigin, PutCache, At
    <3>3. IsThumb(k, o) /\ PlaceOK(job[p]) /\ IsPair(Row(job[p]))
      BY <3>1, <3>2 DEF JobOK
    <3>4. k \in Keys
      BY <3>3, OutputKey DEF PlaceOK, Key, Row, Format
    <3>5. QED
      BY <3>3, <3>4
  <2> HIDE DEF k, o
  <2>2. \A client : Opens(Call("put", client, k, o))
    BY <2>1 DEF Call
  <2>3. \E c, j : Moves(c, j)
    BY <1>4, <2>2 DEF PutOrigin, PutCache, PutObject, k, o
  <2>4. QED
    BY <1>1, <2>3
<1>5. CASE \/ ImageSkipped(p) \/ ImageFetched(p) \/ ResizeFails(p) \/ Resize(p)
           \/ AlreadyExists(p) \/ Saved(p)
  <2>1. \E c, j : Moves(c, j)
    BY <1>2, <1>5 DEF ImageSkipped, ImageFetched, ResizeFails, Resize, AlreadyExists, Saved,
       NextImage, NextOutput, HangUp, Get, Exists
  <2>2. QED
    BY <1>1, <2>1
<1>6. QED
  BY <1>3, <1>4, <1>5 DEF WorkerContinue

LEMMA AtWork ==
    ASSUME NEW p \in Procs, WorkerContinue(p)
    PROVE  job[p].pc # "idle"
BY DEF WorkerContinue, ImageSkipped, ImageFetched, Panic, ResizeFails, Resize, AlreadyExists,
       PutOrigin, PutCache, Saved, At

\* A slot that runs no batch opens a call that carries what belongs.
LEMMA OtherCallStep ==
    ASSUME WorkerInv, NEW p \in Procs, job[p] = NoJob, UNCHANGED <<job, sizes, down>>,
           StoreUnchanged,
           call' = [call EXCEPT ![p] = call'[p]], call'[p] \in CallRecord, CallOK(call'[p])
    PROVE  WorkerInv'
<1>1. WorkerTypeOK'
  BY CallTypes DEF WorkerInv, WorkerTypeOK, StoreTypeOK, StoreUnchanged
<1>2. ThumbsAreHonest' /\ LegacyIsOriginal'
  BY DEF WorkerInv, ThumbsAreHonest, LegacyIsOriginal, StoreUnchanged
<1>3. ASSUME NEW q \in Procs
      PROVE  CallOK(call'[q]) /\ JobOK(job'[q], call'[q])
  <2>1. CASE q = p
    BY <2>1 DEF JobOK, NoJob
  <2>2. CASE q # p
    <3>1. call'[q] = call[q]
      BY <2>2, CallTypes
    <3>2. QED
      BY <3>1 DEF WorkerInv
  <2>3. QED
    BY <2>1, <2>2
<1>4. QED
  BY <1>1, <1>2, <1>3 DEF WorkerInv

-----------------------------------------------------------------------------
(* The inductive invariant.                                                *)

\* What the fallback bucket of B answers for key k, under either spelling.
OldValue(B, k) ==
    IF B["fallback"][k] # Absent \/ Strip[k] = NoKey THEN B["fallback"][k]
    ELSE B["fallback"][Strip[k]]

\* A lookup of k through the origin client would find something.
Held(B, k) ==
    k \in Keys /\ (B["origin"][k] # Absent \/ (HasFallback /\ OldValue(B, k) # Absent))

\* CacheClient in mode m, and whether it would find something under k.
ClientOf(m) == IF m = "off" THEN "origin" ELSE "cache"

Shown(B, m, k) == IF m = "off" THEN Held(B, k) ELSE k \in Keys /\ B["cache"][k] # Absent

\* A lookup of something that was there does not miss it.
Seen(c, B) ==
    /\ c.at = "fallback" => OldValue(B, c.key) # Absent
    /\ c.at = "stripped" => B["fallback"][Strip[c.key]] # Absent
    /\ c.at = "returned" => c.res # "notfound"

\* Call c has been answered with success.
Succeeded(c) == c.at = "returned" /\ c.res = "ok"

\* What was there when the batch began still is.
StillThere(j, B, m) ==
    /\ \A i \in j.had : i \in DOMAIN j.trigger.images /\ Held(B, j.trigger.images[i])
    /\ \A k \in j.kept : Shown(B, m, k)

\* What the answer a batch waits for will tell it.
AsksOK(j, c, B, m) ==
    /\ c.at = "returned" =>
         c.res \in IF c.op = "put" THEN {"ok", "error"} ELSE {"ok", "notfound", "error"}
    /\ c.at \in {"fallback", "stripped"} => HasFallback
    /\ j.pc = "get" =>
         /\ j.row = 1 /\ j.format = 1 /\ c.client = "origin"
         /\ j.i \in j.had => Seen(c, B)
    /\ j.pc = "exists" =>
         /\ c.client = ClientOf(m) /\ c.key = Key(j)
         /\ c.key \in j.kept => Seen(c, B)
         /\ Succeeded(c) => Shown(B, m, c.key)
    /\ j.pc = "cache" => m # "off"

\* What the answer to its write will tell it.
WritesOK(j, c, B) ==
    j.pc \in {"origin", "cache"} =>
      /\ c.client = j.pc /\ c.key = Key(j)
      /\ j.clean => c.key \notin j.kept
      /\ Succeeded(c) => B[c.client][c.key] # Absent

\* Is the output in row n and format f one the batch is done with?
Before(j, n, f) == n < j.row \/ (n = j.row /\ f < j.format)

Output(j, n, f) == ThumbKey(j.trigger, j.trigger.images[j.i], j.rows[n], j.trigger.formats[f])

\* The outputs of the image a batch is at, up to the one it is at.
PartCovered(j, B, m) ==
    \A n \in DOMAIN j.rows, f \in DOMAIN j.trigger.formats :
      IsPair(j.rows[n]) /\ Before(j, n, f) => Shown(B, m, Output(j, n, f))

\* The outputs of its i-th image.
ImageCovered(j, i, B, m) == \A k \in Outputs(j.trigger, i, j.rows) : Shown(B, m, k)

Rendering == {"resize", "exists", "origin", "cache"}

CoversOK(j, B, m) ==
    j.clean =>
      /\ \A i \in j.had : j.pc = "done" \/ i < j.i => ImageCovered(j, i, B, m)
      /\ j.pc \in Rendering => PartCovered(j, B, m)

CleanOK(j, c, B, m) ==
    StillThere(j, B, m) /\ AsksOK(j, c, B, m) /\ WritesOK(j, c, B) /\ CoversOK(j, B, m)

BatchCleanInv == \A p \in Procs : CleanOK(job[p], call[p], bucket, mode)

-----------------------------------------------------------------------------
(* Nothing that is stored ever goes away.                                  *)

Grows(B, C) ==
    /\ C["fallback"] = B["fallback"]
    /\ \A b \in Clients, k \in Keys : B[b][k] # Absent => C[b][k] # Absent

LEMMA ClientNow == CacheClient = ClientOf(mode)
BY DEF CacheClient, ClientOf

\* Shown is what the client of the cache shows, Held what that of the origin does.
LEMMA ShownIsViewed ==
    ASSUME WorkerInv, NEW k \in Keys
    PROVE  /\ View("origin")[k] # Absent <=> Held(bucket, k)
           /\ View(CacheClient)[k] # Absent <=> Shown(bucket, mode, k)
<1>1. ASSUME NEW c \in Clients
      PROVE  View(c)[k] = IF bucket[c][k] # Absent THEN bucket[c][k]
                          ELSE IF HasFallback /\ c = "origin" THEN OldValue(bucket, k) ELSE Absent
  BY DEF View, LegacyView, LegacyOf, OldValue, FallsBack
<1>2. View("origin")[k] # Absent <=> Held(bucket, k)
  BY <1>1 DEF Held, Clients
<1>3. View("cache")[k] # Absent <=> bucket["cache"][k] # Absent
  BY <1>1 DEF Clients
<1>4. QED
  BY <1>2, <1>3 DEF Shown, CacheClient

LEMMA ShownGrows ==
    ASSUME NEW B, NEW C, NEW m, NEW k, Grows(B, C)
    PROVE  /\ Held(B, k) => Held(C, k)
           /\ Shown(B, m, k) => Shown(C, m, k)
<1>1. "origin" \in Clients /\ "cache" \in Clients
  BY DEF Clients
<1>2. OldValue(C, k) = OldValue(B, k)
  BY DEF OldValue, Grows
<1>3. QED
  BY <1>1, <1>2 DEF Held, Shown, Grows

\* What is known of a batch stays true as the buckets grow.
LEMMA GrowthKeeps ==
    ASSUME NEW j, NEW c \in CallRecord, c.at = "returned" => c.key \in Keys,
           NEW B, NEW C, NEW m, Grows(B, C), CleanOK(j, c, B, m)
    PROVE  CleanOK(j, c, C, m)
<1>1. \A k : Held(B, k) => Held(C, k)
  BY ShownGrows
<1>2. \A k : Shown(B, m, k) => Shown(C, m, k)
  BY ShownGrows
<1>3. StillThere(j, C, m)
  BY <1>1, <1>2 DEF CleanOK, StillThere
<1>4. Seen(c, B) => Seen(c, C)
  BY DEF Seen, OldValue, Grows
<1>5. AsksOK(j, c, C, m)
  BY <1>2, <1>4 DEF CleanOK, AsksOK
<1>6. WritesOK(j, c, C)
  BY DEF CleanOK, WritesOK, Succeeded, Grows, CallRecord
<1>7. CoversOK(j, C, m)
  BY <1>2 DEF CleanOK, CoversOK, ImageCovered, PartCovered
<1>8. QED
  BY <1>3, <1>5, <1>6, <1>7 DEF CleanOK

LEMMA CleanFacts ==
    ASSUME WorkerInv, BatchCleanInv, NEW p \in Procs
    PROVE  /\ job[p] \in JobRecord /\ call[p] \in CallRecord
           /\ JobOK(job[p], call[p]) /\ CallOK(call[p])
           /\ CleanOK(job[p], call[p], bucket, mode)
           /\ job \in [Procs -> JobRecord] /\ call \in [Procs -> CallRecord]
           /\ bucket \in [Buckets -> [Keys -> Maybe]]
BY CallTypes DEF BatchCleanInv

\* p moves on, and so perhaps does the store.
LEMMA CleanFrame ==
    ASSUME WorkerInv, BatchCleanInv, NEW p \in Procs, Grows(bucket, bucket'), mode' = mode,
           job' = [job EXCEPT ![p] = job'[p]], call' = [call EXCEPT ![p] = call'[p]],
           CleanOK(job'[p], call'[p], bucket', mode)
    PROVE  BatchCleanInv'
<1> SUFFICES ASSUME NEW q \in Procs PROVE CleanOK(job'[q], call'[q], bucket', mode')
  BY DEF BatchCleanInv
<1>1. CASE q = p
  BY <1>1
<1>2. CASE q # p
  <2>1. job'[q] = job[q] /\ call'[q] = call[q]
    BY <1>2, CleanFacts
  <2>2. call[q].at = "returned" => call[q].key \in Keys
    BY CleanFacts DEF CallOK
  <2>3. CleanOK(job[q], call[q], bucket', mode)
    BY <2>2, CleanFacts, GrowthKeeps
  <2>4. QED
    BY <2>1, <2>3
<1>3. QED
  BY <1>1, <1>2

LEMMA SameGrows ==
    ASSUME UNCHANGED bucket
    PROVE  Grows(bucket, bucket')
BY DEF Grows

LEMMA StoreGrows ==
    ASSUME WorkerInv, NEW c \in Clients, NEW k \in Keys, NEW STATE d, d \in Object, Store(c, k, d)
    PROVE  Grows(bucket, bucket') /\ bucket'[c][k] # Absent
<1>1. bucket \in [Buckets -> [Keys -> Maybe]] /\ d # Absent
  BY StoreAssumption DEF WorkerInv, WorkerTypeOK, StoreTypeOK
<1>2. bucket' = [bucket EXCEPT ![c][k] = d]
  BY DEF Store
<1>3. QED
  BY <1>1, <1>2 DEF Grows, Clients, Buckets

-----------------------------------------------------------------------------
(* Steps of the S3 client.                                                 *)

\* The call of p moves on; nothing else is known to change.
CallMoves(p) ==
    /\ call' = [call EXCEPT ![p] = call'[p]]
    /\ call'[p].op = call[p].op /\ call'[p].client = call[p].client
    /\ call'[p].key = call[p].key /\ UNCHANGED <<job, mode>>

\* What p looks for was there when its batch began.
WasThere(p) ==
    \/ job[p].pc = "get" /\ job[p].i \in job[p].had
    \/ job[p].pc = "exists" /\ call[p].key \in job[p].kept

\* A call moves on: what its batch knows stays true if it misses nothing.
LEMMA CallMovesClean ==
    ASSUME WorkerInv, BatchCleanInv, NEW p \in Procs, CallMoves(p), Grows(bucket, bucket'),
           call'[p].at # "primary",
           call'[p].at = "returned" =>
             call'[p].res \in IF call[p].op = "put" THEN {"ok", "error"}
                              ELSE {"ok", "notfound", "error"},
           call'[p].at \in {"fallback", "stripped"} => HasFallback,
           WasThere(p) => Seen(call'[p], bucket),
           call[p].op = "exists" /\ Succeeded(call'[p]) /\ call[p].client = ClientOf(mode) =>
             Shown(bucket, mode, call[p].key),
           call[p].op = "put" /\ Succeeded(call'[p]) =>
             bucket'[call[p].client][call[p].key] # Absent
    PROVE  BatchCleanInv'
<1> DEFINE j == job[p]
           c == call[p]
           d == call'[p]
<1>1. j \in JobRecord /\ c \in CallRecord /\ CleanOK(j, c, bucket, mode) /\ JobOK(j, c)
      /\ (c.at = "returned" => c.key \in Keys)
  BY CleanFacts DEF CallOK
<1>2. CleanOK(j, c, bucket', mode)
  BY <1>1, GrowthKeeps
<1>3. d.op = c.op /\ d.client = c.client /\ d.key = c.key
  BY DEF CallMoves
<1>4. AsksOK(j, d, bucket', mode)
  <2>1. Seen(d, bucket) => Seen(d, bucket')
    BY DEF Seen, OldValue, Grows
  <2>2. Shown(bucket, mode, c.key) => Shown(bucket', mode, c.key)
    BY ShownGrows
  <2>3. AsksOK(j, c, bucket, mode)
    BY <1>1 DEF CleanOK
  <2>4. WasThere(p) => Seen(d, bucket')
    BY <2>1
  <2>5. j.pc = "exists" /\ Succeeded(d) => Shown(bucket', mode, c.key)
    BY <1>1, <2>2, <2>3 DEF AsksOK, JobOK
  <2>6. /\ d.at = "returned" => d.res \in IF d.op = "put" THEN {"ok", "error"}
                                          ELSE {"ok", "notfound", "error"}
        /\ d.at \in {"fallback", "stripped"} => HasFallback
    BY <1>3
  <2>7. /\ j.pc = "get" /\ j.i \in j.had => Seen(d, bucket')
        /\ j.pc = "exists" /\ c.key \in j.kept => Seen(d, bucket')
    BY <2>4 DEF WasThere
  <2> HIDE DEF j, c, d
  <2>8. QED
    BY <1>3, <2>3, <2>5, <2>6, <2>7 DEF AsksOK
<1>5. WritesOK(j, d, bucket')
  <2>1. WritesOK(j, c, bucket') /\ (j.pc \in {"origin", "cache"} => c.op = "put")
    BY <1>1, <1>2 DEF CleanOK, JobOK
  <2>2. j.pc \in {"origin", "cache"} /\ Succeeded(d) => bucket'[c.client][c.key] # Absent
    BY <2>1
  <2> HIDE DEF j, c, d
  <2>3. QED
    BY <1>3, <2>1, <2>2 DEF WritesOK
<1>6. CleanOK(j, d, bucket', mode)
  BY <1>2, <1>4, <1>5 DEF CleanOK
<1>7. job'[p] = j /\ mode' = mode /\ job' = [job EXCEPT ![p] = job'[p]]
  BY CleanFacts DEF CallMoves
<1>8. QED
  BY <1>6, <1>7, CleanFrame DEF CallMoves

\* What was there is found in the bucket asked first, or the fallback has it.
LEMMA WasThereHeld ==
    ASSUME WorkerInv, BatchCleanInv, NEW p \in Procs, WasThere(p)
    PROVE  /\ Seen(call[p], bucket)
           /\ \/ bucket[call[p].client][call[p].key] # Absent
              \/ call[p].client = "origin" /\ HasFallback /\ OldValue(bucket, call[p].key) # Absent
<1>1. CleanOK(job[p], call[p], bucket, mode) /\ JobOK(job[p], call[p])
  BY CleanFacts
<1>2. CASE job[p].pc = "get" /\ job[p].i \in job[p].had
  <2>1. Seen(call[p], bucket) /\ call[p].client = "origin"
    BY <1>1, <1>2 DEF CleanOK, AsksOK
  <2>2. Held(bucket, call[p].key)
    BY <1>1, <1>2 DEF CleanOK, StillThere, JobOK
  <2>3. QED
    BY <2>1, <2>2 DEF Held
<1>3. CASE job[p].pc = "exists" /\ call[p].key \in job[p].kept
  <2>1. Seen(call[p], bucket) /\ call[p].client = ClientOf(mode)
    BY <1>1, <1>3 DEF CleanOK, AsksOK
  <2>2. Shown(bucket, mode, call[p].key)
    BY <1>1, <1>3 DEF CleanOK, StillThere
  <2>3. QED
    BY <2>1, <2>2 DEF Held, Shown, ClientOf
<1>4. QED
  BY <1>2, <1>3 DEF WasThere

LEMMA ReturnMovesCall ==
    ASSUME WorkerInv, BatchCleanInv, NEW p \in Procs, NEW res, NEW STATE d, Return(p, res, d),
           UNCHANGED <<job, mode>>
    PROVE  CallMoves(p) /\ call'[p].at = "returned" /\ call'[p].res = res
BY CleanFacts DEF Return, CallMoves, CallRecord

LEMMA AtMovesCall ==
    ASSUME WorkerInv, BatchCleanInv, NEW p \in Procs, NEW at,
           call' = [call EXCEPT ![p].at = at], UNCHANGED <<job, mode>>
    PROVE  CallMoves(p) /\ call'[p].at = at
BY CleanFacts DEF CallMoves, CallRecord

\* A lookup is not a write, has a key, and a hit in its bucket is a hit of the view.
LEMMA LookupFacts ==
    ASSUME WorkerInv, BatchCleanInv, NEW p \in Procs, Looking(p), call[p].at # "idle"
    PROVE  /\ call[p].op # "put" /\ call[p].key \in Keys
           /\ call[p].client = ClientOf(mode) /\ bucket[call[p].client][call[p].key] # Absent =>
                Shown(bucket, mode, call[p].key)
<1>1. call[p].op # "put" /\ call[p].key \in Keys
  BY CleanFacts DEF Looking, CallOK
<1>2. QED
  BY <1>1 DEF Shown, Held, ClientOf

LEMMA PrimaryClean ==
    ASSUME WorkerInv, BatchCleanInv, NEW p \in Procs, PrimaryHit(p) \/ PrimaryMiss(p),
           UNCHANGED <<job, mode>>
    PROVE  BatchCleanInv'
<1> DEFINE c == call[p]
<1>1. /\ Looking(p) /\ c.at = "primary" /\ c.op # "put" /\ c.key \in Keys
      /\ Grows(bucket, bucket')
  BY SameGrows, LookupFacts DEF PrimaryHit, PrimaryMiss
<1>2. CASE PrimaryHit(p)
  <2>1. CallMoves(p) /\ call'[p].at = "returned" /\ call'[p].res = "ok"
    BY <1>2, ReturnMovesCall DEF PrimaryHit
  <2>2. c.client = ClientOf(mode) => Shown(bucket, mode, c.key)
    BY <1>1, <1>2, LookupFacts DEF PrimaryHit
  <2>3. Seen(call'[p], bucket)
    BY <2>1 DEF Seen
  <2>4. QED
    BY <1>1, <2>1, <2>2, <2>3, CallMovesClean
<1>3. CASE PrimaryMiss(p)
  <2>1. \/ FallsBack(c.client) /\ CallMoves(p) /\ call'[p].at = "fallback"
        \/ /\ ~ FallsBack(c.client)
           /\ CallMoves(p) /\ call'[p].at = "returned" /\ call'[p].res = "notfound"
    BY <1>3, ReturnMovesCall, AtMovesCall DEF PrimaryMiss
  <2>2. WasThere(p) => OldValue(bucket, c.key) # Absent /\ FallsBack(c.client)
    BY <1>3, WasThereHeld DEF PrimaryMiss, FallsBack
  <2>3. WasThere(p) => Seen(call'[p], bucket)
    BY <2>1, <2>2 DEF Seen, CallMoves
  <2>4. ~ Succeeded(call'[p])
    BY <2>1 DEF Succeeded
  <2>5. /\ CallMoves(p) /\ call'[p].at # "primary"
        /\ call'[p].at = "returned" => call'[p].res = "notfound"
        /\ call'[p].at \in {"fallback", "stripped"} => HasFallback
    BY <2>1 DEF FallsBack
  <2>6. QED
    BY <1>1, <2>3, <2>4, <2>5, CallMovesClean
<1>4. QED
  BY <1>2, <1>3

LEMMA FallbackClean ==
    ASSUME WorkerInv, BatchCleanInv, NEW p \in Procs, FallbackHit(p) \/ FallbackMiss(p),
           UNCHANGED <<job, mode>>
    PROVE  BatchCleanInv'
<1> DEFINE c == call[p]
<1>1. /\ Looking(p) /\ c.at \in {"fallback", "stripped"} /\ c.op # "put" /\ c.key \in Keys
      /\ Grows(bucket, bucket')
  BY SameGrows, LookupFacts DEF FallbackHit, FallbackMiss
<1>2. HasFallback /\ c.client = "origin" /\ (c.at = "stripped" => Strip[c.key] # NoKey)
  BY <1>1, CleanFacts DEF CallOK, CleanOK, AsksOK
<1>3. CASE FallbackHit(p)
  <2>1. CallMoves(p) /\ (\/ call'[p].at = "copyback"
                         \/ call'[p].at = "returned" /\ call'[p].res = "ok")
    <3>1. CASE c.op = "get"
      BY <1>3, <3>1, CleanFacts DEF FallbackHit, CallMoves, CallRecord
    <3>2. CASE c.op # "get"
      BY <1>3, <3>2, ReturnMovesCall DEF FallbackHit
    <3>3. QED
      BY <3>1, <3>2
  <2>2. OldValue(bucket, c.key) # Absent
    BY <1>1, <1>2, <1>3 DEF FallbackHit, FallbackKey, OldValue
  <2>3. c.client = ClientOf(mode) => Shown(bucket, mode, c.key)
    BY <1>1, <1>2, <2>2 DEF Shown, Held, ClientOf
  <2>4. Seen(call'[p], bucket)
    BY <2>1 DEF Seen
  <2>5. /\ call'[p].at # "primary" /\ call'[p].at \notin {"fallback", "stripped"}
        /\ call'[p].at = "returned" => call'[p].res = "ok"
    BY <2>1
  <2>6. QED
    BY <1>1, <2>1, <2>3, <2>4, <2>5, CallMovesClean
<1>4. CASE FallbackMiss(p)
  <2>1. \/ /\ c.at = "fallback" /\ Strip[c.key] # NoKey
           /\ CallMoves(p) /\ call'[p].at = "stripped"
        \/ /\ ~ (c.at = "fallback" /\ Strip[c.key] # NoKey)
           /\ CallMoves(p) /\ call'[p].at = "returned" /\ call'[p].res = "notfound"
    BY <1>4, ReturnMovesCall, AtMovesCall DEF FallbackMiss
  <2>2. bucket["fallback"][FallbackKey(c)] = Absent
    BY <1>4 DEF FallbackMiss
  <2>3. WasThere(p) =>
          /\ c.at = "fallback" => OldValue(bucket, c.key) # Absent
          /\ c.at = "stripped" => bucket["fallback"][Strip[c.key]] # Absent
    BY WasThereHeld DEF Seen
  <2>4. WasThere(p) => Seen(call'[p], bucket)
    BY <1>1, <2>1, <2>2, <2>3 DEF Seen, FallbackKey, OldValue, CallMoves
  <2>5. /\ CallMoves(p) /\ call'[p].at # "primary" /\ ~ Succeeded(call'[p])
        /\ call'[p].at = "returned" => call'[p].res = "notfound"
    BY <2>1 DEF Succeeded
  <2>6. QED
    BY <1>1, <1>2, <2>4, <2>5, CallMovesClean
<1>5. QED
  BY <1>3, <1>4

LEMMA ErrorClean ==
    ASSUME WorkerInv, BatchCleanInv, NEW p \in Procs, LookupFails(p), UNCHANGED <<job, mode>>
    PROVE  BatchCleanInv'
<1>1. Grows(bucket, bucket') /\ call[p].op # "put"
  BY SameGrows, LookupFacts DEF LookupFails
<1>2. CallMoves(p) /\ call'[p].at = "returned" /\ call'[p].res = "error"
  BY ReturnMovesCall DEF LookupFails
<1>3. Seen(call'[p], bucket) /\ ~ Succeeded(call'[p])
  BY <1>2 DEF Seen, Succeeded
<1>4. QED
  BY <1>1, <1>2, <1>3, CallMovesClean

LEMMA CopyBackClean ==
    ASSUME WorkerInv, BatchCleanInv, NEW p \in Procs, CopyBack(p) \/ CopyBackFails(p),
           UNCHANGED <<job, mode>>
    PROVE  BatchCleanInv'
<1>1. /\ call[p].op = "get" /\ call[p].data \in Object
      /\ call[p].client \in Clients /\ call[p].key \in Keys
  BY CleanFacts DEF CopyBack, CopyBackFails, CallOK, CallRecord
<1>2. Grows(bucket, bucket')
  BY <1>1, SameGrows, StoreGrows DEF CopyBack, CopyBackFails
<1>3. CallMoves(p) /\ call'[p].at = "returned" /\ call'[p].res = "ok"
  BY ReturnMovesCall DEF CopyBack, CopyBackFails
<1>4. Seen(call'[p], bucket)
  BY <1>3 DEF Seen
<1>5. QED
  BY <1>1, <1>2, <1>3, <1>4, CallMovesClean

LEMMA PutClean ==
    ASSUME WorkerInv, BatchCleanInv, NEW p \in Procs, Put(p) \/ PutFails(p), UNCHANGED <<job, mode>>
    PROVE  BatchCleanInv'
<1>1. /\ call[p].op = "put" /\ call[p].data \in Object
      /\ call[p].client \in Clients /\ call[p].key \in Keys
      /\ ~ WasThere(p)
  BY CleanFacts DEF Put, PutFails, CallOK, CallRecord, JobOK, WasThere
<1>2. Grows(bucket, bucket')
  BY <1>1, SameGrows, StoreGrows DEF Put, PutFails
<1>3. CASE Put(p)
  <2>1. CallMoves(p) /\ call'[p].at = "returned" /\ call'[p].res = "ok"
    BY <1>3, ReturnMovesCall DEF Put
  <2>2. bucket'[call[p].client][call[p].key] # Absent
    BY <1>1, <1>3, StoreGrows DEF Put
  <2>3. QED
    BY <1>1, <1>2, <2>1, <2>2, CallMovesClean
<1>4. CASE PutFails(p)
  <2>1. CallMoves(p) /\ call'[p].at = "returned" /\ call'[p].res = "error"
    BY <1>4, ReturnMovesCall DEF PutFails
  <2>2. QED
    BY <1>1, <1>2, <2>1, CallMovesClean DEF Succeeded
<1>5. QED
  BY <1>3, <1>4

LEMMA StoreClean ==
    ASSUME WorkerInv, BatchCleanInv, NEW p \in Procs, S3Step(p), UNCHANGED <<job, mode>>
    PROVE  BatchCleanInv'
BY PrimaryClean, FallbackClean, ErrorClean, CopyBackClean, PutClean DEF S3Step

LEMMA PublishClean ==
    ASSUME WorkerInv, BatchCleanInv, NEW k \in CatalogKeys, Publish(k), UNCHANGED <<job, mode>>
    PROVE  BatchCleanInv'
<1> DEFINE o == Original(k, catalog[k] + 1)
<1>1. k \in Keys /\ catalog[k] + 1 \in 0 .. MaxVersion
  BY StoreAssumption DEF Publish, WorkerInv, WorkerTypeOK, StoreTypeOK
<1>2. o \in Object /\ Store("origin", k, o) /\ "origin" \in Clients
  BY <1>1 DEF Publish, Original, Object, Clients
<1> HIDE DEF o
<1>3. Grows(bucket, bucket')
  BY <1>1, <1>2, StoreGrows
<1>4. ASSUME NEW p \in Procs PROVE CleanOK(job[p], call[p], bucket', mode)
  <2>1. call[p].at = "returned" => call[p].key \in Keys
    BY CleanFacts DEF CallOK
  <2>2. QED
    BY <1>3, <2>1, CleanFacts, GrowthKeeps
<1>5. QED
  BY <1>4 DEF BatchCleanInv, Publish

-----------------------------------------------------------------------------
(* Steps of a batch: the buckets stay as they are.                         *)

\* p moves on to j and opens call c.
Moves(p, j, c) ==
    /\ job' = [job EXCEPT ![p] = j] /\ call' = [call EXCEPT ![p] = c]
    /\ UNCHANGED <<bucket, mode>>

LEMMA MovesClean ==
    ASSUME WorkerInv, BatchCleanInv, NEW p \in Procs, NEW STATE j, NEW STATE c, Moves(p, j, c),
           CleanOK(j, c, bucket, mode)
    PROVE  BatchCleanInv'
<1>1. job'[p] = j /\ call'[p] = c
  BY CleanFacts DEF Moves
<1>2. Grows(bucket, bucket') /\ bucket' = bucket /\ mode' = mode
  BY SameGrows DEF Moves
<1>3. CleanOK(job'[p], call'[p], bucket', mode)
  BY <1>1, <1>2
<1>4. job' = [job EXCEPT ![p] = job'[p]] /\ call' = [call EXCEPT ![p] = call'[p]]
  BY <1>1 DEF Moves
<1>5. QED
  BY <1>2, <1>3, <1>4, CleanFrame

\* A goroutine without a batch owes nothing.
LEMMA Nothing ==
    ASSUME NEW j, j.pc \in {"idle", "done"}, j.had = {}, j.kept = {}
    PROVE  \A B, m : CleanOK(j, NoCall, B, m)
BY DEF CleanOK, StillThere, AsksOK, WritesOK, CoversOK, NoCall, Rendering

LEMMA RejectClean ==
    ASSUME WorkerInv, BatchCleanInv, NEW p \in Procs, NEW t \in Triggers, Reject(p, t)
    PROVE  BatchCleanInv'
<1> DEFINE j == [NoJob EXCEPT !.pc = "done", !.status = IF t.authorized THEN 400 ELSE 401]
<1>1. j.pc = "done" /\ j.had = {} /\ j.kept = {}
  BY DEF NoJob
<1>2. Moves(p, j, NoCall)
  BY DEF Reject, HangUp, StoreUnchanged, Moves
<1> HIDE DEF j
<1>3. CleanOK(j, NoCall, bucket, mode)
  BY <1>1, Nothing
<1>4. QED
  BY <1>2, <1>3, MovesClean

\* A call that has just been opened has told nothing yet.
LEMMA Opened ==
    ASSUME NEW op, NEW client, NEW k, NEW d
    PROVE  LET c == Call(op, client, k, d) IN
           /\ c.at = "primary" /\ c.op = op /\ c.client = client /\ c.key = k
           /\ ~ Succeeded(c) /\ \A B : Seen(c, B)
BY DEF Call, Succeeded, Seen

LEMMA OutputsAreKeys ==
    ASSUME NEW t \in AcceptedTriggers, NEW own \in {NewWorker(env) : env \in EnvSizes},
           NEW i \in DOMAIN t.images
    PROVE  Outputs(t, i, EffectiveSizes(t, own)) \subseteq Keys
<1>1. \A n \in DOMAIN EffectiveSizes(t, own) : EffectiveSizes(t, own)[n] \in RowsOf(t)
  BY RowsInRange
<1>2. QED
  BY <1>1, OutputKey DEF Outputs

LEMMA AcceptClean ==
    ASSUME WorkerInv, BatchCleanInv, NEW p \in Procs, NEW t \in Triggers, Accept(p, t)
    PROVE  BatchCleanInv'
<1> DEFINE rows == EffectiveSizes(t, sizes)
           had == {i \in DOMAIN t.images : View("origin")[t.images[i]] # Absent}
           kept == {k \in UNION {Outputs(t, i, rows) : i \in DOMAIN t.images} :
                      View(CacheClient)[k] # Absent}
           j == [NoJob EXCEPT !.pc = "get", !.trigger = t, !.rows = rows, !.status = 202,
                              !.had = had, !.kept = kept]
           c == Call("get", "origin", t.images[1], Absent)
<1>1. t \in AcceptedTriggers /\ sizes \in {NewWorker(env) : env \in EnvSizes}
  BY CallTypes DEF Accept
<1>2. t.images \in Seq(Keys)
  BY <1>1, TriggerFields
<1>3. \A i \in had : i \in DOMAIN t.images /\ i >= 1 /\ Held(bucket, t.images[i])
  BY <1>2, ShownIsViewed
<1>4. \A k \in kept : Shown(bucket, mode, k)
  <2>1. kept \subseteq Keys
    BY <1>1, OutputsAreKeys
  <2>2. QED
    BY <2>1, ShownIsViewed
<1>5. Moves(p, j, c)
  BY DEF Accept, Get, StoreUnchanged, Moves
<1> HIDE DEF rows, had, kept
<1>6. /\ j.pc = "get" /\ j.trigger = t /\ j.had = had /\ j.kept = kept
      /\ j.i = 1 /\ j.row = 1 /\ j.format = 1
  BY DEF NoJob
<1>7. c.at = "primary" /\ c.client = "origin" /\ \A B : Seen(c, B)
  BY Opened
<1> HIDE DEF j, c
<1>8. StillThere(j, bucket, mode)
  BY <1>3, <1>4, <1>6 DEF StillThere
<1>9. AsksOK(j, c, bucket, mode) /\ WritesOK(j, c, bucket)
  BY <1>6, <1>7 DEF AsksOK, WritesOK
<1>10. CoversOK(j, bucket, mode)
  <2>1. \A i \in had : ~ (i < 1)
    BY <1>2, <1>3
  <2>2. QED
    BY <1>6, <2>1 DEF CoversOK, Rendering
<1>11. QED
  BY <1>5, <1>8, <1>9, <1>10, MovesClean DEF CleanOK

\* The batch is through with an image: skipped, or all its outputs are there.
LEMMA NextImageClean ==
    ASSUME WorkerInv, BatchCleanInv, NEW p \in Procs, StoreUnchanged,
           PlaceOK(job[p]), NEW STATE clean, clean \in BOOLEAN, NextImage(p, clean),
           clean => /\ job[p].clean
                    /\ job[p].i \in job[p].had => ImageCovered(job[p], job[p].i, bucket, mode)
    PROVE  BatchCleanInv'
<1> DEFINE t == job[p].trigger
           i == job[p].i
<1>1. job[p] \in JobRecord /\ CleanOK(job[p], call[p], bucket, mode)
      /\ t.images \in Seq(Keys) /\ i \in DOMAIN t.images
  BY CleanFacts, Place DEF PlaceOK
<1>2. job[p].had \subseteq DOMAIN t.images
  BY <1>1 DEF CleanOK, StillThere
<1>3. clean => \A h \in job[p].had : h <= i => ImageCovered(job[p], h, bucket, mode)
  <2> SUFFICES ASSUME clean, NEW h \in job[p].had, h <= i
               PROVE  ImageCovered(job[p], h, bucket, mode)
    OBVIOUS
  <2>1. CASE h = i
    BY <2>1
  <2>2. CASE h # i
    <3>1. h < i
      BY <1>1, <1>2, <2>2
    <3>2. QED
      BY <1>1, <3>1 DEF CleanOK, CoversOK
  <2>3. QED
    BY <2>1, <2>2
<1>4. CASE i < Len(t.images)
  <2> DEFINE n == i + 1
             j == [job[p] EXCEPT !.pc = "get", !.i = n, !.row = 1, !.format = 1,
                                 !.data = Absent, !.obj = Absent, !.clean = clean]
             c == Call("get", "origin", t.images[n], Absent)
  <2>1. Moves(p, j, c)
    BY <1>4 DEF NextImage, Get, StoreUnchanged, Moves
  <2>2. /\ j.pc = "get" /\ j.trigger = t /\ j.rows = job[p].rows /\ j.clean = clean
        /\ j.had = job[p].had /\ j.kept = job[p].kept /\ j.i = n /\ j.row = 1 /\ j.format = 1
    BY <1>1 DEF JobRecord
  <2>3. c.at = "primary" /\ c.client = "origin" /\ \A B : Seen(c, B)
    BY Opened
  <2> HIDE DEF j, c
  <2>4. StillThere(j, bucket, mode)
    BY <1>1, <2>2 DEF CleanOK, StillThere
  <2>5. AsksOK(j, c, bucket, mode) /\ WritesOK(j, c, bucket)
    BY <2>2, <2>3 DEF AsksOK, WritesOK
  <2>6. \A h \in job[p].had : h < n => h <= i
    BY <1>1, <1>2
  <2>7. CoversOK(j, bucket, mode)
    BY <1>3, <2>2, <2>6 DEF CoversOK, ImageCovered, Rendering
  <2>8. QED
    BY <2>1, <2>4, <2>5, <2>7, MovesClean DEF CleanOK
<1>5. CASE ~ (i < Len(t.images))
  <2> DEFINE j == [job[p] EXCEPT !.pc = "done", !.kept = {}, !.row = 1, !.format = 1,
                                 !.data = Absent, !.obj = Absent, !.clean = clean]
  <2>1. Moves(p, j, NoCall)
    BY <1>5 DEF NextImage, HangUp, StoreUnchanged, Moves
  <2>2. /\ j.pc = "done" /\ j.trigger = t /\ j.rows = job[p].rows /\ j.clean = clean
        /\ j.had = job[p].had /\ j.kept = {}
    BY <1>1 DEF JobRecord
  <2> HIDE DEF j
  <2>3. StillThere(j, bucket, mode)
    BY <1>1, <2>2 DEF CleanOK, StillThere
  <2>4. AsksOK(j, NoCall, bucket, mode) /\ WritesOK(j, NoCall, bucket)
    BY <2>2 DEF AsksOK, WritesOK, NoCall
  <2>5. \A h \in job[p].had : h <= i
    BY <1>1, <1>2, <1>5
  <2>6. CoversOK(j, bucket, mode)
    BY <1>3, <2>2, <2>5 DEF CoversOK, ImageCovered, Rendering
  <2>7. QED
    BY <2>1, <2>3, <2>4, <2>6, MovesClean DEF CleanOK
<1>6. QED
  BY <1>4, <1>5

\* The batch is through with an output, of which something is there.
LEMMA NextOutputClean ==
    ASSUME WorkerInv, BatchCleanInv, NEW p \in Procs, StoreUnchanged,
           PlaceOK(job[p]), job[p].pc \in Rendering,
           NEW STATE clean, clean \in BOOLEAN, NextOutput(p, clean),
           clean => job[p].clean /\ Shown(bucket, mode, Key(job[p]))
    PROVE  BatchCleanInv'
<1> DEFINE t == job[p].trigger
           more == job[p].format < Len(t.formats)
           r == IF more THEN job[p].row ELSE job[p].row + 1
           f == IF more THEN job[p].format + 1 ELSE 1
<1>1. job[p] \in JobRecord /\ CleanOK(job[p], call[p], bucket, mode)
  BY CleanFacts
<1>2. /\ t.formats \in Seq(STRING) /\ job[p].rows \in Seq(Seq(Int))
      /\ job[p].format \in DOMAIN t.formats /\ job[p].row \in DOMAIN job[p].rows
  BY <1>1, Place DEF PlaceOK
<1>3. clean => PartCovered(job[p], bucket, mode)
  BY <1>1 DEF CleanOK, CoversOK
<1>4. clean => Shown(bucket, mode, Output(job[p], job[p].row, job[p].format))
  BY DEF Key, Row, Format, Output
<1>5. CASE more \/ job[p].row < Len(job[p].rows)
  <2> DEFINE j == [job[p] EXCEPT !.pc = "resize", !.obj = Absent, !.clean = clean,
                                 !.row = r, !.format = f]
  <2>1. Moves(p, j, NoCall)
    BY <1>5 DEF NextOutput, HangUp, StoreUnchanged, Moves
  <2>2. \A n \in DOMAIN job[p].rows, g \in DOMAIN t.formats :
          n < r \/ (n = r /\ g < f) =>
            Before(job[p], n, g) \/ (n = job[p].row /\ g = job[p].format)
    <3>1. /\ job[p].row \in Nat /\ job[p].format \in Nat /\ Len(t.formats) \in Nat
          /\ DOMAIN job[p].rows \subseteq Nat /\ DOMAIN t.formats = 1 .. Len(t.formats)
      <4>1. PICK formats, rows, i, k : /\ formats = t.formats /\ rows = job[p].rows
                                       /\ i = job[p].row /\ k = job[p].format
        OBVIOUS
      <4>2. /\ formats \in Seq(STRING) /\ rows \in Seq(Seq(Int))
            /\ k \in DOMAIN formats /\ i \in DOMAIN rows
        BY <1>2, <4>1, Zenon
      <4>3. /\ i \in Nat /\ k \in Nat /\ Len(formats) \in Nat
            /\ DOMAIN rows \subseteq Nat /\ DOMAIN formats = 1 .. Len(formats)
        BY <4>2
      <4>4. QED
        BY <4>1, <4>3, Zenon
    <3>2. CASE more
      <4>1. r = job[p].row /\ f = job[p].format + 1
        BY <3>2
      <4> HIDE DEF r, f, more
      <4>2. QED
        BY <3>1, <4>1 DEF Before
    <3>3. CASE ~ more
      <4>1. r = job[p].row + 1 /\ f = 1 /\ ~ (job[p].format < Len(t.formats))
        BY <3>3
      <4> HIDE DEF r, f, more
      <4>2. \A g \in DOMAIN t.formats :
              g \in Nat /\ ~ (g < 1) /\ (g < job[p].format \/ g = job[p].format)
        BY <3>1, <4>1
      <4>3. \A n \in DOMAIN job[p].rows : n < r => n < job[p].row \/ n = job[p].row
        BY <3>1, <4>1
      <4>4. QED
        BY <4>1, <4>2, <4>3, Zenon DEF Before
    <3>4. QED
      BY <3>2, <3>3
  <2> HIDE DEF r, f, more
  <2>3. /\ j.pc = "resize" /\ j.trigger = t /\ j.rows = job[p].rows /\ j.i = job[p].i
        /\ j.row = r /\ j.format = f /\ j.had = job[p].had /\ j.kept = job[p].kept
        /\ j.clean = clean
    BY <1>1 DEF JobRecord
  <2> HIDE DEF j
  <2>4. StillThere(j, bucket, mode)
    BY <1>1, <2>3 DEF CleanOK, StillThere
  <2>5. AsksOK(j, NoCall, bucket, mode) /\ WritesOK(j, NoCall, bucket)
    BY <2>3 DEF AsksOK, WritesOK, NoCall
  <2>6. clean => PartCovered(j, bucket, mode)
    <3> SUFFICES ASSUME clean, NEW n \in DOMAIN job[p].rows, NEW g \in DOMAIN t.formats,
                        IsPair(job[p].rows[n]), n < r \/ (n = r /\ g < f)
                 PROVE  Shown(bucket, mode, Output(job[p], n, g))
      BY <2>3 DEF PartCovered, Before, Output
    <3>1. Before(job[p], n, g) \/ (n = job[p].row /\ g = job[p].format)
      BY <2>2
    <3>2. QED
      BY <1>3, <1>4, <3>1 DEF PartCovered
  <2>7. CoversOK(j, bucket, mode)
    BY <1>1, <2>3, <2>6 DEF CleanOK, CoversOK, ImageCovered, Rendering
  <2>8. QED
    BY <2>1, <2>4, <2>5, <2>7, MovesClean DEF CleanOK
<1>6. CASE ~ (more \/ job[p].row < Len(job[p].rows))
  <2>1. NextImage(p, clean)
    BY <1>6 DEF NextOutput
  <2>2. \A n \in DOMAIN job[p].rows, g \in DOMAIN t.formats :
          Before(job[p], n, g) \/ (n = job[p].row /\ g = job[p].format)
    BY <1>2, <1>6 DEF Before
  <2>3. clean => ImageCovered(job[p], job[p].i, bucket, mode)
    <3> SUFFICES ASSUME clean, NEW k \in Outputs(t, job[p].i, job[p].rows)
                 PROVE  Shown(bucket, mode, k)
      BY DEF ImageCovered
    <3>1. PICK n \in DOMAIN job[p].rows, g \in DOMAIN t.formats :
            IsPair(job[p].rows[n]) /\ k = Output(job[p], n, g)
      BY DEF Outputs, Output
    <3>2. QED
      BY <1>3, <1>4, <2>2, <3>1 DEF PartCovered
  <2>4. QED
    BY <2>1, <2>3, NextImageClean
<1>7. QED
  BY <1>5, <1>6

LEMMA ImageSkippedClean ==
    ASSUME WorkerInv, BatchCleanInv, NEW p \in Procs, ImageSkipped(p)
    PROVE  BatchCleanInv'
<1>1. /\ job[p] \in JobRecord /\ job[p].pc = "get" /\ JobOK(job[p], call[p])
      /\ CleanOK(job[p], call[p], bucket, mode)
      /\ call[p].at = "returned" /\ call[p].res # "ok"
  BY CleanFacts DEF ImageSkipped, At, Returned, Got
<1>2. PlaceOK(job[p]) /\ Unhurt(p) \in BOOLEAN /\ call[p].op = "get"
  BY <1>1 DEF JobOK, Unhurt, JobRecord
<1>3. call[p].res \in {"notfound", "error"}
  BY <1>1, <1>2 DEF CleanOK, AsksOK
<1>4. job[p].i \in job[p].had => ~ Unhurt(p)
  BY <1>1, <1>3 DEF CleanOK, AsksOK, Seen, Unhurt
<1>5. Unhurt(p) => job[p].clean
  BY DEF Unhurt
<1>6. NextImage(p, Unhurt(p)) /\ StoreUnchanged
  BY DEF ImageSkipped
<1>7. QED
  BY <1>2, <1>4, <1>5, <1>6, NextImageClean

LEMMA ImageFetchedClean ==
    ASSUME WorkerInv, BatchCleanInv, NEW p \in Procs, ImageFetched(p)
    PROVE  BatchCleanInv'
<1> DEFINE j == [job[p] EXCEPT !.pc = "resize", !.data = call[p].data]
<1>1. /\ job[p] \in JobRecord /\ job[p].pc = "get" /\ JobOK(job[p], call[p])
      /\ CleanOK(job[p], call[p], bucket, mode)
  BY CleanFacts DEF ImageFetched, At
<1>2. Moves(p, j, NoCall)
  BY DEF ImageFetched, HangUp, StoreUnchanged, Moves
<1>3. /\ j.pc = "resize" /\ j.trigger = job[p].trigger /\ j.rows = job[p].rows
      /\ j.i = job[p].i /\ j.row = job[p].row /\ j.format = job[p].format
      /\ j.had = job[p].had /\ j.kept = job[p].kept /\ j.clean = job[p].clean
  BY <1>1 DEF JobRecord
<1> HIDE DEF j
<1>4. j.row = 1 /\ j.format = 1 /\ PlaceOK(job[p])
  BY <1>1, <1>3 DEF CleanOK, AsksOK, JobOK
<1>5. \A n \in DOMAIN j.rows, f \in DOMAIN j.trigger.formats : ~ Before(j, n, f)
  <2>1. j.trigger.formats \in Seq(STRING) /\ j.rows \in Seq(Seq(Int))
    BY <1>1, <1>3, <1>4, Place
  <2>2. QED
    BY <1>4, <2>1 DEF Before
<1>6. StillThere(j, bucket, mode)
  BY <1>1, <1>3 DEF CleanOK, StillThere
<1>7. AsksOK(j, NoCall, bucket, mode) /\ WritesOK(j, NoCall, bucket)
  BY <1>3 DEF AsksOK, WritesOK, NoCall
<1>8. PartCovered(j, bucket, mode)
  BY <1>5 DEF PartCovered
<1>9. CoversOK(j, bucket, mode)
  BY <1>1, <1>3, <1>8 DEF CleanOK, CoversOK, ImageCovered
<1>10. QED
  BY <1>2, <1>6, <1>7, <1>9, MovesClean DEF CleanOK

LEMMA ResizeFailsClean ==
    ASSUME WorkerInv, BatchCleanInv, NEW p \in Procs, ResizeFails(p)
    PROVE  BatchCleanInv'
<1>1. job[p].pc = "resize" /\ JobOK(job[p], call[p])
  BY CleanFacts DEF ResizeFails
<1>2. PlaceOK(job[p]) /\ job[p].pc \in Rendering
  BY <1>1 DEF JobOK, Rendering
<1> DEFINE clean == FALSE
<1>3. NextOutput(p, clean) /\ StoreUnchanged /\ clean \in BOOLEAN
  BY DEF ResizeFails
<1>4. ~ clean
  OBVIOUS
<1> HIDE DEF clean
<1>5. QED
  BY <1>2, <1>3, <1>4, NextOutputClean

\* The same output of the same image is at hand; only the point of it changes.
SamePlace(p, j) ==
    /\ j.trigger = job[p].trigger /\ j.rows = job[p].rows
    /\ j.i = job[p].i /\ j.row = job[p].row /\ j.format = job[p].format
    /\ j.had = job[p].had /\ j.kept = job[p].kept
    /\ j.pc \in {"exists", "origin", "cache"} /\ (j.clean => job[p].clean)

LEMMA SameOutput ==
    ASSUME WorkerInv, BatchCleanInv, NEW p \in Procs, job[p].pc \in Rendering,
           NEW STATE j, SamePlace(p, j)
    PROVE  /\ Key(j) = Key(job[p]) /\ j.kept = job[p].kept
           /\ StillThere(j, bucket, mode) /\ CoversOK(j, bucket, mode)
<1>1. job[p] \in JobRecord /\ CleanOK(job[p], call[p], bucket, mode)
  BY CleanFacts
<1>2. /\ j.trigger = job[p].trigger /\ j.rows = job[p].rows
      /\ j.i = job[p].i /\ j.row = job[p].row /\ j.format = job[p].format
      /\ j.had = job[p].had /\ j.kept = job[p].kept /\ (j.clean => job[p].clean)
  BY DEF SamePlace
<1>3. Key(j) = Key(job[p])
  BY <1>2 DEF Key, Row, Format
<1>4. StillThere(j, bucket, mode)
  BY <1>1, <1>2 DEF CleanOK, StillThere
<1>5. job[p].pc # "done" /\ j.pc # "done"
  BY DEF Rendering, SamePlace
<1>6. j.clean => PartCovered(j, bucket, mode)
  BY <1>1, <1>2 DEF CleanOK, CoversOK, PartCovered, Before, Output
<1>7. CoversOK(j, bucket, mode)
  BY <1>1, <1>2, <1>5, <1>6 DEF CleanOK, CoversOK, ImageCovered
<1>8. QED
  BY <1>2, <1>3, <1>4, <1>7

LEMMA ResizeClean ==
    ASSUME WorkerInv, BatchCleanInv, NEW p \in Procs, Resize(p)
    PROVE  BatchCleanInv'
<1> DEFINE o == Render(job[p].data, Variant(Row(job[p]), Format(job[p])))
           k == Key(job[p])
           j == [job[p] EXCEPT !.pc = "exists", !.obj = o]
           c == Call("exists", CacheClient, k, Absent)
<1>1. job[p] \in JobRecord /\ job[p].pc \in Rendering
  BY CleanFacts DEF Resize, Rendering
<1>2. Moves(p, j, c)
  BY DEF Resize, Exists, StoreUnchanged, Moves
<1> HIDE DEF o, k
<1>3. j.pc = "exists"
  BY <1>1 DEF JobRecord
<1>4. SamePlace(p, j)
  BY <1>1 DEF JobRecord, SamePlace
<1> HIDE DEF j
<1>5. /\ Key(j) = Key(job[p]) /\ j.kept = job[p].kept
      /\ StillThere(j, bucket, mode) /\ CoversOK(j, bucket, mode)
  BY <1>1, <1>4, SameOutput
<1>6. /\ c.at = "primary" /\ c.client = ClientOf(mode) /\ c.key = k
      /\ ~ Succeeded(c) /\ \A B : Seen(c, B)
  BY Opened, ClientNow
<1> HIDE DEF c
<1>7. AsksOK(j, c, bucket, mode) /\ WritesOK(j, c, bucket)
  BY <1>3, <1>5, <1>6 DEF AsksOK, WritesOK, k
<1>8. QED
  BY <1>2, <1>5, <1>7, MovesClean DEF CleanOK

LEMMA AlreadyExistsClean ==
    ASSUME WorkerInv, BatchCleanInv, NEW p \in Procs, AlreadyExists(p)
    PROVE  BatchCleanInv'
<1>1. job[p].pc = "exists" /\ Succeeded(call[p])
  BY DEF AlreadyExists, At, Returned, Got, Succeeded
<1>2. PlaceOK(job[p]) /\ job[p].clean \in BOOLEAN /\ job[p].pc \in Rendering
  BY <1>1, Holding DEF Rendering
<1>3. Shown(bucket, mode, Key(job[p]))
  BY <1>1, CleanFacts DEF CleanOK, AsksOK
<1>4. NextOutput(p, job[p].clean) /\ StoreUnchanged
  BY DEF AlreadyExists
<1>5. QED
  BY <1>2, <1>3, <1>4, NextOutputClean

\* A write is opened, of an output that was not there when the batch began.
LEMMA PutOpens ==
    ASSUME WorkerInv, BatchCleanInv, NEW p \in Procs, StoreUnchanged,
           job[p].pc \in {"exists", "origin", "cache"}, NEW client \in {"origin", "cache"},
           client = "cache" => mode # "off",
           job' = [job EXCEPT ![p] = [@ EXCEPT !.pc = client, !.clean = Unhurt(p)]],
           PutObject(p, client, Key(job[p]), job[p].obj),
           Unhurt(p) => Key(job[p]) \notin job[p].kept
    PROVE  BatchCleanInv'
<1> DEFINE o == job[p].obj
           clean == Unhurt(p)
           k == Key(job[p])
           j == [job[p] EXCEPT !.pc = client, !.clean = clean]
           c == Call("put", client, k, o)
<1>1. job[p] \in JobRecord /\ job[p].pc \in Rendering /\ (clean => job[p].clean)
  BY CleanFacts DEF Rendering, Unhurt
<1>2. Moves(p, j, c)
  BY DEF PutObject, StoreUnchanged, Moves
<1> HIDE DEF o, k, clean
<1>3. j.pc = client /\ j.clean = clean
  BY <1>1 DEF JobRecord
<1>4. SamePlace(p, j)
  BY <1>1 DEF JobRecord, SamePlace
<1> HIDE DEF j
<1>5. /\ Key(j) = Key(job[p]) /\ j.kept = job[p].kept
      /\ StillThere(j, bucket, mode) /\ CoversOK(j, bucket, mode)
  BY <1>1, <1>4, SameOutput
<1>6. c.at = "primary" /\ c.client = client /\ c.key = k /\ ~ Succeeded(c)
  BY Opened
<1> HIDE DEF c
<1>7. AsksOK(j, c, bucket, mode)
  BY <1>3, <1>5, <1>6 DEF AsksOK
<1>8. clean => k \notin job[p].kept
  BY DEF clean, k
<1>9. WritesOK(j, c, bucket)
  BY <1>3, <1>5, <1>6, <1>8 DEF WritesOK, k
<1>10. QED
  BY <1>2, <1>5, <1>7, <1>9, MovesClean DEF CleanOK

LEMMA PutOriginClean ==
    ASSUME WorkerInv, BatchCleanInv, NEW p \in Procs, PutOrigin(p)
    PROVE  BatchCleanInv'
<1>1. /\ job[p].pc = "exists" /\ call[p].at = "returned" /\ call[p].res # "ok"
      /\ CleanOK(job[p], call[p], bucket, mode) /\ JobOK(job[p], call[p])
  BY CleanFacts DEF PutOrigin, At, Returned, Got
<1>2. call[p].res \in {"notfound", "error"} /\ call[p].key = Key(job[p])
  BY <1>1 DEF CleanOK, AsksOK, JobOK
<1>3. Unhurt(p) => Key(job[p]) \notin job[p].kept
  BY <1>1, <1>2 DEF CleanOK, AsksOK, Seen, Unhurt
<1> DEFINE client == "origin"
<1>4. /\ client \in {"origin", "cache"} /\ StoreUnchanged
      /\ client = "cache" => mode # "off"
      /\ job' = [job EXCEPT ![p] = [@ EXCEPT !.pc = client, !.clean = Unhurt(p)]]
      /\ PutObject(p, client, Key(job[p]), job[p].obj)
  BY DEF PutOrigin
<1> HIDE DEF client
<1>5. QED
  BY <1>1, <1>3, <1>4, PutOpens

LEMMA PutCacheClean ==
    ASSUME WorkerInv, BatchCleanInv, NEW p \in Procs, PutCache(p)
    PROVE  BatchCleanInv'
<1>1. job[p].pc = "origin" /\ CleanOK(job[p], call[p], bucket, mode)
  BY CleanFacts DEF PutCache, At
<1>2. Unhurt(p) => Key(job[p]) \notin job[p].kept
  BY <1>1 DEF CleanOK, WritesOK, Unhurt
<1> DEFINE client == "cache"
<1>3. /\ client \in {"origin", "cache"} /\ StoreUnchanged
      /\ client = "cache" => mode # "off"
      /\ job' = [job EXCEPT ![p] = [@ EXCEPT !.pc = client, !.clean = Unhurt(p)]]
      /\ PutObject(p, client, Key(job[p]), job[p].obj)
  BY DEF PutCache, CacheClient
<1> HIDE DEF client
<1>4. QED
  BY <1>1, <1>2, <1>3, PutOpens

LEMMA SavedClean ==
    ASSUME WorkerInv, BatchCleanInv, NEW p \in Procs, Saved(p)
    PROVE  BatchCleanInv'
<1>1. /\ job[p].pc \in {"origin", "cache"} /\ call[p].at = "returned"
      /\ CleanOK(job[p], call[p], bucket, mode) /\ JobOK(job[p], call[p])
  BY CleanFacts DEF Saved, At, Returned
<1>2. PlaceOK(job[p]) /\ Unhurt(p) \in BOOLEAN /\ job[p].pc \in Rendering
      /\ Key(job[p]) \in Keys
  BY <1>1, Holding DEF Rendering
<1>3. call[p].res \in {"ok", "error"} /\ call[p].client = job[p].pc /\ call[p].key = Key(job[p])
  BY <1>1 DEF CleanOK, AsksOK, WritesOK, JobOK
<1>4. Unhurt(p) => bucket[job[p].pc][Key(job[p])] # Absent
  BY <1>1, <1>3 DEF CleanOK, WritesOK, Succeeded, Unhurt
<1>5. job[p].pc = "cache" \/ mode = "off"
  BY <1>1 DEF Saved, CacheClient
<1>6. mode = "off" => job[p].pc = "origin"
  BY <1>1 DEF CleanOK, AsksOK
<1>7. Unhurt(p) => job[p].clean /\ Shown(bucket, mode, Key(job[p]))
  BY <1>1, <1>2, <1>4, <1>5, <1>6 DEF Shown, Held, Unhurt
<1>8. NextOutput(p, Unhurt(p)) /\ StoreUnchanged
  BY DEF Saved
<1>9. QED
  BY <1>2, <1>7, <1>8, NextOutputClean

\* A process that has died runs no batch any more.
LEMMA ProcessGoneClean ==
    ASSUME job' = [p \in Procs |-> NoJob], call' = [p \in Procs |-> NoCall]
    PROVE  BatchCleanInv'
<1>1. \A B, m : CleanOK(NoJob, NoCall, B, m)
  BY Nothing DEF NoJob
<1>2. \A p \in Procs : CleanOK(job'[p], call'[p], bucket', mode')
  BY <1>1
<1>3. QED
  BY <1>2 DEF BatchCleanInv

LEMMA InitIsClean ==
    ASSUME WorkerInit
    PROVE  BatchCleanInv
<1>1. \A B, m : CleanOK(NoJob, NoCall, B, m)
  BY Nothing DEF NoJob
<1>2. \A p \in Procs : CleanOK(job[p], call[p], bucket, mode)
  BY <1>1 DEF WorkerInit, StoreInit
<1>3. QED
  BY <1>2 DEF BatchCleanInv

LEMMA StutterClean ==
    ASSUME BatchCleanInv, UNCHANGED workerVars
    PROVE  BatchCleanInv'
BY DEF BatchCleanInv, workerVars

LEMMA NextKeepsClean ==
    ASSUME WorkerInv, BatchCleanInv, [WorkerNext]_workerVars
    PROVE  BatchCleanInv'
<1>1. ASSUME NEW p \in Procs, WorkerStart(p)
      PROVE  BatchCleanInv'
  BY <1>1, RejectClean, AcceptClean DEF WorkerStart
<1>2. ASSUME NEW p \in Procs, Panic(p)
      PROVE  BatchCleanInv'
  BY <1>2, ProcessGoneClean DEF Panic
<1>3. ASSUME NEW p \in Procs, WorkerContinue(p)
      PROVE  BatchCleanInv'
  BY <1>2, <1>3, ImageSkippedClean, ImageFetchedClean, ResizeFailsClean, ResizeClean,
     AlreadyExistsClean, PutOriginClean, PutCacheClean, SavedClean DEF WorkerContinue
<1>4. ASSUME NEW p \in Procs, S3Step(p), UNCHANGED <<mode, job, sizes, down>>
      PROVE  BatchCleanInv'
  BY <1>4, StoreClean
<1>5. ASSUME NEW k \in CatalogKeys, Publish(k), UNCHANGED <<mode, job, sizes, down>>
      PROVE  BatchCleanInv'
  BY <1>5, PublishClean
<1>6. ASSUME NEW m \in Modes, NEW env \in EnvSizes, WorkerRestart(m, env)
      PROVE  BatchCleanInv'
  BY <1>6, ProcessGoneClean DEF WorkerRestart
<1>7. QED
  BY <1>1, <1>3, <1>4, <1>5, <1>6, StutterClean DEF WorkerNext

-----------------------------------------------------------------------------
(* What the invariant implies.                                             *)

LEMMA CleanCovers ==
    WorkerInv /\ BatchCleanInv => CleanBatchCovers
<1> SUFFICES ASSUME WorkerInv, BatchCleanInv, NEW p \in Procs, Finished(p), job[p].clean,
                    NEW i \in job[p].had, NEW k \in Outputs(job[p].trigger, i, job[p].rows)
             PROVE  View(CacheClient)[k] # Absent
  BY DEF CleanBatchCovers
<1>1. Shown(bucket, mode, k)
  BY CleanFacts DEF Finished, CleanOK, CoversOK, ImageCovered
<1>2. k \in Keys
  BY <1>1 DEF Shown, Held
<1>3. QED
  BY <1>1, <1>2, ShownIsViewed

LEMMA CleanSkips ==
    WorkerInv /\ BatchCleanInv => ExistingAreSkipped
BY CleanFacts DEF CleanOK, WritesOK, ExistingAreSkipped

\* Whatever batches run side by side and however often the process is replaced:
\* each knows of the outputs behind it that they are there (ProcessBatch), and
\* what the answer it waits for will tell it (Client.Get, Client.Exists).
THEOREM BatchCleanInvariant == WorkerSpec => []BatchCleanInv
<1>1. WorkerInit => BatchCleanInv
  BY InitIsClean
<1>2. WorkerInv /\ BatchCleanInv /\ [WorkerNext]_workerVars => BatchCleanInv'
  BY NextKeepsClean
<1>3. QED
  BY <1>1, <1>2, WorkerInvariant, PTL DEF WorkerSpec

\* A batch in which nothing failed leaves no output out: each image that existed
\* as it was accepted is there in every size and format (ProcessBatch).
THEOREM BatchCovers == WorkerSpec => []CleanBatchCovers
<1>1. WorkerInv /\ BatchCleanInv => CleanBatchCovers
  BY CleanCovers
<1>2. QED
  BY <1>1, WorkerInvariant, BatchCleanInvariant, PTL

\* A batch in which nothing failed never overwrites an output it was shown as it
\* began (the skip-existing check of processOutput).
THEOREM ExistingSkipped == WorkerSpec => []ExistingAreSkipped
<1>1. WorkerInv /\ BatchCleanInv => ExistingAreSkipped
  BY CleanSkips
<1>2. QED
  BY <1>1, WorkerInvariant, BatchCleanInvariant, PTL

-----------------------------------------------------------------------------
(* Beside requests (module ImageProxy).                                    *)

\* A slot that runs no batch opens a call.
LEMMA OtherCallClean ==
    ASSUME WorkerInv, BatchCleanInv, NEW p \in Procs, job[p] = NoJob, UNCHANGED job,
           StoreUnchanged,
           call' = [call EXCEPT ![p] = call'[p]], call'[p].at \in {"idle", "primary"}
    PROVE  BatchCleanInv'
<1>1. job' = [job EXCEPT ![p] = job'[p]] /\ job'[p] = NoJob
  BY CleanFacts
<1>2. CleanOK(NoJob, call'[p], bucket', mode)
  BY DEF CleanOK, StillThere, AsksOK, WritesOK, CoversOK, Rendering, NoJob
<1>3. Grows(bucket, bucket') /\ mode' = mode
  BY SameGrows DEF StoreUnchanged
<1>4. QED
  BY <1>1, <1>2, <1>3, CleanFrame
==============================================================================
