----------------------------- MODULE BatchWorker -----------------------------
(***************************************************************************)
(* internal/worker/worker.go and handleWorkerTrigger of server.go: batches *)
(* that fill the buckets with renderings before anyone asks for them.      *)
(*                                                                         *)
(* Every accepted trigger starts a goroutine of its own; batches share the *)
(* buckets and nothing else.  An action of a batch is the code from one    *)
(* answer of the S3 client to its next call.  A goroutine slot runs any    *)
(* number of batches, one after another.                                   *)
(*                                                                         *)
(* A trigger is the JSON envelope it carries: a size is a row of integers  *)
(* as in the code, the version is the string that was sent.                *)
(***************************************************************************)
EXTENDS Deployment, Sequences, Integers

CONSTANTS
    Triggers,       \* the triggers that are posted
    NoTrigger,      \* not a trigger
    EnvSizes,       \* values of SIZES, the sizes used when a trigger has none
    DefaultSizes,   \* the sizes used when SIZES is empty too
    Atoi,           \* Atoi[s]: the number a version string spells out
    Base,           \* Base[k]: the file name that key k ends in
    Lower,          \* Lower[f]: format f in lower case
    Filed           \* Filed[k]: what requests may have stored under key k

VARIABLES
    job,            \* job[p]: how far the batch of goroutine p has got
    sizes,          \* Worker.sizes of the running process
    down            \* has the process died without being restarted

workerVars == <<bucket, catalog, call, faults, mode, job, sizes, down>>

allowedFormats == {"png", "jpg", "jpeg", "webp", "avif"}

Version(t) == IF t.version = "" THEN 3 ELSE Atoi[t.version]

ThumbKey(t, image, row, format) ==
    <<t.client, Version(t), row[1], row[2], Base[image], format>>

\* What processOutput asks the resizer for: every page of an animation.
Variant(row, format) == <<row[1], row[2], Lower[format], "all pages">>

\* The rows a batch goes through; an empty list means the worker's own.
EffectiveSizes(t, own) == IF t.sizes = << >> THEN own ELSE t.sizes

\* Only pairs can be taken apart into a width and a height.
IsPair(row) == Len(row) >= 2

\* The keys trigger t asks for, of its i-th image in the sizes rows.
Outputs(t, i, rows) ==
    {ThumbKey(t, t.images[i], rows[n], t.formats[f]) :
       n \in {m \in DOMAIN rows : IsPair(rows[m])}, f \in DOMAIN t.formats}

Trigger == [authorized : BOOLEAN, decodes : BOOLEAN, client : STRING, version : STRING,
            images : Seq(Keys), sizes : Seq(Seq(Int)), formats : Seq(STRING)]

NoJob == [pc |-> "idle", trigger |-> NoTrigger, rows |-> << >>, status |-> 0,
          i |-> 1, row |-> 1, format |-> 1, data |-> Absent, obj |-> Absent,
          clean |-> TRUE, had |-> {}, kept |-> {}]

\* The row, the format and the key of the output a batch is at.
Row(j) == j.rows[j.row]
Format(j) == j.trigger.formats[j.format]
Key(j) == ThumbKey(j.trigger, j.trigger.images[j.i], Row(j), Format(j))

-----------------------------------------------------------------------------
(* handleWorkerTrigger                                                     *)

Idle(p) == ~ down /\ job[p].pc \in {"idle", "done"}

\* The checks that answer 400.
Malformed(t) ==
    \/ ~ t.decodes \/ t.client = "" \/ t.images = << >> \/ t.formats = << >>
    \/ \E n \in DOMAIN t.formats : Lower[t.formats[n]] \notin allowedFormats
    \/ \E n \in DOMAIN t.sizes :
         LET row == t.sizes[n] IN ~ (Len(row) = 2 /\ row[1] >= 0 /\ row[2] >= 0)
    \/ t.version # "" /\ t.version \notin DOMAIN Atoi

AcceptedTriggers == {t \in Triggers : t.authorized /\ ~ Malformed(t)}

\* A missing or wrong token is noticed before the body is read.
Reject(p, t) ==
    /\ Idle(p)
    /\ ~ t.authorized \/ Malformed(t)
    /\ job' = [job EXCEPT ![p] = [NoJob EXCEPT !.pc = "done",
                                    !.status = IF t.authorized THEN 400 ELSE 401]]
    /\ HangUp(p)
    /\ StoreUnchanged /\ UNCHANGED <<sizes, down>>

\* The batch goroutine is started and asks for its first image.  What exists as
\* it starts is remembered (had, kept) to state what the batch must do about it.
Accept(p, t) ==
    /\ Idle(p)
    /\ t \in AcceptedTriggers
    /\ LET rows == EffectiveSizes(t, sizes) IN
       job' = [job EXCEPT ![p] =
                 [NoJob EXCEPT
                    !.pc = "get", !.trigger = t, !.rows = rows, !.status = 202,
                    !.had = {i \in DOMAIN t.images : View("origin")[t.images[i]] # Absent},
                    !.kept = {k \in UNION {Outputs(t, i, rows) : i \in DOMAIN t.images} :
                                View(CacheClient)[k] # Absent}]]
    /\ Get(p, "origin", t.images[1])
    /\ StoreUnchanged /\ UNCHANGED <<sizes, down>>

-----------------------------------------------------------------------------
(* ProcessBatch                                                            *)

At(p, pcs) == job[p].pc \in pcs /\ Returned(p)

Unhurt(p) == job[p].clean /\ call[p].res # "error"

\* The batch goes on to its next image, or is over.
NextImage(p, clean) ==
    LET j == job[p] IN
    IF j.i < Len(j.trigger.images)
      THEN /\ job' = [job EXCEPT ![p] = [@ EXCEPT !.pc = "get", !.i = j.i + 1, !.row = 1,
                                           !.format = 1, !.data = Absent, !.obj = Absent,
                                           !.clean = clean]]
           /\ Get(p, "origin", j.trigger.images[j.i + 1])
      ELSE /\ job' = [job EXCEPT ![p] = [@ EXCEPT !.pc = "done", !.kept = {}, !.row = 1, !.format = 1,
                                           !.data = Absent, !.obj = Absent, !.clean = clean]]
           /\ HangUp(p)

\* Mutant: <= for <, the batch runs past the last of its formats.
NextOutputPast(p, clean) ==
    LET j == job[p]
        more == j.format <= Len(j.trigger.formats) IN
    IF more \/ j.row < Len(j.rows)
      THEN /\ job' = [job EXCEPT ![p] =
                        [@ EXCEPT !.pc = "resize", !.obj = Absent, !.clean = clean,
                                  !.row = IF more THEN j.row ELSE j.row + 1,
                                  !.format = IF more THEN j.format + 1 ELSE 1]]
           /\ HangUp(p)
      ELSE NextImage(p, clean)

\* The batch goes on to its next output: format by format, row by row.
NextOutput(p, clean) ==
    LET j == job[p] IN
    IF j.format < Len(j.trigger.formats) \/ j.row < Len(j.rows)
      THEN /\ job' = [job EXCEPT ![p] =
                        [@ EXCEPT !.pc = "resize", !.obj = Absent, !.clean = clean,
                                  !.row = IF j.format < Len(j.trigger.formats)
                                            THEN j.row ELSE j.row + 1,
                                  !.format = IF j.format < Len(j.trigger.formats)
                                               THEN j.format + 1 ELSE 1]]
           /\ HangUp(p)
      ELSE NextImage(p, clean)

\* Mutant: an image that cannot be fetched ends the batch.
ImageSkippedEnds(p) ==
    /\ At(p, {"get"}) /\ ~ Got(p)
    /\ job' = [job EXCEPT ![p] = [@ EXCEPT !.pc = "done", !.clean = Unhurt(p)]]
    /\ HangUp(p)
    /\ StoreUnchanged /\ UNCHANGED <<sizes, down>>

\* Mutant: it is asked for again until it is there.
ImageSkippedRetries(p) ==
    /\ At(p, {"get"}) /\ ~ Got(p)
    /\ job' = [job EXCEPT ![p] = [@ EXCEPT !.clean = Unhurt(p)]]
    /\ Get(p, "origin", job[p].trigger.images[job[p].i])
    /\ StoreUnchanged /\ UNCHANGED <<sizes, down>>

\* An image that cannot be fetched, for whatever reason, is skipped.
ImageSkipped(p) ==
    /\ At(p, {"get"}) /\ ~ Got(p)
    /\ NextImage(p, Unhurt(p))
    /\ StoreUnchanged /\ UNCHANGED <<sizes, down>>

ImageFetched(p) ==
    /\ At(p, {"get"}) /\ Got(p)
    /\ job' = [job EXCEPT ![p] = [@ EXCEPT !.pc = "resize", !.data = call[p].data]]
    /\ HangUp(p)
    /\ StoreUnchanged /\ UNCHANGED <<sizes, down>>

\* size[1] of a row without a height: nothing recovers the goroutine's panic
\* and the whole process dies.
Panic(p) ==
    /\ job[p].pc = "resize" /\ ~ IsPair(Row(job[p]))
    /\ job' = [q \in Procs |-> NoJob]
    /\ call' = [q \in Procs |-> NoCall]
    /\ down' = TRUE
    /\ UNCHANGED <<bucket, catalog, faults, mode, sizes>>

-----------------------------------------------------------------------------
(* processOutput                                                           *)

ResizeFails(p) ==
    /\ job[p].pc = "resize" /\ IsPair(Row(job[p]))
    /\ NextOutput(p, FALSE)
    /\ StoreUnchanged /\ UNCHANGED <<sizes, down>>

\* Mutant: the origin is asked whether the output exists.
ResizeChecksOrigin(p) ==
    LET j == job[p] IN
    /\ j.pc = "resize" /\ IsPair(Row(j))
    /\ job' = [job EXCEPT ![p] = [@ EXCEPT !.pc = "exists",
                                    !.obj = Render(j.data, Variant(Row(j), Format(j)))]]
    /\ Exists(p, "origin", Key(j))
    /\ StoreUnchanged /\ UNCHANGED <<sizes, down>>

\* Mutant: width and height are swapped on the way to the resizer.
ResizeTurned(p) ==
    LET j == job[p] IN
    /\ j.pc = "resize" /\ IsPair(Row(j))
    /\ job' = [job EXCEPT ![p] = [@ EXCEPT !.pc = "exists",
                 !.obj = Render(j.data, Variant(<<Row(j)[2], Row(j)[1]>>, Format(j)))]]
    /\ Exists(p, CacheClient, Key(j))
    /\ StoreUnchanged /\ UNCHANGED <<sizes, down>>

\* The output is rendered, then the cache client is asked whether it exists.
Resize(p) ==
    LET j == job[p] IN
    /\ j.pc = "resize" /\ IsPair(Row(j))
    /\ job' = [job EXCEPT ![p] = [@ EXCEPT !.pc = "exists",
                                    !.obj = Render(j.data, Variant(Row(j), Format(j)))]]
    /\ Exists(p, CacheClient, Key(j))
    /\ StoreUnchanged /\ UNCHANGED <<sizes, down>>

AlreadyExists(p) ==
    /\ At(p, {"exists"}) /\ Got(p)
    /\ NextOutput(p, job[p].clean)
    /\ StoreUnchanged /\ UNCHANGED <<sizes, down>>

\* Mutant: the bytes that were fetched are written, not those rendered of them.
PutOriginRaw(p) ==
    /\ At(p, {"exists"}) /\ ~ Got(p)
    /\ job' = [job EXCEPT ![p] = [@ EXCEPT !.pc = "origin", !.clean = Unhurt(p)]]
    /\ PutObject(p, "origin", Key(job[p]), job[p].data)
    /\ StoreUnchanged /\ UNCHANGED <<sizes, down>>

\* Not there, or no answer: the output is written, to the origin first.
PutOrigin(p) ==
    /\ At(p, {"exists"}) /\ ~ Got(p)
    /\ job' = [job EXCEPT ![p] = [@ EXCEPT !.pc = "origin", !.clean = Unhurt(p)]]
    /\ PutObject(p, "origin", Key(job[p]), job[p].obj)
    /\ StoreUnchanged /\ UNCHANGED <<sizes, down>>

\* Whatever became of it, the cache is written next if it is a bucket apart.
PutCache(p) ==
    /\ At(p, {"origin"}) /\ CacheClient # "origin"
    /\ job' = [job EXCEPT ![p] = [@ EXCEPT !.pc = "cache", !.clean = Unhurt(p)]]
    /\ PutObject(p, "cache", Key(job[p]), job[p].obj)
    /\ StoreUnchanged /\ UNCHANGED <<sizes, down>>

Saved(p) ==
    /\ At(p, {"origin", "cache"})
    /\ job[p].pc = "origin" => CacheClient = "origin"
    /\ NextOutput(p, Unhurt(p))
    /\ StoreUnchanged /\ UNCHANGED <<sizes, down>>

-----------------------------------------------------------------------------
NewWorker(env) == IF env = << >> THEN DefaultSizes ELSE env

WorkerStart(p) == \E t \in Triggers : Reject(p, t) \/ Accept(p, t)

WorkerContinue(p) ==
    \/ ImageSkipped(p) \/ ImageFetched(p) \/ Panic(p)
    \/ ResizeFails(p) \/ Resize(p) \/ AlreadyExists(p)
    \/ PutOrigin(p) \/ PutCache(p) \/ Saved(p)

\* The process is started again, after a death or in place of a running one.
WorkerRestart(m, env) ==
    /\ mode' = m /\ sizes' = NewWorker(env) /\ down' = FALSE
    /\ job' = [p \in Procs |-> NoJob]
    /\ call' = [p \in Procs |-> NoCall]
    /\ UNCHANGED <<bucket, catalog, faults>>

WorkerInit ==
    /\ StoreInit
    /\ mode \in Modes
    /\ sizes \in {NewWorker(env) : env \in EnvSizes}
    /\ job = [p \in Procs |-> NoJob]
    /\ down = FALSE

WorkerNext ==
    \/ \E p \in Procs : WorkerStart(p) \/ WorkerContinue(p)
    \/ \E p \in Procs : S3Step(p) /\ UNCHANGED <<mode, job, sizes, down>>
    \/ \E k \in CatalogKeys : Publish(k) /\ UNCHANGED <<mode, job, sizes, down>>
    \/ \E m \in Modes, env \in EnvSizes : WorkerRestart(m, env)

WorkerSpec == WorkerInit /\ [][WorkerNext]_workerVars

-----------------------------------------------------------------------------
(* Properties                                                              *)
OriginalKeys == CatalogKeys \union LegacyKeys

Alias(k) == {k} \union IF Strip[k] = NoKey THEN {} ELSE {Strip[k]}

\* The rows a trigger may stand for, under whatever SIZES the process runs with.
RowsOf(t) ==
    UNION {{EffectiveSizes(t, NewWorker(env))[n] :
              n \in DOMAIN EffectiveSizes(t, NewWorker(env))} : env \in EnvSizes}

\* o is what trigger t makes for its i-th image in the given row and format.
MadeFor(t, i, row, f, k, o) ==
    /\ IsPair(row)
    /\ k = ThumbKey(t, t.images[i], row, f)
    /\ o.opts = Variant(row, f)
    /\ o.src \in Alias(t.images[i]) \intersect OriginalKeys

IsThumb(k, o) ==
    \E t \in AcceptedTriggers :
      \E i \in DOMAIN t.images, n \in DOMAIN t.formats : \E row \in RowsOf(t) :
        MadeFor(t, i, row, t.formats[n], k, o)

IsOriginal(k, o) == o.opts = AsIs /\ o.src \in Alias(k) \intersect OriginalKeys

Belongs(k, o) == IsOriginal(k, o) \/ IsThumb(k, o) \/ o \in Filed[k]

ASSUME WorkerAssumption ==
    /\ Triggers \subseteq Trigger /\ NoTrigger \notin Triggers
    /\ \A t \in Triggers : \A n \in DOMAIN t.formats : t.formats[n] \in DOMAIN Lower
    /\ EnvSizes \subseteq Seq(Seq(Int)) /\ EnvSizes # {}
    /\ DefaultSizes \in Seq(Seq(Int)) /\ DefaultSizes # << >>
    /\ \A t \in AcceptedTriggers : \A i \in DOMAIN t.images :
         /\ t.images[i] \in OriginalKeys
         /\ \A n \in DOMAIN t.formats, row \in RowsOf(t) :
              IsPair(row) => /\ ThumbKey(t, t.images[i], row, t.formats[n]) \in Keys \ OriginalKeys
                             /\ Variant(row, t.formats[n]) \in Options

\* Requests file copies of originals under the keys of originals, too, but never
\* a rendering (handleFile; getNormalizedKey gives it a key of its own).
ASSUME FiledAssumption ==
    /\ Filed \in [Keys -> SUBSET Object]
    /\ \A t \in AcceptedTriggers : \A i \in DOMAIN t.images :
         \A o \in Filed[t.images[i]] : IsOriginal(t.images[i], o)

JobStages == {"idle", "get", "resize", "exists", "origin", "cache", "done"}

JobStatuses == {0, 202, 400, 401}

JobRecord == [pc : JobStages, trigger : Triggers \union {NoTrigger},
              rows : Seq(Seq(Int)),
              status : JobStatuses,
              i : Nat \ {0}, row : Nat \ {0}, format : Nat \ {0},
              data : Maybe, obj : Maybe,
              clean : BOOLEAN, had : SUBSET Nat, kept : SUBSET Keys]

\* Every variable has its type.
WorkerTypeOK ==
    /\ StoreTypeOK
    /\ mode \in Modes
    /\ job \in [Procs -> JobRecord]
    /\ sizes \in {NewWorker(env) : env \in EnvSizes}
    /\ down \in BOOLEAN

\* Whatever batches run side by side, fail half way or are cut off: an object is
\* an original under its own key, or the rendering of an image of some trigger
\* in the size and format its key spells out, or what a request has filed there,
\* where requests are served.  Images that end in one file name share their keys,
\* so it may be any of them (processOutput).
ThumbsAreHonest ==
    \A b \in Buckets, k \in Keys :
      bucket[b][k] # Absent => Belongs(k, bucket[b][k])

Finished(p) == job[p].pc = "done" /\ job[p].status = 202

\* A batch in which nothing failed leaves no output out: each image that existed
\* as it was accepted can be read in every size and format by whoever reads the
\* cache client, although other batches skip and overwrite the same keys.
CleanBatchCovers ==
    \A p \in Procs :
      Finished(p) /\ job[p].clean =>
        \A i \in job[p].had : \A k \in Outputs(job[p].trigger, i, job[p].rows) :
          View(CacheClient)[k] # Absent

\* A batch in which nothing failed never writes an output the cache client
\* showed as the batch began (the skip-existing check of processOutput).
ExistingAreSkipped ==
    \A p \in Procs :
      job[p].pc \in {"origin", "cache"} /\ job[p].clean => call[p].key \notin job[p].kept

-----------------------------------------------------------------------------
(* What the documents say, and the code does not always do.                *)

\* "In shadow or live mode, every output is dual-written to both origin and
\* cache" (README.md), and "re-running the trigger is the retry mechanism"
\* (draft/architecture.md): after a batch in which nothing failed, both buckets
\* hold its outputs.
RerunRepairs ==
    \A p \in Procs :
      Finished(p) /\ job[p].clean /\ mode # "off" =>
        \A i \in job[p].had : \A k \in Outputs(job[p].trigger, i, job[p].rows) :
          bucket["origin"][k] # Absent /\ bucket["cache"][k] # Absent

\* "There is no batch-level fatal error" (worker.go): no batch ever ends the
\* process.
NoBatchIsFatal == ~ down

-----------------------------------------------------------------------------
(* The inductive invariant behind ThumbsAreHonest: what the calls and the   *)
(* batches in flight carry belongs where it is going, too.                 *)

\* What an S3 call, of a batch or of a request, brings back or carries belongs
\* under its key, and only the origin client ever asks the fallback bucket.
CallOK(c) ==
    /\ c.at # "idle" => c.op \in {"get", "exists", "put"} /\ c.key \in Keys
    /\ c.at \in {"fallback", "stripped"} => c.op # "put" /\ c.client = "origin"
    /\ c.at = "copyback" => c.op = "get" /\ c.client = "origin"
    /\ c.at = "stripped" => Strip[c.key] # NoKey
    /\ \/ c.at = "copyback"
       \/ c.op = "get" /\ c.at = "returned" /\ c.res = "ok"
       \/ c.op = "put" /\ c.at = "primary"
       => c.data \in Object /\ Belongs(c.key, c.data)

\* A batch that is under way is at an image, a row and a format of its trigger.
PlaceOK(j) ==
    /\ j.trigger \in AcceptedTriggers
    /\ j.i \in DOMAIN j.trigger.images
    /\ j.row \in DOMAIN j.rows
    /\ \A n \in DOMAIN j.rows : j.rows[n] \in RowsOf(j.trigger)
    /\ j.format \in DOMAIN j.trigger.formats

\* What a batch j, with its S3 call c, waits for or holds at each point.  A slot
\* that runs no batch may serve a request and have a call of that open.
JobOK(j, c) ==
    /\ j.pc \notin {"idle", "done"} => PlaceOK(j)
    /\ j.pc = "resize" => c.at = "idle"
    /\ j.pc = "get" => c.op = "get" /\ c.at # "idle" /\ c.key = j.trigger.images[j.i]
    /\ j.pc = "exists" => c.op = "exists" /\ c.at # "idle"
    /\ j.pc \in {"origin", "cache"} => c.op = "put" /\ c.at # "idle"
    /\ j.pc \in {"resize", "exists", "origin", "cache"} =>
         j.data \in Object /\ IsOriginal(j.trigger.images[j.i], j.data)
    /\ j.pc \in {"exists", "origin", "cache"} =>
         IsPair(Row(j)) /\ j.obj \in Object /\ IsThumb(Key(j), j.obj)

\* Nothing ever writes the fallback bucket.
LegacyIsOriginal ==
    \A k \in Keys : bucket["fallback"][k] # Absent =>
      k \in LegacyKeys /\ bucket["fallback"][k] = Original(k, 0)

\* Everything stored or in flight belongs where it is, at once; each part needs
\* the others to survive a step (ProcessBatch, processOutput, Client.Get).
WorkerInv ==
    /\ WorkerTypeOK
    /\ ThumbsAreHonest
    /\ LegacyIsOriginal
    /\ \A p \in Procs : CallOK(call[p]) /\ JobOK(job[p], call[p])
==============================================================================
