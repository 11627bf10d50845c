------------------------------ MODULE ImageProxy ------------------------------
(***************************************************************************)
(* cmd/image-proxy: the whole process.  Requests (module ProxyServer) and  *)
(* batches (module BatchWorker) run side by side on the same clients, the  *)
(* same buckets and the same keys, and die together.                       *)
(***************************************************************************)
EXTENDS Deployment, Sequences, Integers

CONSTANTS
    Handlers,       \* the slots that serve requests; the others run batches
    Urls, NoUrl, Triggers, NoTrigger, EnvSizes, DefaultSizes, Atoi, Base, Lower,
    Prepared,       \* what batches store under a key, as the requests know it
    Filed,          \* what requests store under a key, as the batches know it
    AllPages        \* AllPages[o]: rendering o, of every page of an animation

VARIABLES req, job, sizes, down

P == INSTANCE ProxyServer
W == INSTANCE BatchWorker

ASSUME HandlersAssumption == Handlers \subseteq Procs

\* Either side finds in the buckets what the other side makes.
ASSUME SharingAssumption ==
    /\ Prepared = [k \in Keys |-> {o \in Object : W!IsThumb(k, o)}]
    /\ Filed = [k \in Keys |-> {o \in Object : P!OnDemand(k, o)}]

\* What each side relies on when it runs on its own, it relies on here.
ASSUME ServerAssumption == P!UrlAssumption /\ P!LayoutAssumption /\ P!PreparedAssumption
ASSUME BatchAssumption == W!WorkerAssumption /\ W!FiledAssumption

\* A key that a batch writes for a version, in a size, for which handleResize
\* asks for something else: version 1 ("cover", against the "contain" of
\* processOutput) and the size 0x0 (5120 wide).
Differs(k) ==
    \E t \in W!AcceptedTriggers :
      \E i \in DOMAIN t.images, n \in DOMAIN t.formats : \E row \in W!RowsOf(t) :
        /\ W!IsPair(row) /\ k = W!ThumbKey(t, t.images[i], row, t.formats[n])
        /\ W!Version(t) = 1 \/ (row[1] = 0 /\ row[2] = 0)

\* What the key layout says of the two sides: a URL that spells out the key of
\* an output asks for the first page of what processOutput makes there, but for
\* those two (module UrlPairs, BatchKeysAgree).
ASSUME AgreementAssumption ==
    \A u \in P!ImageUrls, t \in W!AcceptedTriggers :
      \A i \in DOMAIN t.images, n \in DOMAIN t.formats : \A row \in W!RowsOf(t) :
        /\ u.shape # "param" /\ W!IsPair(row)
        /\ u.raw = W!ThumbKey(t, t.images[i], row, t.formats[n])
        => W!Variant(row, t.formats[n]) = AllPages[u.opts] \/ Differs(u.raw)

proxyVars == <<bucket, catalog, call, faults, mode, req, job, sizes, down>>

Request(p) ==
    /\ p \in Handlers /\ ~ down
    /\ P!Start(p) /\ UNCHANGED <<job, sizes, down>>

Serve(p) == P!Continue(p) /\ UNCHANGED <<job, sizes, down>>

Batch(p) ==
    /\ p \in Procs \ Handlers
    /\ W!WorkerStart(p) /\ UNCHANGED req

\* Mutant: only the batches die of a panic.
WorkUnshared(p) == W!WorkerContinue(p) /\ UNCHANGED req

\* A panic in a batch ends the requests in flight, too.
Work(p) ==
    /\ W!WorkerContinue(p)
    /\ req' = IF down' THEN [q \in Procs |-> P!NoReq] ELSE req

ProcessRestart == \E m \in Modes, env \in EnvSizes : P!Restart(m) /\ W!WorkerRestart(m, env)

ProxyInit == P!Init /\ W!WorkerInit

ProxyNext ==
    \/ \E p \in Procs : Request(p) \/ Serve(p) \/ Batch(p) \/ Work(p)
    \/ \E p \in Procs : S3Step(p) /\ UNCHANGED <<mode, req, job, sizes, down>>
    \/ \E k \in CatalogKeys : Publish(k) /\ UNCHANGED <<mode, req, job, sizes, down>>
    \/ ProcessRestart

\* Goroutines that can run run, and S3 answers every request in the end.
ProxyFairness ==
    \A p \in Procs :
      /\ WF_proxyVars(Serve(p)) /\ WF_proxyVars(Work(p))
      /\ WF_proxyVars(S3Step(p) /\ UNCHANGED <<mode, req, job, sizes, down>>)

ProxySpec == ProxyInit /\ [][ProxyNext]_proxyVars /\ ProxyFairness

-----------------------------------------------------------------------------
(* Properties                                                              *)

\* What is stored under a key is the original or the rendering an on-demand
\* request makes for it, or what a batch makes for it: the two writers agree on
\* what a key stands for, whoever comes first (getNormalizedKey, processOutput).
WritersAgreeOnKeys ==
    \A b \in Buckets, k \in Keys :
      LET o == bucket[b][k] IN o # Absent => P!OnDemand(k, o) \/ W!IsThumb(k, o)

\* A client that is served the work of a batch gets the size, the format and the
\* fit of its URL, with every page of an animation, where a request would have
\* rendered the first one.  The exceptions the code makes are version 1, rendered
\* "cover" on demand and "contain" by a batch, and the size 0x0 (handleResize
\* against processOutput).
PreparedLooksOnDemand ==
    \A p \in Procs :
      LET r == req[p] IN
      r.pc = "done" /\ r.status = 200 =>
        \/ P!Asked(r.url, r.obj)
        \/ /\ r.url.shape # "param" /\ W!IsThumb(r.url.raw, r.obj)
           /\ r.url \in P!ImageUrls =>
                r.obj.opts = AllPages[r.url.opts] \/ Differs(r.url.raw)

\* A batch in which nothing failed leaves no output out, although requests write
\* and serve the same keys meanwhile, and other batches die between two writes.
CleanBatchCovers == W!CleanBatchCovers

AtRest(p) == req[p].pc \in {"idle", "done"} /\ job[p].pc \in {"idle", "done"}

\* Every request is answered and every batch comes to its end, or dies with the
\* process, whatever fails.
EverythingEnds == \A p \in Procs : ~ AtRest(p) ~> AtRest(p)

-----------------------------------------------------------------------------
\* A slot serves requests or runs batches, never both.
SlotsApart ==
    /\ \A p \in Procs \ Handlers : req[p] = P!NoReq
    /\ \A p \in Handlers : job[p] = W!NoJob

\* The inductive invariant behind the first two properties: each side's own
\* holds beside the other, because what a batch writes is what requests take for
\* prepared and what a request writes is what batches take for filed.
JointInv == P!IInv /\ W!WorkerInv /\ SlotsApart
==============================================================================
