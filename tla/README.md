# Verification of image-s3-proxy

TLA+ models of the proxy in `src/`, the TLC runs that check them on small
instances, and TLAPS proofs of the invariants that matter most. Every module
states in its header which file it models; `PROJECT.json` maps each definition
to its lines.

## 1. The system

The proxy serves images from S3 buckets and fills them with renderings it makes
on demand. Its parts, their state and how they interact:

| Part | Code | State | Operations | Talks to |
|---|---|---|---|---|
| S3 client | `internal/s3/s3.go` | none of its own after start-up; the buckets (origin, cache, fallback) | `Get` (primary, fallback, fallback under the stripped key, copy-back), `Exists`, `Put` | the buckets, over the network |
| Request path, legacy URLs | `internal/server/server.go` | per request: URL, reader, candidate, bytes, which of the two writes is next | `ServeHTTP`, `handleResize`, `handleFile`, `putBoth`, `effectiveReadClient` | S3 client, resizer |
| Request path, `/_p/` URLs | `internal/server/params.go` | the same | `handleParams` | signature check, option parser, S3 client, resizer |
| Key layout | `server.go:629-751`, `params.go:183-263` | none | `getNormalizedKey`, `splitOutputFormat`, `originCandidateKeys`, `parseSourceTail`, `paramCacheKey` | called by both request paths |
| Worker | `server.go:488-627`, `internal/worker/worker.go` | per batch: image, row, format, bytes; per process: default sizes | `handleWorkerTrigger`, `ProcessBatch`, `processOutput` | S3 client, resizer |
| Processing options | `internal/procopts` | none | `Parse`, `Canonical`, `Validate` | called by `handleParams` |
| Resizer | `internal/resizer` | libvips, process-wide | `Resize` | called by request path and worker |
| Access log | `internal/accesslog` | timings of one request, behind a mutex | middleware, `Timings`, log line | wraps the request path |
| URL signing | `internal/urlsign` | none | `Verify` | called by `handleParams` |
| Start-up | `cmd/image-proxy/main.go` | environment | chooses clients by `CACHE_MODE`, gives the fallback client to the origin client only; a panic of a batch ends the process with every request in it | builds all of the above |
| Catalogue system | not in the repository | the originals | publishes and replaces originals in the origin bucket at any time | the origin bucket |

Requests and batches are goroutines that share the buckets and nothing else. S3
gives them no transaction: a request makes one S3 request after another and anything
may happen between two of them. What makes the code hard to test follows from
that, and from what a URL may ask for:

- **Interleaving.** Two misses of one key render it twice and write both buckets
  in opposite orders; a copy-back from the fallback bucket runs against a
  publication; a batch and a request fill the same keys, and not always alike.
- **Failure.** Reads fail open (any error is a miss), a failed candidate read
  moves on to the next candidate, failed writes are logged and forgotten.
- **Crash and redeployment.** Nothing is journaled: a process that stops between
  the two writes leaves one bucket with the variant. A restart may change
  `CACHE_MODE` and so the reader, the writers and their order.
- **Keys.** The raw URL path is read as a bucket key before the URL is
  understood. Whether that is right depends on nothing else ever being stored
  under that key, by any route, the worker, the migration or the catalogue.
- **Spellings.** A list of options has many spellings (aliases, compound options,
  order, defaults written down) and one key.
- **Arithmetic.** A size passes through up to five stages, each of which rounds,
  on images of any ratio and with offsets of any size and sign.

Correctness, per part: the S3 client is one map read at one instant although a
`Get` is four requests; the request path files and serves only what a key or URL
stands for, finds an original that is there unless a call failed, uses the best
candidate, leaves both buckets filled, and always answers; keys determine
renderings and stay apart from originals; a batch leaves nothing out, rewrites
nothing it was shown, and always ends; the resizer gives the size and ratio asked
for and cuts nothing out of thin air; nothing runs for an unsigned request; a log
line accounts for the work done. The hazards behind each are listed in
`PROJECT.json`, at their lines.

## 2. The modules

| Module | Models | Notes |
|---|---|---|
| `MergedStore` | what an S3 client promises | abstract: one map per client, a read takes its value at one instant |
| `S3Store` | `s3.go`, the buckets, the catalogue | one action per HTTP request to S3; refines `MergedStore` |
| `Deployment` | wiring by cache mode, calls a goroutine opens | extends `S3Store` |
| `ProxyServer` | `server.go`, `params.go` request path | extends `Deployment` |
| `BatchWorker` | worker trigger and worker | extends `Deployment` |
| `ImageProxy` | the process: requests and batches side by side | instantiates the two above over one store |
| `AccessLog` | middleware, timings, log line | extends `ProxyServer`; each step of a handler also records its phase |
| `ProcOpts` | options: parsing, validation, canonical form | pure |
| `ParamRoute` | what `handleParams` reads out of a URL, its gates | extends `ProcOpts`, pure |
| `UrlKeys`, `UrlPairs` | key functions, what they owe any two URLs, any two spellings, and a URL and a batch | extend `ParamRoute` |
| `UrlSign` | signing configuration, `Verify` | pure |
| `Geometry` | size arithmetic of the resizer, thumbnails of libvips | pure |
| `Resizer` | one rendering from the gates through every stage of either pipeline | extends `ParamRoute`, `UrlSign`, `Geometry` |
| `S3StoreProofs`, `ProxyServerProofs`, `AccessLogProofs`, `BatchWorkerProofs`, `ImageProxyProofs`, `ProcOptsProofs`, `UrlPairsProofs`, `ResizerProofs` | theorems | TLAPS, section 4 |
| `MCS3Store`, `MCProxyImages`, `MCProxyRoutes`, `MCProxyFile`, `MCBatchWorker`, `MCImageProxy`, `MCUrlPairs`, `MCResizer`, `MCTokens` | instances for TLC | `MCTokens`: what number and colour tokens spell |

**State.** `bucket[b][k]` is the object in bucket `b` under key `k`. An object is
what its bytes are made of: the key an original was published under, its version,
and the options it was rendered with (`AsIs`: none). `catalog` counts
publications, `faults` failed S3 requests. `call[p]` is the one S3 client call
goroutine `p` has open (a `Get` on its way through primary, fallback, stripped
key and copy-back). `req[p]` and `job[p]` are the locals of `ServeHTTP` and
`ProcessBatch`; `mode` is `CACHE_MODE`; `sizes` is `Worker.sizes`; `down` says that a
panic has ended the process. `AccessLog` adds `timings[p]`, how often each phase of
the request of `p` was recorded. `ImageProxy` has all of these at once. `Resizer`
follows one rendering: its request or legacy job, the `stage` it is at, the `image`
at that stage (sides, transparency), and two history variables, `placed` (the last
area cut or image placed) and `box` (the size last given to libvips).

**Actions.** An action of a request or batch is the code between the answer of
one S3 call and the start of the next. That is the right grain: the code between
touches nothing another goroutine can see. The S3 requests in between are
actions of `S3Store`. Each lookup may fail (`LookupFails`), each write may fail
before or after it was applied (`PutFails`, `CopyBackFails`). A failure stands for
network errors, S3 errors and a cancelled request context; all are treated alike
by the code. The ghost fields `had`, `kept` and `clean` remember what existed as
a request or batch began (the originals it may use, and what it is to make) and
whether any of its calls failed; no action reads them.

**Composition.** `ImageProxy` instantiates `ProxyServer` and `BatchWorker` over one
`bucket`, `call` and `mode`; its actions are theirs, with the other side unchanged,
but for a panic of a batch, which ends the requests too. Either side finds in the
buckets what the other made: `Prepared[k]` is what batches may have stored under
`k`, a constant of `ProxyServer`, and `Filed[k]` what requests may have stored, a
constant of `BatchWorker`. Both are empty where a side runs alone; in `ImageProxy`
`SharingAssumption` gives each the other's definition. `AccessLog` conjoins each
step of a handler with what it records; `LoggingIsTransparent` proves that it only
watches.

**URLs.** To `ProxyServer` a URL is a record of what the pure functions make of
it (shape, raw key, normalized key, candidates, options, flaws). `ProcOpts`,
`ParamRoute` and `UrlKeys` have those functions as such, over path segments. The
link between the two is `LayoutAssumption`: the facts about keys that the server
relies on, which `UrlPairs` states of the functions (`KeyDeterminesRendering`,
`RawHitIsRight`, `RenderingsApartFromOriginals`; proved in `UrlPairsProofs`) and TLC checks
of every instance.
`PreparedAssumption` and `AgreementAssumption` are the same for URLs and the outputs of
batches, behind which stands `BatchKeysAgree`. A batch keeps every page of an animation
(`IsAnimated`), a request the first: `AllPages` gives for the rendering a request makes the
one a batch would make, and the properties that compare the two say so.

**Options.** A `/_p/` URL is a sequence of segments, a segment a name with its
arguments. `Parse`, `Validate` and `Canonical` are functions of that sequence, one
operator per option, with every alias, compound option and argument. What a token
spells as a number or a colour is given by tables (`Number`, `Decimal`, `Hex`,
`Alnum`, in `MCTokens`), so that no string is taken apart. `Canonical` is the
set of the fields that differ from their default, each with its value; the code
writes the same set in an order of its own.

**Arithmetic.** Where the code rounds a `float64` whose exact value may lie half
way between two integers, both results are possible in the model (`Nearest`);
where it truncates, a quotient that is a whole number and whose operands are not
exact in binary may come out one too small (`Truncated`). The sets the operators
of `Geometry` return are these outcomes.

**Triggers.** To `BatchWorker` a trigger is its JSON envelope with sizes as rows
of integers, since a row's length is what the code stumbles over. `Malformed`
joins the checks that answer 400; they differ only in wording.

## 3. The runs

| Run | Instance | Shows |
|---|---|---|
| `store` | 2 goroutines, a tenant key and the key it strips to, 1 publication, 1 fault, crashes | `ImplementsMergedStore`: the lookup chain with its copy-back is one map read at one instant, or puts an older object back in the way `MergedStore` admits |
| `images` | 2 logged requests, one image in two layouts, all modes, restarts, 1 fault | the inductive invariant; a clean 404 is true; a clean request renders the best original; a clean miss fills both buckets; what the reader already shows is not made again; the log line accounts for every phase and the `Server-Timing` header for what was done before the body |
| `routes` | 1 logged request slot, a URL of every shape but folder URLs, with all gates, live mode, fallback bucket, 1 fault, fairness | every handler and error path; migration never reaches the cache; every request leaves its work in the log; every request ends |
| `url_pairs` | all pairs of URLs over a few values per segment; 20 option lists and every other way to write each; every output of a batch in these sizes | what the key functions owe the request path; equivalent spellings share a key, different images do not; a URL that leads to the key of an output asks for the first page of that output, but for version 1 and the size 0x0 |
| `batches` | 2 batches, 2 images with one file name, off and live, 1 fault, short row in `SIZES` | the inductive invariant; outputs are what their keys say; a clean batch leaves nothing out and rewrites nothing it was shown |
| `image_proxy` | 1 request slot and 1 batch slot on one image, live mode, 1 fault, panics, restarts, fairness | requests and batches agree on what a key stands for; a clean batch covers its outputs against requests too; a prepared rendering is the one made on demand, with every page, but for version 1 and the size 0x0; everything ends |
| `resizer` | 5 images (one 1×49), 498 option lists in two formats, 20 legacy sizes in every fit, 7 signing configurations, `MAX_DIMENSION` 255 | nothing runs unsigned; size, ratio, place and transparency are as asked through both pipelines |

Five runs look for a violation of what a document or comment says, and find it:

| Run | Says | Does |
|---|---|---|
| `file_write_back` | "The proxy never writes originals" (`draft/architecture.md`) | `handleFile` writes the bytes it read back under the original's own key and can undo a publication |
| `origin_copy` | the origin "retains a full copy of every resized variant" (track spec) | live mode writes the cache first; a crash or failed write in between is never made good |
| `not_found` | 404 means the original is missing (`README.md`) | 404 also when the last read failed |
| `rerun` | "every output is dual-written", "re-running the trigger is the retry mechanism" | skip-existing asks the cache only: what the origin missed once it misses for good |
| `batch_fatal` | "there is no batch-level fatal error" (`worker.go`) | a row of `SIZES` without a height panics in an unrecovered goroutine |

Observations without a run:

- `README.md` says the 202 "is observable before the batch starts", but
  `handleWorkerTrigger` starts the goroutine before it writes the header.
- `main.go` says it uses the default sizes after a type error in `SIZES`, but
  `json.Unmarshal` keeps the rows it has decoded.
- A batch renders version 1 with `contain`, a request with `cover`, and the size 0x0
  as it is where a request makes it 5120 wide; whoever comes first decides.
  `PreparedLooksOnDemand` makes these its exceptions (`Differs`).
- A batch keeps the pages of an animation (`IsAnimated`), a request the first one
  only, under the same key. `BatchKeysAgree` and `PreparedLooksOnDemand` say how the two
  differ (`pages`, `AllPages`).
- A resize URL without its version is never looked up under the key its rendering is
  stored under: every request for it renders and writes again. `StoredIsNotRemade`
  makes these its exception (`NeverLookedUp`).
- `README.md:193` says of `skip_processing` that it serves untouched "when the source
  extension matches", `docs/signed-urls.md:285` "when the output extension matches".
  The code compares the output format; so does `Passthrough`.
- Some lists that give one image have two keys (`fill` without `enlarge` against
  `fill-down`, a gravity nothing uses, `-0`): a variant is then stored twice.
- The contain arithmetic of the legacy pipeline truncates: a 1×49 image in a box of
  height 49 may get a width of 0, and the answer is 500. `BoxesHaveSides` says
  when this can happen.
- `MAX_DIMENSION` bounds the sides asked for, not a side derived from the ratio.
- A handler that panics leaves no log line.

**Bounds.** `MaxVersion` (publications of one original), `MaxFaults` (failed S3
requests), the sets of keys, URLs, triggers, and the number of goroutines. Two
goroutines are enough for every race listed, since each is between one reader or
writer and one other; one version more than "none" tells old from new; one fault
separates clean from hurt requests, and together with a restart gives each
partial failure of a dual write. `Procs` is a symmetry set in the runs without
liveness. `images`, with two requests, leaves the fallback bucket out because
`store` has its interleavings. `image_proxy` runs in live mode only: it is the
mode in which readers and writers use different buckets in different orders. In
`resizer` the sides are small so that every rounding of a side by one is seen; the
boxes include each orientation, one side left open, larger and smaller than the
image, and the proofs of section 4 cover the rest. `CHECK_DEADLOCK` is
off in `resizer`, where a rendering ends, and in `url_pairs`, where a URL may
have no other spelling; elsewhere a request slot, a batch slot or a restart can
always go on.

**Fairness.** Weak fairness of `Continue(p)` (`Serve(p)` and `Work(p)` in
`ImageProxy`): a goroutine that can run is scheduled by the Go runtime. Weak
fairness of `S3Step(p)`: the AWS SDK returns from every request, with an error if
need be. No fairness for new requests, publications, faults or restarts; a
restart ends what was in flight.

## 4. What is proved

For every value of the constants that meets the named assumptions, all of which
TLC evaluates in the runs:

| Module | From | Theorems |
|---|---|---|
| `S3StoreProofs` | `StoreAssumption` | `StoreTypes`; `StoreRefines`: `StoreSpec => ImplementsMergedStore` |
| `ProxyServerProofs` | + `ModesAssumption`, `UrlAssumption`, `LayoutAssumption`, `PreparedAssumption` | `InductiveInvariant` (`IInv`), `TypeCorrect`, `StoredHonestly`, `ServedHonestly`, `CacheStaysClean`; `CleanInvariant`, `NotFoundTruly`, `RendersBest`, `MissPopulates`, `NothingRemade` |
| `AccessLogProofs` | the same | `LoggingIsTransparent`: `LoggedSpec => Spec`; `LogInvariant`, `LogCovers`, `HeaderTells` |
| `BatchWorkerProofs` | `StoreAssumption`, `ModesAssumption`, `WorkerAssumption`, `FiledAssumption` | `WorkerInvariant`, `WorkerTypeCorrect`, `ThumbsHonestly`; `BatchCleanInvariant`, `BatchCovers`, `ExistingSkipped` |
| `ImageProxyProofs` | all of the above, `HandlersAssumption`, `SharingAssumption`, `AgreementAssumption` | `BothInvariant`, `JointInvariant`, `WritersAgree`, `PreparedLooksSame`, `BatchCoversBeside`, `CleanAnswersBeside`, `ExistingSkippedBeside` |
| `ProcOptsProofs` | `TokenAssumption` | `ParsedIsTyped`: whatever list of options parses, each field is in its range; what a list of segments makes of options, as the composition of what each segment overrides |
| `UrlPairsProofs` | + `UrlAssumption` of `UrlKeys` | `UrlsStayUrls`, `OneKeyOneRendering`, `RawHitsAreRight`, `SpellingsMeet`, `LaddersAreComplete`, `RenderingsAreApart`, `BatchesAgree`: every property of the run `url_pairs` |
| `ResizerProofs` | `TokenAssumption`, `ResizerAssumption`, `HexAssumption` | what each operator of `Geometry` returns and bounds; `ResizerInvariant`, `ResizerTypes` and one theorem for each invariant of the run `resizer` |

*The store.* `StoreInv` adds to the types what a call has found out at each point:
past its primary bucket it is one that may fall back, at the stripped key it has
missed the full one, and a copy-back carries what the fallback bucket holds. Each step of
`S3Store` then maps to a step of `MergedStore` or to a stutter: a read takes its
value when it is found or is left to the fallback bucket, and a copy-back is the
late answer (`ReadLater`) that may put that value back over a newer one.

*What is stored.* `StoredIsHonest` says what lies in the buckets. It is not
inductive: a `Put` stores whatever its call carries, and a call carries whatever
the request held. `IInv` therefore adds what a call in flight may carry or bring
back (`CallOK`), what a request waits for or holds at each point (`ReqOK`), and
that the fallback bucket holds only originals (`LegacyIsOriginal`), since a
copy-back moves them. `CallOK` also says that only the origin client ever gets past
its primary bucket, which `CacheHoldsNoImageOriginal` needs. `LayoutAssumption` is
used where a rendering is read as if it were an original, or under another URL's
raw key: it says this cannot be. `WorkerInv` is the same for batches: what a batch
holds is the original of the image it is at and the rendering of the output it is
at (`JobOK`), and it is always at an image, a row and a format of its own trigger
(`PlaceOK`), so that no index runs past a list. `WorkerAssumption` keeps the keys of
thumbnails apart from those of originals; `handleWorkerTrigger` does not check it:
an entry of `images` may be any key, a thumbnail's included, and the proofs say
nothing of such triggers. Nor do they of a trigger that names the copy of a file
that `handleFile` has filed under the key of a group (`FiledAssumption`).

*What a clean request or batch owes.* These rest on one fact: nothing that is stored
ever goes away (`Grows`), so what existed as a request began still does. `CleanInv`
says of each point of a handler that none of the candidates behind it existed
(`InOrder`), that the lookup under way will not miss what existed: once past the
primary bucket, the object is in the fallback bucket (`SearchOK`), and where its
writes have arrived (`WritesOK`). `KeptOK` says the same of the lookups of what the
request is to make: a request past them either found nothing there as it arrived or
has a URL that is never looked up. `BatchCleanInv` says the same of a batch, and that all outputs up to the
one it is at are there (`PartCovered`), those of earlier images included, whoever
wrote them.

*Requests beside batches.* `BothInv` joins the invariants of the two sides, says that a
slot is of one side only and that a process that is down runs no batch. A step of one
side keeps that side's invariants because it is a step of its own specification, and
so are the steps of the store and of the catalogue, for both. What remains is a step
of the other side: it changes no bucket, only the call of a slot this side does not
use (`RequestMoves`, `BatchMoves`), and that call must be in order for this side, too.
It is (`SameBelongs`, `RequestCall`, `BatchCall`): with `Prepared` and `Filed` for each
other, both sides mean the same by what belongs under a key. A call just opened has
not been answered, so what clean requests and batches know is not disturbed
(`OtherCallClean`). A panic is to the requests a restart in the same mode. The first
half of `ImageProxyProofs` is bookkeeping: the instances of `ProxyServer` in
`ImageProxy` and in its proofs are one formula under two names.

*The log.* `LogInv` relates the counts in `timings` to the point a handler is at.

*The resizer.* `ResizerInv` says what the size, ratio and transparency of the image
already are at each stage and that each later stage keeps it: a pad never exceeds
a requested side because what reaches it fits, an extended image is exactly the
box so that the ratio pass adds nothing to it. The arithmetic is in
the first part of `ResizerProofs`, multiplied out so that the solver sees products of sides.
`ResizerAssumption` types the images, the jobs and the segments of the requests;
that what the segments parse to is an option record is `ParsedIsTyped`.

*The options.* `ParseOptions` folds a list of segments, and a compound option folds its
fields. Both folds are recursive functions over `0 .. n`. `UpTo` gives induction up to a
number: the set of the numbers for which a claim fails would have a least element
(`NatLessThanWellFounded`, `WFMin`), which needs no operator for a parameter. From it
follow what the functions compute (`AfterDef`) and what a list does: a segment, if it
parses at all, overrides some fields with values that do not depend on the options so
far (`Acts`), so does a list of them (`RunActs`), and two that touch different fields
commute (`ActsCommute`). `SpellingsMeet` is built on this: an alias acts as its long name,
a compound option as its atoms in turn, neighbours that touch different fields may
swap, and a default that comes first sets what was there or what the canonical form
and the resizer read as that. Each step respells a list of `OptionLists`; as these are
any lists that parse, respellings of respellings are covered by larger sets.

*The keys.* The inductive invariant is `IsUrl(url)`: the URL is of one of the five families, its
parts are from the sets its expression allows, and its options parse. Membership of
`UrlSpace` would not do, since a respelled URL need not have a list of
`OptionLists`. Two keys are equal only if their directories are equal piece by piece, and the
proofs take them apart by their pieces (`SixPieces`, `StoredLegacy`, `StoredParam`): a stored
key tells its family (`FamilyOf`), its client (`TenantTells`) and everything its
rendering depends on (`OneKeyOneImage`), for options because the canonical form
determines what the resizer makes of them (`CanonicalDeterminesApplied`). `UrlAssumption` states what
the regular expressions and `parseSourceTail` let through: a client can be read off
a tenant and a tenant is never `_p`, a version is none of the words of the layouts, a
name is not empty, and option lists parse. The ladder of originals
is a fold that drops repetitions; `KeepAll` says that it keeps one of each in the order of first
appearance, `TriedPaired` that the names come in pairs of layouts. `TokenAssumption`
besides types says that nothing spells no number and that `0` spells zero,
as `strconv` has it.

A key is here a list of segments and not the string they are joined to, and a name a list of its
parts: that joining with `/` and `.` loses nothing is by the regular expressions, whose
segments contain no `/`.

*Only model-checked:* liveness (`RequestEnds`, `EverythingEnds`), which rests on fairness, and the
instances of the assumptions in the runs: that the key layout of the request path
(`LayoutAssumption`, `PreparedAssumption`, `AgreementAssumption`) is what `UrlKeys` computes is
stated by the theorems of `UrlPairsProofs` about the functions and by TLC about each instance;
the two descriptions of a URL, by its parts and by what the functions make of them, are not
one formula, so the step from one to the other is by inspection. *Out of the prover's reach:*
liveness under fairness and `ENABLED`, and the library's induction theorems with an operator for a
parameter, which the proofs of folds avoid in the way described above.

## 5. What is not modelled, and why

- libvips: decoding, encoding and pixels. A call of it gives an image of the size it
  documents, or fails. EXIF orientation is left out: libvips turns an image inside the
  thumbnail call, after `applyLegacy` and `applyProcessing` have read its sides and computed
  the box from them, and how it does so is not in this repository. The pages of an
  animation are chosen at decoding; `Resizer` starts from the decoded image.
- A version that no `/` follows, or a `/` without a version (`7/3images/...`, `7//images/...`):
  the expressions admit both, `RawKey` has the usual form only. No stored key has such
  segments, so nothing is found under theirs.
- The HMAC: a signature is the pair of a verifier and a path, and no other path has
  it.
- Durations, client addresses and correlation identifiers of the access log; HTTP
  headers other than `Server-Timing` and the reader override; bodies of error
  responses; content types: no property depends on them.
- Environment parsing and the listener in `main.go`, except for the cache mode, the
  fallback client, `SIZES`, the signing configuration and `MAX_DIMENSION`.
- `forceOverwrite` is false in every construction of the worker and left out.
- Renderings present before the first deployment: the buckets start with
  originals in the fallback bucket only.
- A renderer that returns different bytes for the same input: an object is
  identified by what it is made from.
- Two tenants whose keys strip to one legacy key: `LayoutAssumption` excludes the
  layouts in which a stripped key is another original's key (see the hazards).

## 6. Plan

Done, in this order: `S3Store` refining `MergedStore`; `ProxyServer` over it, with
the key layout it assumes; `ProxyServerProofs`; `BatchWorker` and its proofs; the
options (`ProcOpts`, `ParamRoute`); `Geometry` and `Resizer`; `UrlSign`; `AccessLog`;
`ImageProxy`; the proofs of the refinement, of what clean requests and batches owe,
of the log and of the resizer; the composition, from the invariants of its parts; the
proofs about options and keys.

Left:

1. A layout with two tenants over one fallback bucket, with a statement of what may
   be copied from one to the other.
2. EXIF orientation in `Resizer`, for images stored on their side.
3. `LayoutAssumption` of an instance of `ProxyServer` whose URLs are those of `UrlKeys`,
   as a theorem.
