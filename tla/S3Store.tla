------------------------------- MODULE S3Store -------------------------------
(***************************************************************************)
(* internal/s3/s3.go: the S3 client, and the buckets it talks to.          *)
(*                                                                         *)
(* A goroutine has at most one client call open (every caller is           *)
(* sequential).  One action is one HTTP request of the client to the       *)
(* store, which the store serves atomically; a Get of the origin client    *)
(* can take up to four of them (primary, fallback, fallback under the      *)
(* stripped key, copy-back), and other goroutines run in between.          *)
(*                                                                         *)
(* An object is what its bytes are made of: the key an original was        *)
(* published under, its version there, and the options it was rendered     *)
(* with (AsIs: not at all).                                                *)
(***************************************************************************)
EXTENDS Naturals

CONSTANTS
    Procs,          \* goroutines that call the client
    Keys,           \* object keys
    CatalogKeys,    \* keys at which the catalogue system publishes originals
    LegacyKeys,     \* keys at which the fallback bucket may hold an original
    NoKey,          \* not a key: what a key without a "/" strips to
    Strip,          \* Strip[k]: the key without its first segment, or NoKey
    Options,        \* rendering options
    AsIs,           \* not rendering options: the bytes of an original, untouched
    Absent,         \* no object
    Writable,       \* bound: objects the callers of the standalone store put
    HasFallback,    \* is OLD_S3_BUCKET configured and its client up
    MaxVersion,     \* bound: versions the catalogue publishes of one original
    MaxFaults       \* bound: S3 requests that fail in a behaviour

Buckets == {"origin", "cache", "fallback"}
Clients == {"origin", "cache"}

Object == [src : Keys, ver : 0 .. MaxVersion, opts : Options \union {AsIs}]

ASSUME StoreAssumption ==
    /\ CatalogKeys \subseteq Keys
    /\ LegacyKeys \subseteq Keys
    /\ NoKey \notin Keys
    /\ Strip \in [Keys -> Keys \union {NoKey}]
    /\ AsIs \notin Options
    /\ Absent \notin Object
    /\ Writable \subseteq Object
    /\ HasFallback \in BOOLEAN
    /\ MaxVersion \in Nat
    /\ MaxFaults \in Nat

VARIABLES
    bucket,     \* bucket[b][k]: the object bucket b stores under key k
    catalog,    \* catalog[k]: the last version published of original k, 0 if none
    call,       \* call[p]: the client call goroutine p has open, and its answer
    faults      \* S3 requests that have failed

storeVars == <<bucket, catalog, call, faults>>

-----------------------------------------------------------------------------
Original(k, v) == [src |-> k, ver |-> v, opts |-> AsIs]

NoCall == [op |-> "none", client |-> "origin", key |-> NoKey,
           at |-> "idle", data |-> Absent, res |-> "none"]

Call(op, client, k, data) ==
    [op |-> op, client |-> client, key |-> k,
     at |-> "primary", data |-> data, res |-> "none"]

Looking(p) == call[p].op \in {"get", "exists"}

\* Mutant: the cache client is given the fallback client too.
FallsBackAnyClient(client) == HasFallback

\* Only the origin client is given a fallback client (main.go).
FallsBack(client) == HasFallback /\ client = "origin"

\* Mutant: the result is taken for the state of the call.
ReturnSwapped(p, res, data) ==
    call' = [call EXCEPT ![p].at = res, ![p].res = "none", ![p].data = data]

\* The call of p has its answer.
Return(p, res, data) ==
    call' = [call EXCEPT ![p].at = "returned", ![p].res = res, ![p].data = data]

\* One S3 request is lost to an error other than "not found": the network, the
\* store, or the request context that was cancelled.
Fault == faults < MaxFaults /\ faults' = faults + 1

-----------------------------------------------------------------------------
(* Get and Exists                                                          *)

PrimaryHit(p) ==
    LET found == bucket[call[p].client][call[p].key] IN
    /\ Looking(p) /\ call[p].at = "primary"
    /\ found # Absent
    /\ Return(p, "ok", IF call[p].op = "get" THEN found ELSE Absent)
    /\ UNCHANGED <<bucket, catalog, faults>>

PrimaryMiss(p) ==
    /\ Looking(p) /\ call[p].at = "primary"
    /\ bucket[call[p].client][call[p].key] = Absent
    /\ IF FallsBack(call[p].client)
         THEN call' = [call EXCEPT ![p].at = "fallback"]
         ELSE Return(p, "notfound", Absent)
    /\ UNCHANGED <<bucket, catalog, faults>>

\* The key the fallback bucket is asked for.
FallbackKey(c) == IF c.at = "stripped" THEN Strip[c.key] ELSE c.key

\* A hit of a Get goes on to the copy-back; Exists has its answer.
FallbackHit(p) ==
    LET found == bucket["fallback"][FallbackKey(call[p])] IN
    /\ Looking(p) /\ call[p].at \in {"fallback", "stripped"}
    /\ found # Absent
    /\ IF call[p].op = "get"
         THEN call' = [call EXCEPT ![p].at = "copyback", ![p].data = found]
         ELSE Return(p, "ok", Absent)
    /\ UNCHANGED <<bucket, catalog, faults>>

\* Mutant: the stripped key is never tried.
FallbackMissUnstripped(p) ==
    /\ Looking(p) /\ call[p].at \in {"fallback", "stripped"}
    /\ bucket["fallback"][FallbackKey(call[p])] = Absent
    /\ Return(p, "notfound", Absent)
    /\ UNCHANGED <<bucket, catalog, faults>>

\* A miss is tried once more under the stripped key, if the key has a "/".
FallbackMiss(p) ==
    /\ Looking(p) /\ call[p].at \in {"fallback", "stripped"}
    /\ bucket["fallback"][FallbackKey(call[p])] = Absent
    /\ IF call[p].at = "fallback" /\ Strip[call[p].key] # NoKey
         THEN call' = [call EXCEPT ![p].at = "stripped"]
         ELSE Return(p, "notfound", Absent)
    /\ UNCHANGED <<bucket, catalog, faults>>

\* Any of these lookups may fail; the error ends the call, the second fallback
\* key is then not tried.
LookupFails(p) ==
    /\ Looking(p) /\ call[p].at \in {"primary", "fallback", "stripped"}
    /\ Fault
    /\ Return(p, "error", Absent)
    /\ UNCHANGED <<bucket, catalog>>

Store(client, k, data) == bucket' = [bucket EXCEPT ![client][k] = data]

\* The object found in the fallback bucket is saved under the requested key.
CopyBack(p) ==
    /\ call[p].at = "copyback"
    /\ Store(call[p].client, call[p].key, call[p].data)
    /\ Return(p, "ok", call[p].data)
    /\ UNCHANGED <<catalog, faults>>

\* A copy-back that fails is only logged; it may have been applied all the same.
CopyBackFails(p) ==
    /\ call[p].at = "copyback"
    /\ Fault
    /\ \/ UNCHANGED bucket
       \/ Store(call[p].client, call[p].key, call[p].data)
    /\ Return(p, "ok", call[p].data)
    /\ UNCHANGED catalog

-----------------------------------------------------------------------------
(* Put                                                                     *)

Put(p) ==
    /\ call[p].op = "put" /\ call[p].at = "primary"
    /\ Store(call[p].client, call[p].key, call[p].data)
    /\ Return(p, "ok", Absent)
    /\ UNCHANGED <<catalog, faults>>

PutFails(p) ==
    /\ call[p].op = "put" /\ call[p].at = "primary"
    /\ Fault
    /\ \/ UNCHANGED bucket
       \/ Store(call[p].client, call[p].key, call[p].data)
    /\ Return(p, "error", Absent)
    /\ UNCHANGED catalog

S3Step(p) ==
    \/ PrimaryHit(p) \/ PrimaryMiss(p)
    \/ FallbackHit(p) \/ FallbackMiss(p) \/ LookupFails(p)
    \/ CopyBack(p) \/ CopyBackFails(p)
    \/ Put(p) \/ PutFails(p)

-----------------------------------------------------------------------------
(* The catalogue system: an out-of-tree service that publishes and         *)
(* replaces originals in the origin bucket at any time.                    *)

Publish(k) ==
    /\ k \in CatalogKeys
    /\ catalog[k] < MaxVersion
    /\ catalog' = [catalog EXCEPT ![k] = @ + 1]
    /\ Store("origin", k, Original(k, catalog[k] + 1))
    /\ UNCHANGED <<call, faults>>

-----------------------------------------------------------------------------
(* The store on its own, under callers that may do anything.               *)

NothingStored == [k \in Keys |-> Absent]

\* A first deployment: no rendering exists yet, the catalogue has published
\* nothing, and the fallback bucket keeps some originals of the old layout.
StoreInit ==
    /\ \E old \in SUBSET LegacyKeys :
         bucket = [b \in Buckets |->
                     IF b = "fallback"
                       THEN [k \in Keys |-> IF k \in old THEN Original(k, 0) ELSE Absent]
                       ELSE NothingStored]
    /\ catalog = [k \in Keys |-> 0]
    /\ call = [p \in Procs |-> NoCall]
    /\ faults = 0

Answered(p) == call[p].at \in {"idle", "returned"}

Invoke(p) ==
    /\ Answered(p)
    /\ \E client \in Clients, k \in Keys :
         \/ \E kind \in {"get", "exists"} :
              call' = [call EXCEPT ![p] = Call(kind, client, k, Absent)]
         \/ \E data \in Writable :
              call' = [call EXCEPT ![p] = Call("put", client, k, data)]
    /\ UNCHANGED <<bucket, catalog, faults>>

\* The process is killed: its calls are gone, the buckets stay.
Crash ==
    /\ call' = [p \in Procs |-> NoCall]
    /\ UNCHANGED <<bucket, catalog, faults>>

StoreNext ==
    \/ \E p \in Procs : Invoke(p) \/ S3Step(p)
    \/ \E k \in CatalogKeys : Publish(k)
    \/ Crash

StoreSpec == StoreInit /\ [][StoreNext]_storeVars

-----------------------------------------------------------------------------
(* Properties                                                              *)

Maybe == Object \union {Absent}

CallRecord == [op : {"none", "get", "exists", "put"},
               client : Clients,
               key : Keys \union {NoKey},
               at : {"idle", "primary", "fallback", "stripped", "copyback", "returned"},
               data : Maybe,
               res : {"none", "ok", "notfound", "error"}]

\* Every variable has its type.
StoreTypeOK ==
    /\ bucket \in [Buckets -> [Keys -> Maybe]]
    /\ catalog \in [Keys -> 0 .. MaxVersion]
    /\ call \in [Procs -> CallRecord]
    /\ faults \in 0 .. MaxFaults

\* What the fallback bucket answers for key k, under either spelling of it.
LegacyOf(k) ==
    IF bucket["fallback"][k] # Absent \/ Strip[k] = NoKey
      THEN bucket["fallback"][k]
      ELSE bucket["fallback"][Strip[k]]

LegacyView(c) == [k \in Keys |-> IF FallsBack(c) THEN LegacyOf(k) ELSE Absent]

View(c) == [k \in Keys |->
              IF bucket[c][k] # Absent THEN bucket[c][k] ELSE LegacyView(c)[k]]

Deciding == {"fallback", "stripped", "copyback"}

AbstractOp(p) ==
    [op     |-> call[p].op,
     client |-> call[p].client,
     key    |-> call[p].key,
     phase  |-> CASE call[p].at = "primary" -> "open"
                  [] call[p].at \in Deciding -> "decided"
                  [] OTHER -> call[p].at,
     data   |-> IF call[p].at \in Deciding
                  THEN LegacyView(call[p].client)[call[p].key] ELSE call[p].data,
     res    |-> call[p].res]

ShownViews == [c \in Clients |-> View(c)]

OlderViews == [c \in Clients |-> LegacyView(c)]

OpenOps == [p \in Procs |-> AbstractOp(p)]

Merged == INSTANCE MergedStore
            WITH Objects <- Object, view <- ShownViews, legacy <- OlderViews, op <- OpenOps

\* The chain of lookups, with whatever other calls run between two of them,
\* behaves as one map read at one instant: a Get or Exists never answers with
\* something the client did not show at some moment of the call, a copy-back
\* changes nothing a reader could tell (or reverts the key to the old object),
\* and the fallback bucket is never written (s3.go Get, Exists, Put).
ImplementsMergedStore == Merged!Spec
==============================================================================
