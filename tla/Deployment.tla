------------------------------ MODULE Deployment ------------------------------
(***************************************************************************)
(* cmd/image-proxy/main.go, internal/server/server.go: the clients a       *)
(* process is started with, and the calls its goroutines open on them.     *)
(***************************************************************************)
EXTENDS S3Store

CONSTANTS
    Modes,          \* CACHE_MODE values a deployment goes through
    Rerendered      \* what rendering something already rendered yields

ASSUME ModesAssumption ==
    /\ Modes \subseteq {"off", "shadow", "live"} /\ Modes # {}
    /\ Rerendered \in Options

VARIABLE mode       \* CACHE_MODE of the running process

\* In off mode the cache client is the origin client (main.go).
CacheClient == IF mode = "off" THEN "origin" ELSE "cache"

\* The resizer: rendering a rendering gives neither what its key promises.
Render(o, opts) == [o EXCEPT !.opts = IF o.opts = AsIs THEN opts ELSE Rerendered]

Get(p, client, k) == call' = [call EXCEPT ![p] = Call("get", client, k, Absent)]

Exists(p, client, k) == call' = [call EXCEPT ![p] = Call("exists", client, k, Absent)]

PutObject(p, client, k, data) == call' = [call EXCEPT ![p] = Call("put", client, k, data)]

HangUp(p) == call' = [call EXCEPT ![p] = NoCall]

Returned(p) == call[p].at = "returned"

Got(p) == call[p].res = "ok"

\* A goroutine moves on between two of its S3 requests.
StoreUnchanged == UNCHANGED <<bucket, catalog, faults, mode>>
==============================================================================
