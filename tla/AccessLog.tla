------------------------------ MODULE AccessLog ------------------------------
(***************************************************************************)
(* internal/accesslog around internal/server: what a request adds up under *)
(* each phase, the Server-Timing header it is answered with and the line   *)
(* it leaves in the log.  How long a phase takes is not modelled, only how *)
(* often it was timed.  No handler does timed work after its first write,  *)
(* so header and line are read off the same state.                         *)
(***************************************************************************)
EXTENDS ProxyServer

VARIABLE timings    \* timings[p][f]: how often phase f of p's request was recorded

loggedVars == <<vars, timings>>

Phases == {"s3-get", "resize", "s3-put", "s3-put-origin", "s3-put-cache"}

NewTimings == [f \in Phases |-> 0]

\* What p has been timing since its last step: every S3 call and the resizer.
Phase(p) ==
    CASE req[p].pc = "resize" -> "resize"
      [] req[p].pc = "put" -> IF mode = "off" THEN "s3-put"
                              ELSE IF PutTargets[req[p].put] = "origin" THEN "s3-put-origin"
                              ELSE "s3-put-cache"
      [] OTHER -> "s3-get"

\* Mutant: a phase is recorded only when its call succeeds.
TrackIfGot(p) ==
    timings' = [timings EXCEPT ![p][Phase(p)] = @ + IF req[p].pc # "resize" /\ ~ Got(p) THEN 0 ELSE 1]

\* Recorded whether the call has succeeded or not.
Track(p) == timings' = [timings EXCEPT ![p][Phase(p)] = @ + 1]

\* Mutant: the timings of the request before are used again.
LoggedStartReuses(p) == Start(p) /\ UNCHANGED timings

\* The middleware gives a request its own timings before the handler runs.
LoggedStart(p) == Start(p) /\ timings' = [timings EXCEPT ![p] = NewTimings]

LoggedContinue(p) == Continue(p) /\ Track(p)

\* A process that dies logs nothing of the requests it was serving.
LoggedRestart ==
    /\ \E m \in Modes : Restart(m)
    /\ timings' = [p \in Procs |-> NewTimings]

StoreMoves ==
    \/ \E p \in Procs : S3Step(p) /\ UNCHANGED <<req, mode>>
    \/ \E k \in CatalogKeys : Publish(k) /\ UNCHANGED <<req, mode>>

LoggedInit == Init /\ timings = [p \in Procs |-> NewTimings]

LoggedNext ==
    \/ \E p \in Procs : LoggedStart(p) \/ LoggedContinue(p)
    \/ StoreMoves /\ UNCHANGED timings
    \/ LoggedRestart

LoggedSpec == LoggedInit /\ [][LoggedNext]_loggedVars

\* The fairness of ProxyServer, of the same steps as they are logged.
LoggedFairness ==
    \A p \in Procs :
      /\ WF_loggedVars(LoggedContinue(p))
      /\ WF_loggedVars(S3Step(p) /\ UNCHANGED <<req, mode, timings>>)

LoggedFairSpec == LoggedSpec /\ LoggedFairness

-----------------------------------------------------------------------------
(* What leaves the process once the handler has returned                   *)

\* The phases named in the Server-Timing header, which the first write fixes.
ServerTimingHeader(p) == {f \in Phases : timings[p][f] > 0}

\* The line in the log.
Entry(p) == [status |-> req[p].status, timings |-> timings[p]]

\* The lookups of a rendering that come before the search for an original.
Lookups(u) ==
    IF u.pass THEN 0 ELSE IF u.shape = "folder" /\ u.norm # u.raw THEN 2 ELSE 1

\* The line of a request that was not answered by a lookup accounts for all its
\* work, failed attempts included: each lookup, each place the original was looked
\* for up to the one it used (every one of them before a 404), the rendering, and
\* every write (Timings.Track, Server.time, Middleware).
LogCoversWork ==
    \A p \in Procs :
      LET r == req[p]  u == r.url  t == Entry(p).timings IN
      /\ r.pc = "done"
      /\ u.shape \notin {"noext", "other"} /\ u.flaws = {}
      /\ r.fresh \/ Entry(p).status # 200
      =>
        /\ t["s3-get"] = Lookups(u) + IF Entry(p).status = 404 THEN Len(u.cands) ELSE r.idx
        /\ t["resize"] = IF u.shape = "file" \/ Entry(p).status = 404 THEN 0 ELSE 1
        /\ t["s3-put"] + t["s3-put-origin"] + t["s3-put-cache"]
             = IF r.fresh THEN Len(PutTargets) ELSE 0

\* A client of a fresh rendering sees in the header which buckets it was written
\* to, and no header names a write of an answer that was only read
\* (responseRecorder.WriteHeader, Server.putBoth).
HeaderTellsWrites ==
    \A p \in Procs :
      req[p].pc = "done" =>
        ServerTimingHeader(p) \intersect {"s3-put", "s3-put-origin", "s3-put-cache"}
          = IF ~ req[p].fresh THEN {}
            ELSE IF mode = "off" THEN {"s3-put"} ELSE {"s3-put-origin", "s3-put-cache"}
==============================================================================
