--------------------------- MODULE AccessLogProofs ---------------------------
(***************************************************************************)
(* Proofs about AccessLog: adding the log changes nothing of what the      *)
(* server does, so all that ProxyServerProofs shows holds of the logged    *)
(* server too, and the log accounts for the work of every request.         *)
(***************************************************************************)
EXTENDS AccessLog, ProxyServerProofs

-----------------------------------------------------------------------------
(* The logged server is a server.                                          *)

LEMMA LoggedStepIsStep ==
    [LoggedNext]_loggedVars => [Next]_vars
<1> SUFFICES ASSUME [LoggedNext]_loggedVars PROVE [Next]_vars
  OBVIOUS
<1>1. ASSUME NEW p \in Procs, LoggedStart(p) \/ LoggedContinue(p) PROVE Next
  BY <1>1 DEF LoggedStart, LoggedContinue, Next
<1>2. CASE StoreMoves
  BY <1>2 DEF StoreMoves, Next
<1>3. CASE LoggedRestart
  BY <1>3 DEF LoggedRestart, Next
<1>4. CASE UNCHANGED loggedVars
  BY <1>4 DEF loggedVars, vars
<1>5. QED
  BY <1>1, <1>2, <1>3, <1>4 DEF LoggedNext

\* Whatever the log records, the server behind it behaves as ProxyServer says
\* (Middleware, Server.time).
THEOREM LoggingIsTransparent == LoggedSpec => Spec
<1>1. LoggedInit => Init
  BY DEF LoggedInit
<1>2. QED
  BY <1>1, LoggedStepIsStep, PTL DEF LoggedSpec, Spec

-----------------------------------------------------------------------------
(* What has been recorded of a request, at each point of its way.          *)

Writes(m) == IF m = "off" THEN 1 ELSE 2

\* The first n writes of a dual write have been recorded, and no other.
Wrote(t, n, m) ==
    /\ t["s3-put"] = IF m = "off" THEN n ELSE 0
    /\ t["s3-put-origin"] = IF m = "off" \/ n = 0 THEN 0
                            ELSE IF m = "shadow" THEN 1 ELSE n - 1
    /\ t["s3-put-cache"] = IF m = "off" \/ n = 0 THEN 0
                           ELSE IF m = "shadow" THEN n - 1 ELSE 1

Written(r, m) ==
    IF r.pc = "put" THEN r.put - 1 ELSE IF r.pc = "done" /\ r.fresh THEN Writes(m) ELSE 0

\* LogCoversWork, of one request that is answered.
Covered(r, t) ==
    LET u == r.url IN
    /\ u.shape \notin {"noext", "other"} /\ u.flaws = {}
    /\ r.fresh \/ r.status # 200
    =>
      /\ t["s3-get"] = Lookups(u) + IF r.status = 404 THEN Len(u.cands) ELSE r.idx
      /\ t["resize"] = IF u.shape = "file" \/ r.status = 404 THEN 0 ELSE 1

LogOK(r, t, m) ==
    LET u == r.url IN
    /\ Wrote(t, Written(r, m), m)
    /\ r.pc = "put" => r.put <= Writes(m)
    /\ r.pc \in {"speculate", "file"} => r.idx = 1
    /\ r.pc \in {"speculate", "lookup"} => t["s3-get"] = 0
    /\ r.pc = "lookup" => u.shape = "param" /\ ~ u.pass
    /\ r.pc = "recheck" => t["s3-get"] = 1 /\ u.shape = "folder" /\ u.norm # u.raw
    /\ r.pc = "file" => t["s3-get"] = 1
    /\ r.pc = "candidate" => t["s3-get"] + 1 = Lookups(u) + r.idx
    /\ r.pc \in {"resize", "put"} => t["s3-get"] = Lookups(u) + r.idx
    /\ r.pc # "done" => t["resize"] = IF r.pc = "put" /\ u.shape # "file" THEN 1 ELSE 0
    /\ r.pc = "done" => Covered(r, t)

\* What the runs check follows from this, which survives every step.
LogInv ==
    /\ timings \in [Procs -> [Phases -> Nat]]
    /\ \A p \in Procs : LogOK(req[p], timings[p], mode)

LEMMA PhaseNames ==
    /\ Phases = {"s3-get", "resize", "s3-put", "s3-put-origin", "s3-put-cache"}
    /\ NewTimings \in [Phases -> Nat]
    /\ \A f \in Phases : NewTimings[f] = 0
BY DEF Phases, NewTimings

LEMMA TargetsByMode ==
    ASSUME IInv
    PROVE  /\ mode \in {"off", "shadow", "live"}
           /\ Len(PutTargets) = Writes(mode)
           /\ mode = "shadow" => PutTargets[1] = "origin" /\ PutTargets[2] = "cache"
           /\ mode = "live" => PutTargets[1] = "cache" /\ PutTargets[2] = "origin"
<1>1. mode \in {"off", "shadow", "live"}
  BY ModesAssumption DEF IInv, TypeOK
<1>2. QED
  BY <1>1 DEF PutTargets, Writes

\* A slot that has just been given a request, or has none.
LEMMA NothingWrote ==
    ASSUME NEW m
    PROVE  Wrote(NewTimings, 0, m)
BY PhaseNames DEF Wrote

LEMMA NewLog ==
    ASSUME NEW r \in RequestRecord, NEW m, ~ r.fresh, r.idx = 1,
           \/ r.pc \in {"idle", "speculate"}
           \/ r.pc = "lookup" /\ r.url.shape = "param" /\ ~ r.url.pass
           \/ r.pc = "candidate" /\ r.url.pass
           \/ r.pc = "done" /\ (r.url.shape = "noext" \/ r.url.flaws # {})
    PROVE  LogOK(r, NewTimings, m)
<1>1. NewTimings["s3-get"] = 0 /\ NewTimings["resize"] = 0
  BY PhaseNames
<1>2. Written(r, m) = 0
  BY DEF Written
<1>3. Wrote(NewTimings, Written(r, m), m)
  BY <1>2, NothingWrote
<1>4. r.pc = "candidate" => Lookups(r.url) = 0
  BY DEF Lookups
<1>5. QED
  BY <1>1, <1>3, <1>4 DEF LogOK, Covered

\* One more record of a phase.
LEMMA TrackOnce ==
    ASSUME LogInv, NEW p \in Procs, NEW f \in Phases, Phase(p) = f, Track(p)
    PROVE  /\ timings' = [timings EXCEPT ![p] = timings'[p]]
           /\ timings'[p] \in [Phases -> Nat]
           /\ timings'[p][f] = timings[p][f] + 1
           /\ \A g \in Phases \ {f} : timings'[p][g] = timings[p][g]
<1>1. timings \in [Procs -> [Phases -> Nat]] /\ timings[p] \in [Phases -> Nat]
  BY DEF LogInv
<1>2. timings' = [timings EXCEPT ![p] = [timings[p] EXCEPT ![f] = timings[p][f] + 1]]
  BY <1>1 DEF Track
<1>3. QED
  BY <1>1, <1>2

\* The log of the other requests stays as it is.
LEMMA LogFrame ==
    ASSUME IInv, LogInv, NEW p \in Procs, mode' = mode,
           req' = [req EXCEPT ![p] = req'[p]],
           timings' = [timings EXCEPT ![p] = timings'[p]],
           timings'[p] \in [Phases -> Nat],
           LogOK(req'[p], timings'[p], mode)
    PROVE  LogInv'
<1>1. req \in [Procs -> RequestRecord]
  BY DEF IInv, TypeOK
<1>2. timings' \in [Procs -> [Phases -> Nat]]
  BY DEF LogInv
<1>3. ASSUME NEW q \in Procs PROVE LogOK(req'[q], timings'[q], mode')
  <2>1. CASE q = p
    BY <2>1
  <2>2. CASE q # p
    <3>1. req'[q] = req[q] /\ timings'[q] = timings[q]
      BY <1>1, <2>2 DEF LogInv
    <3>2. QED
      BY <3>1 DEF LogInv
  <2>3. QED
    BY <2>1, <2>2
<1>4. QED
  BY <1>2, <1>3 DEF LogInv

LEMMA LogFacts ==
    ASSUME IInv, LogInv, NEW p \in Procs
    PROVE  /\ req \in [Procs -> RequestRecord] /\ req[p] \in RequestRecord
           /\ req[p].idx \in Nat /\ req[p].put \in Nat
           /\ timings \in [Procs -> [Phases -> Nat]] /\ timings[p] \in [Phases -> Nat]
           /\ LogOK(req[p], timings[p], mode) /\ ReqOK(req[p], call[p])
BY DEF IInv, TypeOK, LogInv, RequestRecord

-----------------------------------------------------------------------------
(* What a handler's step does to its request, as far as the log can tell.  *)

\* p's request is now at pc, for the i-th candidate, answered with status.
Becomes(p, pc, i, status, fresh) ==
    /\ req' = [req EXCEPT ![p] = req'[p]]
    /\ req'[p].pc = pc /\ req'[p].url = req[p].url /\ req'[p].idx = i
    /\ req'[p].status = status /\ req'[p].fresh = fresh

LEMMA RespondBecomes ==
    ASSUME IInv, LogInv, NEW p \in Procs, NEW status, NEW STATE o, NEW fresh,
           Respond(p, status, o, fresh)
    PROVE  Becomes(p, "done", req[p].idx, status, fresh)
BY LogFacts DEF Respond, Becomes, RequestRecord

LEMMA TryBecomes ==
    ASSUME IInv, LogInv, NEW p \in Procs, NEW STATE i, TryCandidate(p, i)
    PROVE  Becomes(p, "candidate", i, req[p].status, req[p].fresh)
BY LogFacts DEF TryCandidate, Becomes, RequestRecord

Reading == {"speculate", "recheck", "lookup", "candidate", "file"}

\* A read has returned and has been recorded.
LEMMA ReadRecorded ==
    ASSUME IInv, LogInv, NEW p \in Procs, req[p].pc \in Reading, Track(p)
    PROVE  /\ timings' = [timings EXCEPT ![p] = timings'[p]]
           /\ timings'[p] \in [Phases -> Nat]
           /\ timings'[p]["s3-get"] = timings[p]["s3-get"] + 1
           /\ timings'[p]["resize"] = 0
           /\ Wrote(timings'[p], 0, mode)
<1>1. Phase(p) = "s3-get" /\ "s3-get" \in Phases
  BY PhaseNames DEF Phase, Reading
<1>2. /\ timings' = [timings EXCEPT ![p] = timings'[p]]
      /\ timings'[p] \in [Phases -> Nat]
      /\ timings'[p]["s3-get"] = timings[p]["s3-get"] + 1
      /\ \A g \in Phases \ {"s3-get"} : timings'[p][g] = timings[p][g]
  BY <1>1, TrackOnce
<1>3. LogOK(req[p], timings[p], mode)
  BY LogFacts
<1>4. timings[p]["resize"] = 0 /\ Wrote(timings[p], 0, mode)
  BY <1>3 DEF LogOK, Written, Reading
<1>5. /\ timings'[p]["resize"] = timings[p]["resize"]
      /\ timings'[p]["s3-put"] = timings[p]["s3-put"]
      /\ timings'[p]["s3-put-origin"] = timings[p]["s3-put-origin"]
      /\ timings'[p]["s3-put-cache"] = timings[p]["s3-put-cache"]
  BY <1>2, PhaseNames
<1>6. Wrote(timings'[p], 0, mode)
  BY <1>4, <1>5 DEF Wrote
<1>7. QED
  BY <1>2, <1>4, <1>5, <1>6

LEMMA CacheHitLog ==
    ASSUME IInv, LogInv, NEW p \in Procs, CacheHit(p), Track(p)
    PROVE  LogInv'
<1>1. /\ req[p].pc \in Reading /\ mode' = mode
      /\ Becomes(p, "done", req[p].idx, 200, FALSE)
  BY RespondBecomes DEF CacheHit, Ready, Reading, StoreUnchanged
<1>2. LogOK(req'[p], timings'[p], mode)
  BY <1>1, ReadRecorded DEF LogOK, Covered, Written, Becomes
<1>3. QED
  BY <1>1, <1>2, ReadRecorded, LogFrame DEF Becomes

LEMMA MissLog ==
    ASSUME IInv, LogInv, NEW p \in Procs, req[p].pc \in Reading, mode' = mode, Track(p),
           NEW STATE i, i \in Nat \ {0}, TryCandidate(p, i),
           timings[p]["s3-get"] + 2 = Lookups(req[p].url) + i
    PROVE  LogInv'
<1>1. Becomes(p, "candidate", i, req[p].status, req[p].fresh)
  BY TryBecomes
<1>2. timings[p]["s3-get"] \in Nat
  BY LogFacts, PhaseNames
<1>3. timings'[p]["s3-get"] + 1 = Lookups(req[p].url) + i
  BY <1>2, ReadRecorded DEF Lookups
<1>4. LogOK(req'[p], timings'[p], mode)
  BY <1>1, <1>3, ReadRecorded DEF LogOK, Written, Becomes
<1>5. QED
  BY <1>1, <1>4, ReadRecorded, LogFrame DEF Becomes

LEMMA SpeculateMissLog ==
    ASSUME IInv, LogInv, NEW p \in Procs, SpeculateMiss(p), Track(p)
    PROVE  LogInv'
<1> DEFINE u == req[p].url
<1>1. /\ req[p].pc = "speculate" /\ req[p].pc \in Reading /\ mode' = mode
      /\ req[p].idx = 1 /\ timings[p]["s3-get"] = 0
      /\ u.shape \notin {"noext", "param"} /\ u \in Urls
  BY LogFacts DEF SpeculateMiss, Ready, StoreUnchanged, LogOK, ReqOK, Reading
<1>2. ~ u.pass
  BY <1>1, UrlAssumption
<1>3. CASE /\ u.shape = "resize" \/ (u.shape = "folder" /\ u.norm = u.raw)
           /\ TryCandidate(p, 1)
  <2>1. Lookups(u) = 1
    BY <1>2, <1>3 DEF Lookups
  <2>2. QED
    BY <1>1, <1>3, <2>1, MissLog
<1>4. CASE /\ u.shape = "folder" /\ u.norm # u.raw
           /\ req' = [req EXCEPT ![p] = [@ EXCEPT !.pc = "recheck", !.clean = StillClean(p)]]
  <2>1. Becomes(p, "recheck", 1, req[p].status, req[p].fresh)
    BY <1>1, <1>4, LogFacts DEF Becomes, RequestRecord
  <2>2. LogOK(req'[p], timings'[p], mode)
    BY <1>1, <1>4, <2>1, ReadRecorded DEF LogOK, Written, Becomes
  <2>3. QED
    BY <1>1, <2>1, <2>2, ReadRecorded, LogFrame DEF Becomes
<1>5. CASE /\ u.shape = "file"
           /\ req' = [req EXCEPT ![p] = [@ EXCEPT !.pc = "file", !.clean = StillClean(p)]]
  <2>1. Becomes(p, "file", 1, req[p].status, req[p].fresh)
    BY <1>1, <1>5, LogFacts DEF Becomes, RequestRecord
  <2>2. LogOK(req'[p], timings'[p], mode)
    BY <1>1, <2>1, ReadRecorded DEF LogOK, Written, Becomes
  <2>3. QED
    BY <1>1, <2>1, <2>2, ReadRecorded, LogFrame DEF Becomes
<1>6. CASE u.shape = "other" /\ Respond(p, 404, Absent, FALSE)
  <2>1. Becomes(p, "done", 1, 404, FALSE)
    BY <1>1, <1>6, RespondBecomes
  <2>2. LogOK(req'[p], timings'[p], mode)
    BY <1>1, <1>6, <2>1, ReadRecorded DEF LogOK, Covered, Written, Becomes
  <2>3. QED
    BY <1>1, <2>1, <2>2, ReadRecorded, LogFrame DEF Becomes
<1>7. QED
  BY <1>3, <1>4, <1>5, <1>6 DEF SpeculateMiss

LEMMA RecheckMissLog ==
    ASSUME IInv, LogInv, NEW p \in Procs, RecheckMiss(p), Track(p)
    PROVE  LogInv'
<1> DEFINE u == req[p].url
<1>1. /\ req[p].pc \in {"recheck", "lookup"} /\ req[p].pc \in Reading /\ mode' = mode
      /\ u \in ImageUrls /\ TryCandidate(p, 1)
  BY LogFacts DEF RecheckMiss, Ready, StoreUnchanged, ReqOK, Reading
<1>2. ~ u.pass
  BY <1>1, UrlAssumption DEF ImageUrls
<1>3. timings[p]["s3-get"] + 1 = Lookups(u)
  BY <1>1, <1>2, LogFacts DEF LogOK, Lookups
<1>4. timings[p]["s3-get"] + 2 = Lookups(u) + 1
  BY <1>3, LogFacts, PhaseNames DEF Lookups
<1>5. QED
  BY <1>1, <1>4, MissLog

LEMMA CandidateHitLog ==
    ASSUME IInv, LogInv, NEW p \in Procs, CandidateHit(p), Track(p)
    PROVE  LogInv'
<1> DEFINE u == req[p].url
<1>1. /\ req[p].pc = "candidate" /\ req[p].pc \in Reading /\ mode' = mode
      /\ timings[p]["s3-get"] + 1 = Lookups(u) + req[p].idx
  BY LogFacts DEF CandidateHit, Ready, StoreUnchanged, LogOK, Reading
<1>2. CASE Respond(p, 200, call[p].data, FALSE)
  <2>1. Becomes(p, "done", req[p].idx, 200, FALSE)
    BY <1>2, RespondBecomes
  <2>2. LogOK(req'[p], timings'[p], mode)
    BY <1>1, <2>1, ReadRecorded DEF LogOK, Covered, Written, Becomes
  <2>3. QED
    BY <1>1, <2>1, <2>2, ReadRecorded, LogFrame DEF Becomes
<1>3. CASE req' = [req EXCEPT ![p] = [@ EXCEPT !.pc = "resize", !.obj = call[p].data]]
  <2>1. Becomes(p, "resize", req[p].idx, req[p].status, req[p].fresh)
    BY <1>3, LogFacts DEF Becomes, RequestRecord
  <2>2. timings'[p]["s3-get"] = Lookups(u) + req[p].idx
    BY <1>1, ReadRecorded
  <2>3. LogOK(req'[p], timings'[p], mode)
    BY <1>1, <2>1, <2>2, ReadRecorded DEF LogOK, Written, Becomes
  <2>4. QED
    BY <1>1, <2>1, <2>3, ReadRecorded, LogFrame DEF Becomes
<1>4. QED
  BY <1>2, <1>3 DEF CandidateHit

LEMMA CandidateMissLog ==
    ASSUME IInv, LogInv, NEW p \in Procs, CandidateMiss(p), Track(p)
    PROVE  LogInv'
<1> DEFINE u == req[p].url
           i == req[p].idx
<1>1. /\ req[p].pc = "candidate" /\ req[p].pc \in Reading /\ mode' = mode
      /\ timings[p]["s3-get"] + 1 = Lookups(u) + i
      /\ i \in DOMAIN u.cands /\ u \in Urls
      /\ u \in ImageUrls \/ u.shape = "param"
  BY LogFacts DEF CandidateMiss, Ready, StoreUnchanged, LogOK, ReqOK, Reading
<1>2. i \in 1 .. Len(u.cands) /\ Len(u.cands) \in Nat /\ u.shape # "file"
  BY <1>1, UrlFields DEF ImageUrls
<1>3. /\ timings[p]["s3-get"] \in Nat /\ Lookups(u) \in Nat
  BY LogFacts, PhaseNames DEF Lookups
<1>4. CASE TryCandidate(p, i + 1)
  <2>1. timings[p]["s3-get"] + 2 = Lookups(u) + (i + 1) /\ i + 1 \in Nat \ {0}
    <3> DEFINE gets == timings[p]["s3-get"]
               before == Lookups(u)
               n == i
    <3>1. gets + 1 = before + n /\ gets \in Nat /\ before \in Nat /\ n \in Nat
      BY <1>1, <1>2, <1>3
    <3> HIDE DEF gets, before, n
    <3>2. gets + 2 = before + (n + 1) /\ n + 1 \in Nat \ {0}
      BY <3>1
    <3>3. QED
      BY <3>2 DEF gets, before, n
  <2>2. QED
    BY <1>1, <1>4, <2>1, MissLog
<1>5. CASE ~ (i < Len(u.cands)) /\ Respond(p, 404, Absent, FALSE)
  <2>1. Becomes(p, "done", i, 404, FALSE)
    BY <1>5, RespondBecomes
  <2>2. timings'[p]["s3-get"] = Lookups(u) + Len(u.cands)
    <3>1. i = Len(u.cands)
      BY <1>2, <1>5
    <3>2. QED
      BY <1>1, <3>1, ReadRecorded
  <2>3. LogOK(req'[p], timings'[p], mode)
    BY <1>1, <1>2, <2>1, <2>2, ReadRecorded DEF LogOK, Covered, Written, Becomes
  <2>4. QED
    BY <1>1, <2>1, <2>3, ReadRecorded, LogFrame DEF Becomes
<1>6. QED
  BY <1>2, <1>4, <1>5 DEF CandidateMiss

\* The resizer has returned and has been recorded.
LEMMA ResizeRecorded ==
    ASSUME IInv, LogInv, NEW p \in Procs, req[p].pc = "resize", Track(p)
    PROVE  /\ timings' = [timings EXCEPT ![p] = timings'[p]]
           /\ timings'[p] \in [Phases -> Nat]
           /\ timings'[p]["s3-get"] = Lookups(req[p].url) + req[p].idx
           /\ timings'[p]["resize"] = 1
           /\ Wrote(timings'[p], 0, mode)
           /\ req[p].url.shape # "file"
<1>1. Phase(p) = "resize" /\ "resize" \in Phases
  BY PhaseNames DEF Phase
<1>2. /\ timings' = [timings EXCEPT ![p] = timings'[p]]
      /\ timings'[p] \in [Phases -> Nat]
      /\ timings'[p]["resize"] = timings[p]["resize"] + 1
      /\ \A g \in Phases \ {"resize"} : timings'[p][g] = timings[p][g]
  BY <1>1, TrackOnce
<1>3. LogOK(req[p], timings[p], mode) /\ ReqOK(req[p], call[p])
  BY LogFacts
<1>4. /\ timings[p]["resize"] = 0 /\ Wrote(timings[p], 0, mode)
      /\ timings[p]["s3-get"] = Lookups(req[p].url) + req[p].idx
  BY <1>3 DEF LogOK, Written
<1>5. /\ timings'[p]["s3-get"] = timings[p]["s3-get"]
      /\ timings'[p]["s3-put"] = timings[p]["s3-put"]
      /\ timings'[p]["s3-put-origin"] = timings[p]["s3-put-origin"]
      /\ timings'[p]["s3-put-cache"] = timings[p]["s3-put-cache"]
  BY <1>2, PhaseNames
<1>6. Wrote(timings'[p], 0, mode)
  BY <1>4, <1>5 DEF Wrote
<1>7. req[p].url.shape # "file"
  BY <1>3 DEF ReqOK, ImageUrls
<1>8. QED
  BY <1>2, <1>4, <1>5, <1>6, <1>7

LEMMA ResizeLog ==
    ASSUME IInv, LogInv, NEW p \in Procs, Resize(p) \/ ResizeFails(p), Track(p)
    PROVE  LogInv'
<1>1. req[p].pc = "resize" /\ mode' = mode
  BY DEF Resize, ResizeFails, StoreUnchanged
<1>2. CASE Resize(p)
  <2>1. /\ Becomes(p, "put", req[p].idx, req[p].status, req[p].fresh)
        /\ req'[p].put = 1
    BY <1>2, LogFacts DEF Resize, Becomes, RequestRecord
  <2>2. 1 <= Writes(mode)
    BY DEF Writes
  <2>3. LogOK(req'[p], timings'[p], mode)
    BY <2>1, <2>2, <1>1, ResizeRecorded DEF LogOK, Written, Becomes
  <2>4. QED
    BY <1>1, <2>1, <2>3, ResizeRecorded, LogFrame DEF Becomes
<1>3. CASE ResizeFails(p)
  <2>1. Becomes(p, "done", req[p].idx, 500, FALSE)
    BY <1>3, RespondBecomes DEF ResizeFails
  <2>2. LogOK(req'[p], timings'[p], mode)
    BY <1>1, <2>1, ResizeRecorded DEF LogOK, Covered, Written, Becomes
  <2>3. QED
    BY <1>1, <2>1, <2>2, ResizeRecorded, LogFrame DEF Becomes
<1>4. QED
  BY <1>2, <1>3

LEMMA FileLog ==
    ASSUME IInv, LogInv, NEW p \in Procs, FileFetched(p) \/ FileMissing(p), Track(p)
    PROVE  LogInv'
<1> DEFINE u == req[p].url
<1>1. /\ req[p].pc = "file" /\ req[p].pc \in Reading /\ mode' = mode
      /\ req[p].idx = 1 /\ timings[p]["s3-get"] = 1 /\ u \in FileUrls
  BY LogFacts DEF FileFetched, FileMissing, Ready, StoreUnchanged, LogOK, ReqOK, Reading
<1>2. u.shape = "file" /\ Len(u.cands) = 1 /\ Lookups(u) = 1
  BY <1>1, UrlAssumption DEF FileUrls, Lookups
<1>3. CASE FileFetched(p)
  <2>1. /\ Becomes(p, "put", 1, req[p].status, req[p].fresh)
        /\ req'[p].put = 1
    BY <1>1, <1>3, LogFacts DEF FileFetched, Becomes, RequestRecord
  <2>2. 1 <= Writes(mode)
    BY DEF Writes
  <2>3. LogOK(req'[p], timings'[p], mode)
    BY <1>1, <1>2, <2>1, <2>2, ReadRecorded DEF LogOK, Written, Becomes
  <2>4. QED
    BY <1>1, <2>1, <2>3, ReadRecorded, LogFrame DEF Becomes
<1>4. CASE FileMissing(p)
  <2>1. Becomes(p, "done", 1, 404, FALSE)
    BY <1>1, <1>4, RespondBecomes DEF FileMissing
  <2>2. timings'[p]["s3-get"] = Lookups(u) + Len(u.cands)
    BY <1>1, <1>2, ReadRecorded
  <2>3. Wrote(timings'[p], Written(req'[p], mode), mode)
    BY <1>1, <2>1, ReadRecorded DEF Written, Becomes
  <2>4. Covered(req'[p], timings'[p])
    BY <1>1, <2>1, <2>2, ReadRecorded DEF Covered, Becomes
  <2>5. LogOK(req'[p], timings'[p], mode)
    BY <2>1, <2>3, <2>4 DEF LogOK, Becomes
  <2>6. QED
    BY <1>1, <2>1, <2>5, ReadRecorded, LogFrame DEF Becomes
<1>5. QED
  BY <1>3, <1>4

\* A write has returned and has been recorded: the n-th of its request.
LEMMA WriteRecorded ==
    ASSUME IInv, LogInv, NEW p \in Procs, req[p].pc = "put", Track(p)
    PROVE  /\ timings' = [timings EXCEPT ![p] = timings'[p]]
           /\ timings'[p] \in [Phases -> Nat]
           /\ timings'[p]["s3-get"] = Lookups(req[p].url) + req[p].idx
           /\ timings'[p]["resize"] = IF req[p].url.shape = "file" THEN 0 ELSE 1
           /\ req[p].put \in 1 .. Writes(mode)
           /\ Wrote(timings'[p], req[p].put, mode)
<1> DEFINE n == req[p].put
           t == timings[p]
           s == timings'[p]
<1>1. LogOK(req[p], t, mode) /\ ReqOK(req[p], call[p])
  BY LogFacts
<1>2. /\ Wrote(t, n - 1, mode) /\ n \in 1 .. 2 /\ n <= Writes(mode)
      /\ t["s3-get"] = Lookups(req[p].url) + req[p].idx
      /\ t["resize"] = IF req[p].url.shape = "file" THEN 0 ELSE 1
  BY <1>1 DEF LogOK, ReqOK, Written
<1>3. Phase(p) = IF mode = "off" THEN "s3-put"
                 ELSE IF PutTargets[n] = "origin" THEN "s3-put-origin" ELSE "s3-put-cache"
  BY DEF Phase
<1>4. Phase(p) \in {"s3-put", "s3-put-origin", "s3-put-cache"} /\ Phase(p) \in Phases
  BY <1>3, PhaseNames
<1>5. /\ timings' = [timings EXCEPT ![p] = s]
      /\ s \in [Phases -> Nat]
      /\ s[Phase(p)] = t[Phase(p)] + 1
      /\ \A g \in Phases \ {Phase(p)} : s[g] = t[g]
  BY <1>4, TrackOnce
<1>6. s["s3-get"] = t["s3-get"] /\ s["resize"] = t["resize"]
  BY <1>4, <1>5, PhaseNames
<1>7. mode \in {"off", "shadow", "live"}
  BY TargetsByMode
<1>8. Wrote(s, n, mode)
  <2>1. CASE mode = "off"
    <3>1. Phase(p) = "s3-put"
      BY <1>3, <2>1
    <3>2. /\ s["s3-put"] = t["s3-put"] + 1
          /\ s["s3-put-origin"] = t["s3-put-origin"]
          /\ s["s3-put-cache"] = t["s3-put-cache"]
      BY <1>5, <3>1, PhaseNames
    <3>3. QED
      BY <1>2, <2>1, <3>2 DEF Wrote
  <2>2. CASE mode # "off"
    <3>1. /\ mode = "shadow" => Phase(p) = IF n = 1 THEN "s3-put-origin" ELSE "s3-put-cache"
          /\ mode = "live" => Phase(p) = IF n = 1 THEN "s3-put-cache" ELSE "s3-put-origin"
      BY <1>2, <1>3, <2>2, TargetsByMode
    <3>2. /\ s["s3-put"] = t["s3-put"]
          /\ Phase(p) = "s3-put-origin" => /\ s["s3-put-origin"] = t["s3-put-origin"] + 1
                                           /\ s["s3-put-cache"] = t["s3-put-cache"]
          /\ Phase(p) = "s3-put-cache" => /\ s["s3-put-cache"] = t["s3-put-cache"] + 1
                                          /\ s["s3-put-origin"] = t["s3-put-origin"]
      BY <1>5, <1>3, <2>2, PhaseNames
    <3> HIDE DEF n, t, s
    <3>3. CASE n = 1
      BY <1>2, <1>7, <2>2, <3>1, <3>2, <3>3 DEF Wrote
    <3>4. CASE n = 2
      BY <1>2, <1>7, <2>2, <3>1, <3>2, <3>4 DEF Wrote
    <3>5. QED
      BY <1>2, <3>3, <3>4
  <2>3. QED
    BY <2>1, <2>2
<1>9. n \in 1 .. Writes(mode)
  BY <1>2 DEF Writes
<1>10. QED
  BY <1>2, <1>5, <1>6, <1>8, <1>9

LEMMA PutReturnedLog ==
    ASSUME IInv, LogInv, NEW p \in Procs, PutReturned(p), Track(p)
    PROVE  LogInv'
<1> DEFINE n == req[p].put
<1>1. req[p].pc = "put" /\ mode' = mode
  BY DEF PutReturned, Ready, StoreUnchanged
<1>2. Len(PutTargets) = Writes(mode) /\ Writes(mode) \in {1, 2}
  BY TargetsByMode DEF Writes
<1>3. n \in 1 .. Writes(mode) /\ Wrote(timings'[p], n, mode)
  BY <1>1, WriteRecorded
<1>4. CASE n < Len(PutTargets) /\ PutTo(p, n + 1, TargetKey(req[p].url), req[p].obj)
  <2>1. /\ Becomes(p, "put", req[p].idx, req[p].status, req[p].fresh)
        /\ req'[p].put = n + 1
    <3>1. req' = [req EXCEPT ![p] = [req[p] EXCEPT !.put = n + 1, !.clean = StillClean(p)]]
      BY <1>4 DEF PutReturned
    <3>2. QED
      BY <1>1, <3>1, LogFacts DEF Becomes, RequestRecord
  <2>2. Written(req'[p], mode) = n /\ req'[p].put <= Writes(mode)
    BY <1>2, <1>3, <1>4, <2>1 DEF Written, Becomes
  <2>3. LogOK(req'[p], timings'[p], mode)
    BY <1>1, <1>3, <2>1, <2>2, WriteRecorded DEF LogOK, Becomes
  <2>4. QED
    BY <1>1, <2>1, <2>3, WriteRecorded, LogFrame DEF Becomes
<1>5. CASE ~ (n < Len(PutTargets))
  <2>1. Becomes(p, "done", req[p].idx, 200, TRUE)
    BY <1>5, RespondBecomes DEF PutReturned
  <2>2. Written(req'[p], mode) = n
    BY <1>2, <1>3, <1>5, <2>1 DEF Written, Becomes
  <2>3. Covered(req'[p], timings'[p])
    BY <1>1, <2>1, WriteRecorded DEF Covered, Becomes
  <2>4. LogOK(req'[p], timings'[p], mode)
    BY <1>3, <2>1, <2>2, <2>3 DEF LogOK, Becomes
  <2>5. QED
    BY <1>1, <2>1, <2>4, WriteRecorded, LogFrame DEF Becomes
<1>6. QED
  BY <1>4, <1>5 DEF PutReturned

LEMMA ContinueLog ==
    ASSUME IInv, LogInv, NEW p \in Procs, LoggedContinue(p)
    PROVE  LogInv'
BY CacheHitLog, SpeculateMissLog, RecheckMissLog, CandidateHitLog, CandidateMissLog,
   ResizeLog, FileLog, PutReturnedLog DEF LoggedContinue, Continue

\* What a new request looks like.
Opened(r) ==
    /\ ~ r.fresh /\ r.idx = 1
    /\ \/ r.pc \in {"idle", "speculate"}
       \/ r.pc = "lookup" /\ r.url.shape = "param" /\ ~ r.url.pass
       \/ r.pc = "candidate" /\ r.url.pass
       \/ r.pc = "done" /\ (r.url.shape = "noext" \/ r.url.flaws # {})

LEMMA StartOpens ==
    ASSUME NEW p \in Procs, req \in [Procs -> RequestRecord], Start(p)
    PROVE  req' = [req EXCEPT ![p] = req'[p]] /\ Opened(req'[p]) /\ mode' = mode
<1>1. PICK u \in Urls : \/ NoExtension(p, u)
                       \/ RejectParam(p, u)
                       \/ \E header \in {"none", "true", "false"} :
                            Speculate(p, u, header) \/ AcceptParam(p, u, header)
  BY DEF Start
<1>2. CASE NoExtension(p, u)
  BY <1>2 DEF NoExtension, TurnAway, StoreUnchanged, NoReq, Opened
<1>3. CASE RejectParam(p, u)
  <2>1. PICK i \in DOMAIN Gates : /\ Gates[i].flaw \in u.flaws
                                 /\ TurnAway(p, u, Gates[i].status)
    BY <1>3 DEF RejectParam
  <2>2. QED
    BY <2>1 DEF TurnAway, StoreUnchanged, NoReq, Opened
<1>4. CASE \E header \in {"none", "true", "false"} : Speculate(p, u, header)
  BY <1>4 DEF Speculate, Arrive, StoreUnchanged, NoReq, Opened
<1>5. CASE \E header \in {"none", "true", "false"} : AcceptParam(p, u, header)
  <2>1. PICK header \in {"none", "true", "false"} : AcceptParam(p, u, header)
    BY <1>5
  <2>2. CASE u.pass
    <3>1. Arrive(p, u, "candidate", "origin") /\ mode' = mode
      BY <2>1, <2>2 DEF AcceptParam, StoreUnchanged
    <3>2. QED
      BY <2>2, <3>1 DEF Arrive, NoReq, Opened
  <2>3. CASE ~ u.pass
    <3>1. /\ Arrive(p, u, "lookup", EffectiveReadClient(header))
          /\ mode' = mode /\ u.shape = "param"
      BY <2>1, <2>3 DEF AcceptParam, StoreUnchanged
    <3>2. QED
      BY <2>3, <3>1 DEF Arrive, NoReq, Opened
  <2>4. QED
    BY <2>2, <2>3
<1>6. QED
  BY <1>1, <1>2, <1>3, <1>4, <1>5

LEMMA StartLog ==
    ASSUME IInv, LogInv, NEW p \in Procs, LoggedStart(p)
    PROVE  LogInv'
<1>1. /\ req' = [req EXCEPT ![p] = req'[p]] /\ Opened(req'[p]) /\ mode' = mode
      /\ timings' = [timings EXCEPT ![p] = NewTimings]
  BY LogFacts, StartOpens DEF LoggedStart
<1>2. timings'[p] = NewTimings /\ timings'[p] \in [Phases -> Nat]
  BY <1>1, LogFacts, PhaseNames
<1>3. IInv'
  BY StartStep DEF LoggedStart
<1>4. req'[p] \in RequestRecord
  BY <1>3 DEF IInv, TypeOK
<1>5. LogOK(req'[p], NewTimings, mode)
  BY <1>1, <1>4, NewLog DEF Opened
<1>6. QED
  BY <1>1, <1>2, <1>5, LogFrame

LEMMA UntouchedLog ==
    ASSUME LogInv, \A p \in Procs : LogOK(req'[p], timings'[p], mode'),
           timings' \in [Procs -> [Phases -> Nat]]
    PROVE  LogInv'
BY DEF LogInv

LEMMA RestartLog ==
    ASSUME IInv, LogInv, LoggedRestart
    PROVE  LogInv'
<1>1. /\ \A p \in Procs : req'[p] = NoReq /\ timings'[p] = NewTimings
      /\ timings' \in [Procs -> [Phases -> Nat]]
  BY PhaseNames DEF LoggedRestart, Restart
<1>2. NoReq \in RequestRecord /\ Opened(NoReq)
  BY IdleIsFine DEF Opened, NoReq
<1>3. LogOK(NoReq, NewTimings, mode')
  BY <1>2, NewLog DEF Opened
<1>4. QED
  BY <1>1, <1>3, UntouchedLog

LEMMA LogInitially ==
    LoggedInit => LogInv
<1> SUFFICES ASSUME LoggedInit PROVE LogInv
  OBVIOUS
<1>1. /\ \A p \in Procs : req[p] = NoReq /\ timings[p] = NewTimings
      /\ timings \in [Procs -> [Phases -> Nat]]
  BY PhaseNames DEF LoggedInit, Init
<1>2. NoReq \in RequestRecord /\ Opened(NoReq)
  BY IdleIsFine DEF Opened, NoReq
<1>3. LogOK(NoReq, NewTimings, mode)
  BY <1>2, NewLog DEF Opened
<1>4. QED
  BY <1>1, <1>3 DEF LogInv

LEMMA StepKeepsLog ==
    IInv /\ LogInv /\ [LoggedNext]_loggedVars => LogInv'
<1> SUFFICES ASSUME IInv, LogInv, [LoggedNext]_loggedVars PROVE LogInv'
  OBVIOUS
<1>1. ASSUME NEW p \in Procs, LoggedStart(p) \/ LoggedContinue(p) PROVE LogInv'
  BY <1>1, StartLog, ContinueLog
<1>2. CASE (StoreMoves /\ UNCHANGED timings) \/ UNCHANGED loggedVars
  <2>1. UNCHANGED <<req, mode, timings>>
    BY <1>2 DEF StoreMoves, loggedVars, vars
  <2>2. QED
    BY <2>1 DEF LogInv
<1>3. CASE LoggedRestart
  BY <1>3, RestartLog
<1>4. QED
  BY <1>1, <1>2, <1>3 DEF LoggedNext

\* What has been recorded of a request matches how far it has got, at each step
\* of its way: the invariant behind the two theorems below (Timings.Track,
\* Server.time, Middleware).
THEOREM LogInvariant == LoggedSpec => [](IInv /\ LogInv)
<1>1. LoggedSpec => []IInv
  BY LoggingIsTransparent, InductiveInvariant, PTL
<1>2. QED
  BY <1>1, LogInitially, StepKeepsLog, PTL DEF LoggedSpec

LEMMA AnswerIsLogged ==
    ASSUME IInv, LogInv, NEW p \in Procs, req[p].pc = "done"
    PROVE  /\ Covered(req[p], timings[p]) /\ timings[p] \in [Phases -> Nat]
           /\ Wrote(timings[p], IF req[p].fresh THEN Writes(mode) ELSE 0, mode)
           /\ req[p].fresh \in BOOLEAN
<1>1. LogOK(req[p], timings[p], mode) /\ req[p] \in RequestRecord
  BY LogFacts
<1>2. QED
  BY <1>1, LogFacts DEF LogOK, Written, RequestRecord

\* Every line of the log accounts for all the work of its request, whatever
\* fails, in every cache mode, over any number of candidates and requests
\* (Timings.Track, Server.time, Middleware).
THEOREM LogCovers == LoggedSpec => []LogCoversWork
<1>1. IInv /\ LogInv => LogCoversWork
  <2> SUFFICES ASSUME IInv, LogInv, NEW p \in Procs, req[p].pc = "done",
                      req[p].url.shape \notin {"noext", "other"}, req[p].url.flaws = {},
                      req[p].fresh \/ req[p].status # 200
               PROVE  LET t == timings[p] IN
                      /\ t["s3-get"] = Lookups(req[p].url)
                           + IF req[p].status = 404 THEN Len(req[p].url.cands) ELSE req[p].idx
                      /\ t["resize"] = IF req[p].url.shape = "file" \/ req[p].status = 404
                                         THEN 0 ELSE 1
                      /\ t["s3-put"] + t["s3-put-origin"] + t["s3-put-cache"]
                           = IF req[p].fresh THEN Len(PutTargets) ELSE 0
    BY DEF LogCoversWork, Entry
  <2>1. timings[p]["s3-put"] + timings[p]["s3-put-origin"] + timings[p]["s3-put-cache"]
          = IF req[p].fresh THEN Writes(mode) ELSE 0
    BY AnswerIsLogged DEF Wrote, Writes
  <2>2. QED
    BY <2>1, AnswerIsLogged, TargetsByMode DEF Covered
<1>2. QED
  BY <1>1, LogInvariant, PTL

\* The header of a fresh rendering names exactly the buckets it was written to,
\* and no other header names a write (responseRecorder.WriteHeader,
\* Server.putBoth).
THEOREM HeaderTells == LoggedSpec => []HeaderTellsWrites
<1>1. IInv /\ LogInv => HeaderTellsWrites
  <2> SUFFICES ASSUME IInv, LogInv, NEW p \in Procs, req[p].pc = "done"
               PROVE  ServerTimingHeader(p) \intersect {"s3-put", "s3-put-origin", "s3-put-cache"}
                        = IF ~ req[p].fresh THEN {}
                          ELSE IF mode = "off" THEN {"s3-put"}
                          ELSE {"s3-put-origin", "s3-put-cache"}
    BY DEF HeaderTellsWrites
  <2> DEFINE t == timings[p]
  <2>1. \A f \in {"s3-put", "s3-put-origin", "s3-put-cache"} :
          f \in ServerTimingHeader(p) <=> t[f] > 0
    BY PhaseNames DEF ServerTimingHeader
  <2>2. CASE ~ req[p].fresh
    <3>1. t["s3-put"] = 0 /\ t["s3-put-origin"] = 0 /\ t["s3-put-cache"] = 0
      BY <2>2, AnswerIsLogged DEF Wrote
    <3>2. QED
      BY <2>1, <2>2, <3>1
  <2>3. CASE req[p].fresh /\ mode = "off"
    <3>1. t["s3-put"] = 1 /\ t["s3-put-origin"] = 0 /\ t["s3-put-cache"] = 0
      BY <2>3, AnswerIsLogged DEF Wrote, Writes
    <3>2. QED
      BY <2>1, <2>3, <3>1
  <2>4. CASE req[p].fresh /\ mode # "off"
    <3>1. t["s3-put"] = 0 /\ t["s3-put-origin"] = 1 /\ t["s3-put-cache"] = 1
      BY <2>4, AnswerIsLogged DEF Wrote, Writes
    <3>2. QED
      BY <2>1, <2>4, <3>1
  <2>5. QED
    BY <2>2, <2>3, <2>4
<1>2. QED
  BY <1>1, LogInvariant, PTL
=============================================================================
