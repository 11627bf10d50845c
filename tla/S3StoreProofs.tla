---------------------------- MODULE S3StoreProofs ----------------------------
(***************************************************************************)
(* Proofs about S3Store: its variables keep their types, and its chain of  *)
(* lookups implements MergedStore, for every set of keys, goroutines and   *)
(* objects and any number of failures, publications and crashes.           *)
(***************************************************************************)
EXTENDS S3Store, TLAPS

-----------------------------------------------------------------------------
(* The inductive invariant.                                                *)

\* What the older store old answers for key k, under either spelling.
OldValue(old, k) ==
    IF old[k] # Absent \/ Strip[k] = NoKey THEN old[k] ELSE old[Strip[k]]

\* What a call c has found out of the older store, at each point.
CallFits(c, old) ==
    /\ c.at # "idle" => c.op # "none" /\ c.key \in Keys
    /\ c.at \in Deciding => c.op \in {"get", "exists"} /\ FallsBack(c.client)
    /\ c.at = "stripped" => Strip[c.key] # NoKey /\ old[c.key] = Absent
    /\ c.at = "copyback" => c.op = "get" /\ c.data = OldValue(old, c.key) /\ c.data # Absent
    /\ c.at = "primary" /\ c.op = "put" => c.data \in Object

StoreInv ==
    /\ StoreTypeOK
    /\ \A p \in Procs : CallFits(call[p], bucket["fallback"])

LEMMA NameFacts ==
    /\ Clients \subseteq Buckets /\ "fallback" \in Buckets /\ "fallback" \notin Clients
    /\ Deciding = {"fallback", "stripped", "copyback"}
    /\ Object \subseteq Maybe /\ Absent \in Maybe /\ Absent \notin Object
BY StoreAssumption DEF Clients, Buckets, Deciding, Maybe

LEMMA StoreFacts ==
    ASSUME StoreInv, NEW p \in Procs
    PROVE  /\ call \in [Procs -> CallRecord] /\ call[p] \in CallRecord
           /\ bucket \in [Buckets -> [Keys -> Maybe]] /\ faults \in 0 .. MaxFaults
           /\ CallFits(call[p], bucket["fallback"])
           /\ call[p].client \in Clients /\ call[p].client \in Buckets
           /\ call[p].at # "idle" => call[p].key \in Keys
           /\ call[p].data \in Maybe
BY NameFacts DEF StoreInv, StoreTypeOK, CallRecord, CallFits

LEMMA LegacyTypes ==
    ASSUME StoreTypeOK, NEW k \in Keys
    PROVE  /\ LegacyOf(k) = OldValue(bucket["fallback"], k) /\ LegacyOf(k) \in Maybe
           /\ bucket["fallback"][k] \in Maybe
           /\ Strip[k] # NoKey => /\ Strip[k] \in Keys
                                 /\ bucket["fallback"][Strip[k]] \in Maybe
<1>1. Strip[k] # NoKey => Strip[k] \in Keys
  BY StoreAssumption
<1>2. QED
  BY <1>1, NameFacts DEF StoreTypeOK, LegacyOf, OldValue

\* The call of p moves on, bucket b may be written, the older store is not.
Moves(p) ==
    /\ call' = [call EXCEPT ![p] = call'[p]]
    /\ call'[p] \in CallRecord /\ CallFits(call'[p], bucket["fallback"])
    /\ bucket' \in [Buckets -> [Keys -> Maybe]] /\ bucket'["fallback"] = bucket["fallback"]
    /\ catalog' = catalog /\ faults' \in 0 .. MaxFaults

LEMMA MovesKeepsInv ==
    ASSUME StoreInv, NEW p \in Procs, Moves(p)
    PROVE  StoreInv'
<1>1. StoreTypeOK'
  BY DEF StoreInv, StoreTypeOK, Moves
<1>2. ASSUME NEW q \in Procs PROVE CallFits(call'[q], bucket'["fallback"])
  <2>1. q # p => call'[q] = call[q]
    BY DEF StoreInv, StoreTypeOK, Moves
  <2>2. QED
    BY <2>1 DEF StoreInv, Moves
<1>3. QED
  BY <1>1, <1>2 DEF StoreInv

LEMMA ReturnUpdate ==
    ASSUME NEW c \in CallRecord, NEW at \in {"fallback", "stripped", "copyback", "returned"},
           NEW res \in {"none", "ok", "notfound", "error"}, NEW d \in Maybe
    PROVE  /\ [c EXCEPT !.at = at] \in CallRecord
           /\ [c EXCEPT !.at = at, !.data = d] \in CallRecord
           /\ [c EXCEPT !.at = at, !.res = res, !.data = d] \in CallRecord
BY DEF CallRecord

\* An answer fits whatever the older store holds.
LEMMA AnswerFits ==
    ASSUME NEW c \in CallRecord, NEW old, NEW res, NEW d, CallFits(c, old), c.at # "idle"
    PROVE  CallFits([c EXCEPT !.at = "returned", !.res = res, !.data = d], old)
BY DEF CallFits, CallRecord, Deciding

LEMMA ReturnMoves ==
    ASSUME StoreInv, NEW p \in Procs, call[p].at # "idle",
           NEW res \in {"none", "ok", "notfound", "error"}, NEW STATE d, d \in Maybe,
           Return(p, res, d),
           bucket' \in [Buckets -> [Keys -> Maybe]], bucket'["fallback"] = bucket["fallback"],
           catalog' = catalog, faults' \in 0 .. MaxFaults
    PROVE  Moves(p)
<1>1. /\ call \in [Procs -> CallRecord] /\ call[p] \in CallRecord
      /\ CallFits(call[p], bucket["fallback"])
  BY StoreFacts
<1>2. /\ call' = [call EXCEPT ![p] = call'[p]]
      /\ call'[p] = [call[p] EXCEPT !.at = "returned", !.res = res, !.data = d]
  BY <1>1 DEF Return
<1>3. /\ [call[p] EXCEPT !.at = "returned", !.res = res, !.data = d] \in CallRecord
      /\ CallFits([call[p] EXCEPT !.at = "returned", !.res = res, !.data = d],
                  bucket["fallback"])
  <2>1. /\ "returned" \in {"fallback", "stripped", "copyback", "returned"}
        /\ d \in Maybe /\ res \in {"none", "ok", "notfound", "error"}
    OBVIOUS
  <2>2. [call[p] EXCEPT !.at = "returned", !.res = res, !.data = d] \in CallRecord
    BY ONLY <1>1, <2>1, ReturnUpdate
  <2>3. CallFits([call[p] EXCEPT !.at = "returned", !.res = res, !.data = d],
                 bucket["fallback"])
    BY ONLY <1>1, AnswerFits, call[p].at # "idle"
  <2>4. QED
    BY <2>2, <2>3
<1>4. call'[p] \in CallRecord /\ CallFits(call'[p], bucket["fallback"])
  BY <1>2, <1>3
<1>5. QED
  BY <1>2, <1>3, <1>4 DEF Moves

\* A write by a client leaves the older store alone.
LEMMA StoreWrites ==
    ASSUME StoreInv, NEW p \in Procs, call[p].at # "idle", call[p].data \in Object,
           Store(call[p].client, call[p].key, call[p].data)
    PROVE  /\ bucket' \in [Buckets -> [Keys -> Maybe]]
           /\ bucket'["fallback"] = bucket["fallback"]
BY StoreFacts, NameFacts DEF Store

LEMMA S3StepMoves ==
    ASSUME StoreInv, NEW p \in Procs, S3Step(p)
    PROVE  Moves(p)
<1> DEFINE c == call[p]
           old == bucket["fallback"]
<1>1. /\ call \in [Procs -> CallRecord] /\ c \in CallRecord /\ CallFits(c, old)
      /\ bucket \in [Buckets -> [Keys -> Maybe]] /\ faults \in 0 .. MaxFaults
      /\ c.client \in Buckets /\ c.data \in Maybe /\ Absent \in Maybe
      /\ c.at # "idle" => c.key \in Keys
      /\ Fault => faults' \in 0 .. MaxFaults
  BY StoreFacts, NameFacts, StoreAssumption DEF Fault
<1>2. CASE PrimaryHit(p)
  <2>1. bucket[c.client][c.key] \in Maybe
    BY <1>1, <1>2 DEF PrimaryHit
  <2>2. QED
    BY <1>1, <1>2, <2>1, ReturnMoves DEF PrimaryHit
<1>3. CASE PrimaryMiss(p)
  <2>1. CASE Return(p, "notfound", Absent)
    BY <1>1, <1>3, <2>1, ReturnMoves DEF PrimaryMiss
  <2>2. CASE FallsBack(c.client) /\ call' = [call EXCEPT ![p].at = "fallback"]
    <3>1. /\ call' = [call EXCEPT ![p] = call'[p]]
          /\ call'[p] = [c EXCEPT !.at = "fallback"]
      BY <1>1, <2>2
    <3>2. CallFits([c EXCEPT !.at = "fallback"], old)
      BY <1>1, <1>3, <2>2 DEF PrimaryMiss, Looking, CallFits, CallRecord, Deciding
    <3>3. QED
      BY <1>1, <1>3, <3>1, <3>2, ReturnUpdate DEF PrimaryMiss, Moves
  <2>3. QED
    BY <1>3, <2>1, <2>2 DEF PrimaryMiss
<1>4. CASE FallbackHit(p)
  <2> DEFINE found == old[FallbackKey(c)]
  <2>1. c.at \in {"fallback", "stripped"} /\ c.key \in Keys /\ found # Absent
    BY <1>1, <1>4 DEF FallbackHit
  <2>2. found = OldValue(old, c.key) /\ found \in Maybe
    BY <1>1, <2>1, LegacyTypes DEF FallbackKey, OldValue, CallFits, StoreInv
  <2>3. CASE Return(p, "ok", Absent)
    BY <1>1, <1>4, <2>1, <2>3, ReturnMoves DEF FallbackHit
  <2>4. CASE c.op = "get" /\ call' = [call EXCEPT ![p].at = "copyback", ![p].data = found]
    <3>1. /\ call' = [call EXCEPT ![p] = call'[p]]
          /\ call'[p] = [c EXCEPT !.at = "copyback", !.data = found]
      BY <1>1, <2>4
    <3> HIDE DEF found
    <3>2. CallFits([c EXCEPT !.at = "copyback", !.data = found], old)
      BY <1>1, <2>1, <2>2, <2>4 DEF CallFits, CallRecord, Deciding
    <3>3. call'[p] \in CallRecord
      BY <1>1, <2>2, <3>1 DEF CallRecord
    <3>4. QED
      BY <1>1, <1>4, <3>1, <3>2, <3>3 DEF FallbackHit, Moves
  <2>5. QED
    BY <1>4, <2>3, <2>4 DEF FallbackHit
<1>5. CASE FallbackMiss(p)
  <2>1. CASE Return(p, "notfound", Absent)
    BY <1>1, <1>5, <2>1, ReturnMoves DEF FallbackMiss
  <2>2. CASE /\ c.at = "fallback" /\ Strip[c.key] # NoKey
             /\ call' = [call EXCEPT ![p].at = "stripped"]
    <3>1. /\ call' = [call EXCEPT ![p] = call'[p]]
          /\ call'[p] = [c EXCEPT !.at = "stripped"]
      BY <1>1, <2>2
    <3>2. old[c.key] = Absent
      BY <1>5, <2>2 DEF FallbackMiss, FallbackKey
    <3>3. CallFits([c EXCEPT !.at = "stripped"], old)
      BY <1>1, <2>2, <3>2 DEF CallFits, CallRecord, Deciding
    <3>4. QED
      BY <1>1, <1>5, <3>1, <3>3, ReturnUpdate DEF FallbackMiss, Moves
  <2>3. QED
    BY <1>5, <2>1, <2>2 DEF FallbackMiss
<1>6. CASE LookupFails(p)
  BY <1>1, <1>6, ReturnMoves DEF LookupFails
<1>7. CASE CopyBack(p) \/ CopyBackFails(p)
  <2>1. c.at # "idle" /\ c.data \in Object /\ Return(p, "ok", c.data)
    BY <1>1, <1>7, NameFacts DEF CopyBack, CopyBackFails, CallFits, Maybe
  <2>2. /\ bucket' \in [Buckets -> [Keys -> Maybe]] /\ bucket'["fallback"] = old
        /\ catalog' = catalog /\ faults' \in 0 .. MaxFaults
    BY <1>1, <1>7, <2>1, StoreWrites DEF CopyBack, CopyBackFails
  <2>3. QED
    BY <1>1, <2>1, <2>2, ReturnMoves
<1>8. CASE Put(p) \/ PutFails(p)
  <2>1. c.at # "idle" /\ c.data \in Object
    BY <1>1, <1>8 DEF Put, PutFails, CallFits
  <2>2. /\ bucket' \in [Buckets -> [Keys -> Maybe]] /\ bucket'["fallback"] = old
        /\ catalog' = catalog /\ faults' \in 0 .. MaxFaults
    BY <1>1, <1>8, <2>1, StoreWrites DEF Put, PutFails
  <2>3. CASE Return(p, "ok", Absent)
    BY <1>1, <2>1, <2>2, <2>3, ReturnMoves
  <2>4. CASE Return(p, "error", Absent)
    BY <1>1, <2>1, <2>2, <2>4, ReturnMoves
  <2>5. QED
    BY <1>8, <2>3, <2>4 DEF Put, PutFails
<1>9. QED
  BY <1>2, <1>3, <1>4, <1>5, <1>6, <1>7, <1>8 DEF S3Step

\* A caller that opens a call, or hangs up.
LEMMA InvokeMoves ==
    ASSUME StoreInv, NEW p \in Procs, Invoke(p)
    PROVE  /\ Moves(p) /\ UNCHANGED bucket
           /\ call'[p].at = "primary" /\ call'[p].res = "none"
           /\ call'[p].op \in {"get", "exists", "put"}
           /\ call'[p].key \in Keys
<1>1. PICK client \in Clients, k \in Keys, kind \in {"get", "exists", "put"}, d \in Maybe :
        /\ call' = [call EXCEPT ![p] = Call(kind, client, k, d)]
        /\ kind = "put" => d \in Object
  BY NameFacts, StoreAssumption DEF Invoke
<1>2. Call(kind, client, k, d) \in CallRecord
  BY DEF Call, CallRecord
<1>3. CallFits(Call(kind, client, k, d), bucket["fallback"])
  BY <1>1 DEF Call, CallFits, Deciding
<1>4. call'[p] = Call(kind, client, k, d) /\ UNCHANGED <<bucket, catalog, faults>>
  BY <1>1, StoreFacts DEF Invoke
<1>5. QED
  BY <1>1, <1>2, <1>3, <1>4, StoreFacts DEF Moves, Call

LEMMA NoCallFits ==
    /\ NoCall \in CallRecord
    /\ \A old : CallFits(NoCall, old)
BY NameFacts DEF NoCall, CallRecord, CallFits, Deciding, Clients

LEMMA CrashKeepsInv ==
    ASSUME StoreInv, Crash
    PROVE  StoreInv'
<1>1. \A p \in Procs : call'[p] = NoCall
  BY DEF Crash
<1>2. StoreTypeOK'
  BY NoCallFits DEF Crash, StoreInv, StoreTypeOK
<1>3. \A p \in Procs : CallFits(call'[p], bucket'["fallback"])
  BY <1>1, NoCallFits
<1>4. QED
  BY <1>2, <1>3 DEF StoreInv

\* What the catalogue publishes, and where it goes.
LEMMA PublishWrites ==
    ASSUME StoreInv, NEW k \in CatalogKeys, Publish(k)
    PROVE  /\ k \in Keys /\ Original(k, catalog[k] + 1) \in Object
           /\ Store("origin", k, Original(k, catalog[k] + 1))
           /\ bucket' \in [Buckets -> [Keys -> Maybe]]
           /\ bucket'["fallback"] = bucket["fallback"]
           /\ catalog' \in [Keys -> 0 .. MaxVersion]
           /\ UNCHANGED <<call, faults>>
<1>1. k \in Keys /\ catalog[k] \in 0 .. MaxVersion /\ catalog[k] < MaxVersion
  BY StoreAssumption DEF Publish, StoreInv, StoreTypeOK
<1>2. catalog[k] + 1 \in 0 .. MaxVersion
  BY <1>1, StoreAssumption
<1>3. Original(k, catalog[k] + 1) \in Object
  BY <1>1, <1>2 DEF Original, Object
<1>4. Store("origin", k, Original(k, catalog[k] + 1)) /\ UNCHANGED <<call, faults>>
  BY DEF Publish
<1> DEFINE o == Original(k, catalog[k] + 1)
<1>5. /\ bucket' \in [Buckets -> [Keys -> Maybe]]
      /\ bucket'["fallback"] = bucket["fallback"]
  <2> HIDE DEF o
  <2>1. o \in Maybe /\ bucket' = [bucket EXCEPT !["origin"][k] = o]
    BY <1>3, <1>4, NameFacts DEF Store, o
  <2>2. "origin" # "fallback" /\ "origin" \in Buckets
    BY DEF Buckets
  <2>3. QED
    BY <1>1, <2>1, <2>2, NameFacts DEF StoreInv, StoreTypeOK
<1>6. catalog' \in [Keys -> 0 .. MaxVersion]
  BY <1>1, <1>2 DEF Publish, StoreInv, StoreTypeOK
<1>7. QED
  BY <1>1, <1>3, <1>4, <1>5, <1>6

LEMMA PublishKeepsInv ==
    ASSUME StoreInv, NEW k \in CatalogKeys, Publish(k)
    PROVE  StoreInv'
BY PublishWrites DEF StoreInv, StoreTypeOK

LEMMA StoreInitially ==
    StoreInit => StoreInv
<1> SUFFICES ASSUME StoreInit PROVE StoreInv
  OBVIOUS
<1>1. PICK old \in SUBSET LegacyKeys :
        bucket = [b \in Buckets |->
                    IF b = "fallback"
                      THEN [k \in Keys |-> IF k \in old THEN Original(k, 0) ELSE Absent]
                      ELSE NothingStored]
  BY DEF StoreInit
<1>2. \A k \in Keys : Original(k, 0) \in Maybe
  BY StoreAssumption, NameFacts DEF Original, Object
<1>3. bucket \in [Buckets -> [Keys -> Maybe]]
  BY <1>1, <1>2, NameFacts DEF NothingStored
<1>4. call \in [Procs -> CallRecord] /\ \A p \in Procs : call[p] = NoCall
  BY NoCallFits DEF StoreInit
<1>5. catalog \in [Keys -> 0 .. MaxVersion] /\ faults \in 0 .. MaxFaults
  BY StoreAssumption DEF StoreInit
<1>6. QED
  BY <1>3, <1>4, <1>5, NoCallFits DEF StoreInv, StoreTypeOK

LEMMA StepKeepsStoreInv ==
    StoreInv /\ [StoreNext]_storeVars => StoreInv'
<1> SUFFICES ASSUME StoreInv, [StoreNext]_storeVars PROVE StoreInv'
  OBVIOUS
<1>1. ASSUME NEW p \in Procs, Invoke(p) \/ S3Step(p) PROVE StoreInv'
  BY <1>1, InvokeMoves, S3StepMoves, MovesKeepsInv
<1>2. CASE \E k \in CatalogKeys : Publish(k)
  BY <1>2, PublishKeepsInv
<1>3. CASE Crash
  BY <1>3, CrashKeepsInv
<1>4. CASE UNCHANGED storeVars
  BY <1>4 DEF storeVars, StoreInv, StoreTypeOK
<1>5. QED
  BY <1>1, <1>2, <1>3, <1>4 DEF StoreNext

\* What a call has found in the fallback bucket stays true until it answers
\* (s3.go Get, Exists).
THEOREM StoreInvariant == StoreSpec => []StoreInv
BY StoreInitially, StepKeepsStoreInv, PTL DEF StoreSpec

\* Every variable keeps its type (s3.go Get, Exists, Put).
THEOREM StoreTypes == StoreSpec => []StoreTypeOK
<1>1. StoreInv => StoreTypeOK
  BY DEF StoreInv
<1>2. QED
  BY <1>1, StoreInvariant, PTL

-----------------------------------------------------------------------------
(* The refinement mapping, step by step.                                   *)

LEMMA OlderViewsStay ==
    ASSUME bucket'["fallback"] = bucket["fallback"]
    PROVE  /\ OlderViews' = OlderViews
           /\ \A c, k : LegacyView(c)'[k] = LegacyView(c)[k]
BY DEF OlderViews, LegacyView, LegacyOf

LEMMA ShownViewsStay ==
    ASSUME UNCHANGED bucket
    PROVE  ShownViews' = ShownViews
BY DEF ShownViews, View, LegacyView, LegacyOf

LEMMA ViewTypes ==
    ASSUME StoreTypeOK
    PROVE  /\ ShownViews \in [Clients -> [Keys -> Maybe]]
           /\ OlderViews \in [Clients -> [Keys -> Maybe]]
           /\ \A c \in Clients, k \in Keys :
                /\ OlderViews[c][k] = IF FallsBack(c) THEN OldValue(bucket["fallback"], k)
                                      ELSE Absent
                /\ ShownViews[c][k] = IF bucket[c][k] # Absent THEN bucket[c][k]
                                      ELSE OlderViews[c][k]
<1>1. \A c \in Clients, k \in Keys :
        /\ LegacyView(c)[k] = IF FallsBack(c) THEN OldValue(bucket["fallback"], k) ELSE Absent
        /\ LegacyView(c)[k] \in Maybe
  BY LegacyTypes, NameFacts DEF LegacyView
<1>2. \A c \in Clients, k \in Keys :
        /\ bucket[c][k] \in Maybe
        /\ View(c)[k] = IF bucket[c][k] # Absent THEN bucket[c][k] ELSE LegacyView(c)[k]
  BY NameFacts DEF View, StoreTypeOK
<1>3. OlderViews \in [Clients -> [Keys -> Maybe]]
  BY <1>1 DEF OlderViews, LegacyView
<1>4. ShownViews \in [Clients -> [Keys -> Maybe]]
  BY <1>1, <1>2 DEF ShownViews, View
<1>5. QED
  BY <1>1, <1>2, <1>3, <1>4 DEF ShownViews, OlderViews

\* A write of an object shows under its key to the clients of its bucket only.
LEMMA WriteShows ==
    ASSUME StoreInv, NEW c \in Clients, NEW k \in Keys, NEW STATE d, d \in Object,
           Store(c, k, d)
    PROVE  /\ ShownViews' = [ShownViews EXCEPT ![c][k] = d]
           /\ ShownViews[c] \in [Keys -> Maybe]
<1>1. /\ bucket \in [Buckets -> [Keys -> Maybe]]
      /\ bucket' = [bucket EXCEPT ![c][k] = d]
  BY DEF StoreInv, StoreTypeOK, Store
<1>2. bucket'["fallback"] = bucket["fallback"]
  BY <1>1, NameFacts
<1>3. /\ \A b \in Clients, j \in Keys :
           bucket'[b][j] = IF b = c /\ j = k THEN d ELSE bucket[b][j]
      /\ d # Absent
  BY <1>1, NameFacts
<1>4. ASSUME NEW b \in Clients
      PROVE  View(b)' = IF b = c THEN [View(b) EXCEPT ![k] = d] ELSE View(b)
  <2>1. \A j \in Keys : View(b)'[j] = IF b = c /\ j = k THEN d ELSE View(b)[j]
    BY <1>2, <1>3, OlderViewsStay DEF View
  <2>2. /\ View(b) = [j \in Keys |-> View(b)[j]]
        /\ View(b)' = [j \in Keys |-> View(b)'[j]]
    BY DEF View
  <2>3. QED
    BY <2>1, <2>2
<1>5. ShownViews' = [b \in Clients |-> View(b)'] /\ ShownViews = [b \in Clients |-> View(b)]
  BY DEF ShownViews
<1>6. ShownViews' = [ShownViews EXCEPT ![c] = [ShownViews[c] EXCEPT ![k] = d]]
  BY <1>4, <1>5
<1>7. QED
  BY <1>6, ViewTypes DEF StoreInv

\* What MergedStore sees of a call.
LEMMA OpSeen ==
    ASSUME StoreInv, NEW p \in Procs
    PROVE  /\ OpenOps[p].op = call[p].op /\ OpenOps[p].client = call[p].client
           /\ OpenOps[p].key = call[p].key /\ OpenOps[p].res = call[p].res
           /\ call[p].at = "primary" =>
                OpenOps[p].phase = "open" /\ OpenOps[p].data = call[p].data
           /\ call[p].at \in Deciding =>
                /\ OpenOps[p].phase = "decided"
                /\ OpenOps[p].data = OlderViews[call[p].client][call[p].key]
           /\ call[p].at \in {"idle", "returned"} =>
                OpenOps[p].phase = call[p].at /\ OpenOps[p].data = call[p].data
BY StoreFacts, NameFacts DEF OpenOps, AbstractOp, OlderViews

OpRecord == [op : {"none", "get", "exists", "put"}, client : Clients, key : Keys \union {NoKey},
             phase : {"idle", "open", "decided", "returned"}, data : Maybe,
             res : {"none", "ok", "notfound", "error"}]

LEMMA OpTypes ==
    StoreInv => OpenOps \in [Procs -> OpRecord]
<1> SUFFICES ASSUME StoreInv PROVE OpenOps \in [Procs -> OpRecord]
  OBVIOUS
<1>1. ASSUME NEW p \in Procs PROVE AbstractOp(p) \in OpRecord
  <2>1. /\ call[p] \in CallRecord /\ CallFits(call[p], bucket["fallback"])
        /\ call[p].client \in Clients
    BY StoreFacts
  <2>2. call[p].at \in Deciding => LegacyView(call[p].client)[call[p].key] \in Maybe
    BY <2>1, ViewTypes DEF StoreInv, CallFits, OlderViews, Deciding
  <2>3. QED
    BY <2>1, <2>2 DEF AbstractOp, OpRecord, CallRecord, Deciding
<1>2. QED
  BY <1>1 DEF OpenOps

LEMMA OpTypesAfter ==
    StoreInv' => (OpenOps \in [Procs -> OpRecord])'
BY OpTypes, PTL

\* Only p's operation is seen to move.
LEMMA OthersSeenAlike ==
    ASSUME StoreInv, NEW p \in Procs, Moves(p)
    PROVE  OpenOps' = [OpenOps EXCEPT ![p] = OpenOps'[p]]
<1>1. ASSUME NEW q \in Procs, q # p PROVE OpenOps'[q] = OpenOps[q]
  <2>1. call'[q] = call[q]
    BY <1>1, StoreFacts DEF Moves
  <2>2. AbstractOp(q)' = AbstractOp(q)
    BY <2>1 DEF AbstractOp, LegacyView, LegacyOf, Moves
  <2>3. QED
    BY <2>2 DEF OpenOps
<1>2. OpenOps' = [q \in Procs |-> OpenOps'[q]] /\ OpenOps = [q \in Procs |-> OpenOps[q]]
  BY DEF OpenOps
<1>3. QED
  BY <1>1, <1>2

\* Records that agree on every field are one.
LEMMA SameOp ==
    ASSUME NEW o \in OpRecord, NEW n \in OpRecord,
           n.op = o.op, n.client = o.client, n.key = o.key
    PROVE  /\ n = [o EXCEPT !.phase = n.phase, !.res = n.res, !.data = n.data]
           /\ n.res = o.res => n = [o EXCEPT !.phase = n.phase, !.data = n.data]
           /\ n.phase = o.phase /\ n.data = o.data /\ n.res = o.res => n = o
<1>1. [o EXCEPT !.phase = n.phase, !.res = n.res, !.data = n.data] \in OpRecord
  BY DEF OpRecord
<1>2. [o EXCEPT !.phase = n.phase, !.data = n.data] \in OpRecord
  BY DEF OpRecord
<1>3. n = [o EXCEPT !.phase = n.phase, !.res = n.res, !.data = n.data]
  BY <1>1 DEF OpRecord
<1>4. n.res = o.res => n = [o EXCEPT !.phase = n.phase, !.data = n.data]
  BY <1>2 DEF OpRecord
<1>5. n.phase = o.phase /\ n.data = o.data /\ n.res = o.res => n = o
  BY DEF OpRecord
<1>6. QED
  BY <1>3, <1>4, <1>5

LEMMA NestedUpdate ==
    ASSUME NEW P, NEW R, NEW o \in [P -> R], NEW p \in P, NEW ph, NEW r, NEW d
    PROVE  /\ [o EXCEPT ![p].phase = ph, ![p].res = r, ![p].data = d]
                = [o EXCEPT ![p] = [o[p] EXCEPT !.phase = ph, !.res = r, !.data = d]]
           /\ [o EXCEPT ![p].phase = ph, ![p].data = d]
                = [o EXCEPT ![p] = [o[p] EXCEPT !.phase = ph, !.data = d]]
OBVIOUS

\* How the operation of p is seen to move.
LEMMA OpMoves ==
    ASSUME StoreInv, NEW p \in Procs, Moves(p),
           call'[p].op = call[p].op, call'[p].client = call[p].client,
           call'[p].key = call[p].key
    PROVE  LET o == OpenOps[p]  n == OpenOps'[p] IN
           /\ OpenOps' = [OpenOps EXCEPT ![p].phase = n.phase, ![p].res = n.res,
                                         ![p].data = n.data]
           /\ n.res = o.res =>
                OpenOps' = [OpenOps EXCEPT ![p].phase = n.phase, ![p].data = n.data]
           /\ n.phase = o.phase /\ n.res = o.res /\ n.data = o.data => OpenOps' = OpenOps
<1> DEFINE o == OpenOps[p]
           n == OpenOps'[p]
<1>1. StoreInv'
  BY MovesKeepsInv
<1>2. OpenOps \in [Procs -> OpRecord] /\ o \in OpRecord /\ n \in OpRecord
  <2>1. OpenOps' \in [Procs -> OpRecord]
    BY <1>1, OpTypesAfter
  <2>2. QED
    BY <2>1, OpTypes
<1>3. n.op = o.op /\ n.client = o.client /\ n.key = o.key
  BY DEF OpenOps, AbstractOp
<1>4. OpenOps' = [OpenOps EXCEPT ![p] = n]
  BY OthersSeenAlike
<1>5. [OpenOps EXCEPT ![p] = o] = OpenOps
  BY <1>2
<1>6. /\ [OpenOps EXCEPT ![p].phase = n.phase, ![p].res = n.res, ![p].data = n.data]
            = [OpenOps EXCEPT ![p] = [o EXCEPT !.phase = n.phase, !.res = n.res, !.data = n.data]]
      /\ [OpenOps EXCEPT ![p].phase = n.phase, ![p].data = n.data]
            = [OpenOps EXCEPT ![p] = [o EXCEPT !.phase = n.phase, !.data = n.data]]
  BY <1>2, NestedUpdate
<1> HIDE DEF o, n
<1>7. /\ n = [o EXCEPT !.phase = n.phase, !.res = n.res, !.data = n.data]
      /\ n.res = o.res => n = [o EXCEPT !.phase = n.phase, !.data = n.data]
      /\ n.phase = o.phase /\ n.data = o.data /\ n.res = o.res => n = o
  BY <1>2, <1>3, SameOp
<1>8. QED
  BY <1>4, <1>5, <1>6, <1>7 DEF o, n

LEMMA ReturnSeen ==
    ASSUME StoreInv, NEW p \in Procs, Moves(p), call'[p].at = "returned",
           call'[p].op = call[p].op, call'[p].client = call[p].client,
           call'[p].key = call[p].key
    PROVE  OpenOps' = [OpenOps EXCEPT ![p].phase = "returned", ![p].res = call'[p].res,
                                     ![p].data = call'[p].data]
<1>1. /\ OpenOps'[p].phase = "returned" /\ OpenOps'[p].res = call'[p].res
      /\ OpenOps'[p].data = call'[p].data
  BY NameFacts DEF OpenOps, AbstractOp
<1>2. QED
  BY <1>1, OpMoves

\* A read that returns what it saw answers as MergedStore says.
LEMMA AnswerSeen ==
    ASSUME StoreInv, NEW p \in Procs, Moves(p), NEW STATE seen,
           Return(p, IF seen = Absent THEN "notfound" ELSE "ok",
                     IF call[p].op = "get" THEN seen ELSE Absent)
    PROVE  Merged!Answer(p, seen)
<1>1. /\ call'[p].op = call[p].op /\ call'[p].client = call[p].client
      /\ call'[p].key = call[p].key /\ call'[p].at = "returned"
      /\ call'[p].res = IF seen = Absent THEN "notfound" ELSE "ok"
      /\ call'[p].data = IF call[p].op = "get" THEN seen ELSE Absent
  BY StoreFacts DEF Return, CallRecord
<1>2. OpenOps' = [OpenOps EXCEPT ![p].phase = "returned", ![p].res = call'[p].res,
                                ![p].data = call'[p].data]
  BY <1>1, ReturnSeen
<1>3. OpenOps[p].op = call[p].op
  BY OpSeen
<1>4. QED
  BY <1>1, <1>2, <1>3 DEF Merged!Answer

LEMMA FailureSeen ==
    ASSUME StoreInv, NEW p \in Procs, Moves(p), Return(p, "error", Absent)
    PROVE  OpenOps' = [OpenOps EXCEPT ![p].phase = "returned", ![p].res = "error",
                                     ![p].data = Absent]
<1>1. /\ call'[p].op = call[p].op /\ call'[p].client = call[p].client
      /\ call'[p].key = call[p].key /\ call'[p].at = "returned"
      /\ call'[p].res = "error" /\ call'[p].data = Absent
  BY StoreFacts DEF Return, CallRecord
<1>2. QED
  BY <1>1, ReturnSeen

\* The call goes on to ask the older store, or to copy back what it found there.
LEMMA DecideSeen ==
    ASSUME StoreInv, NEW p \in Procs, Moves(p), call'[p].at \in Deciding,
           call'[p].op = call[p].op, call'[p].client = call[p].client,
           call'[p].key = call[p].key, call'[p].res = call[p].res
    PROVE  LET seen == OlderViews[call[p].client][call[p].key] IN
           /\ OpenOps' = [OpenOps EXCEPT ![p].phase = "decided", ![p].data = seen]
           /\ call[p].at \in Deciding => OpenOps' = OpenOps
<1> DEFINE seen == OlderViews[call[p].client][call[p].key]
<1>1. seen = LegacyView(call[p].client)[call[p].key]
  BY StoreFacts DEF OlderViews
<1>2. LegacyView(call[p].client)[call[p].key]
        = (LegacyView(call[p].client)[call[p].key])'
  BY DEF LegacyView, LegacyOf, Moves
<1>3. /\ OpenOps'[p].phase = "decided" /\ OpenOps'[p].data = seen
      /\ OpenOps'[p].res = call[p].res
  BY <1>1, <1>2, NameFacts DEF OpenOps, AbstractOp
<1>4. /\ OpenOps[p].res = call[p].res
      /\ call[p].at \in Deciding => OpenOps[p].phase = "decided" /\ OpenOps[p].data = seen
  BY OpSeen
<1> HIDE DEF seen
<1>5. QED
  BY <1>3, <1>4, OpMoves DEF seen

SeenUnchanged == UNCHANGED <<ShownViews, OlderViews, OpenOps>>

LEMMA PrimarySeen ==
    ASSUME StoreInv, NEW p \in Procs, PrimaryHit(p) \/ PrimaryMiss(p), Moves(p)
    PROVE  Merged!ReadNow(p) \/ Merged!ReadDecide(p)
<1> DEFINE c == call[p]
           seen == ShownViews[OpenOps[p].client][OpenOps[p].key]
<1>1. /\ Looking(p) /\ c.at = "primary" /\ UNCHANGED bucket
      /\ c.client \in Clients /\ c.key \in Keys /\ c.res = c.res
  BY StoreFacts DEF PrimaryHit, PrimaryMiss
<1>2. /\ UNCHANGED <<ShownViews, OlderViews>>
      /\ OpenOps[p].op = c.op /\ OpenOps[p].phase = "open"
      /\ OpenOps[p].client = c.client /\ OpenOps[p].key = c.key
      /\ Merged!IsRead(p)
  BY <1>1, ShownViewsStay, OlderViewsStay, OpSeen DEF Looking, Merged!IsRead
<1>3. seen = IF bucket[c.client][c.key] # Absent THEN bucket[c.client][c.key]
             ELSE OlderViews[c.client][c.key]
  BY <1>1, <1>2, ViewTypes DEF StoreInv
<1>4. CASE PrimaryHit(p)
  <2>1. /\ seen = bucket[c.client][c.key] /\ seen # Absent
        /\ Return(p, "ok", IF c.op = "get" THEN seen ELSE Absent)
    BY <1>3, <1>4 DEF PrimaryHit
  <2> HIDE DEF seen
  <2>2. Merged!Answer(p, seen)
    BY <2>1, AnswerSeen
  <2>3. QED
    BY <1>2, <2>2 DEF Merged!ReadNow, seen
<1>5. CASE PrimaryMiss(p) /\ ~ FallsBack(c.client)
  <2>1. seen = Absent /\ Return(p, "notfound", Absent)
    BY <1>1, <1>3, <1>5, ViewTypes DEF PrimaryMiss, StoreInv
  <2> HIDE DEF seen
  <2>2. Merged!Answer(p, seen)
    BY <2>1, AnswerSeen
  <2>3. QED
    BY <1>2, <2>2 DEF Merged!ReadNow, seen
<1>6. CASE PrimaryMiss(p) /\ FallsBack(c.client)
  <2>1. seen = OlderViews[c.client][c.key]
    BY <1>3, <1>6 DEF PrimaryMiss
  <2>2. call' = [call EXCEPT ![p].at = "fallback"]
    BY <1>6 DEF PrimaryMiss
  <2>3. /\ call'[p].at \in Deciding /\ call'[p].op = c.op /\ call'[p].client = c.client
        /\ call'[p].key = c.key /\ call'[p].res = c.res
    BY <2>2, StoreFacts, NameFacts DEF CallRecord
  <2>4. OpenOps' = [OpenOps EXCEPT ![p].phase = "decided", ![p].data = seen]
    BY <2>1, <2>3, DecideSeen
  <2>5. QED
    BY <1>2, <2>1, <2>4 DEF Merged!ReadDecide
<1>7. QED
  BY <1>4, <1>5, <1>6

LEMMA FallbackSeen ==
    ASSUME StoreInv, NEW p \in Procs, FallbackHit(p) \/ FallbackMiss(p), Moves(p)
    PROVE  Merged!ReadLater(p) \/ SeenUnchanged
<1> DEFINE c == call[p]
           old == bucket["fallback"]
           seen == OpenOps[p].data
<1>1. /\ Looking(p) /\ c.at \in {"fallback", "stripped"} /\ UNCHANGED bucket
      /\ c.client \in Clients /\ c.key \in Keys /\ CallFits(c, old) /\ FallsBack(c.client)
  BY StoreFacts, NameFacts DEF FallbackHit, FallbackMiss, CallFits
<1>2. /\ UNCHANGED <<ShownViews, OlderViews>>
      /\ OpenOps[p].op = c.op /\ OpenOps[p].phase = "decided" /\ OpenOps[p].res = c.res
      /\ seen = OlderViews[c.client][c.key]
  BY <1>1, ShownViewsStay, OlderViewsStay, OpSeen, NameFacts
<1>3. seen = OldValue(old, c.key)
  BY <1>1, <1>2, ViewTypes DEF StoreInv
<1>4. CASE FallbackHit(p)
  <2>1. seen = old[FallbackKey(c)] /\ seen # Absent
    BY <1>1, <1>3, <1>4 DEF FallbackHit, FallbackKey, OldValue, CallFits
  <2>2. CASE Return(p, "ok", Absent) /\ c.op # "get"
    <3>1. Merged!Answer(p, seen)
      BY <2>1, <2>2, AnswerSeen
    <3>2. QED
      BY <1>2, <3>1 DEF Merged!ReadLater
  <2>3. CASE call' = [call EXCEPT ![p].at = "copyback", ![p].data = old[FallbackKey(c)]]
    <3>1. /\ call'[p].at \in Deciding /\ call'[p].op = c.op /\ call'[p].client = c.client
          /\ call'[p].key = c.key /\ call'[p].res = c.res
      BY <2>3, StoreFacts, NameFacts DEF CallRecord
    <3>2. OpenOps' = OpenOps
      BY <1>1, <3>1, DecideSeen, NameFacts
    <3>3. QED
      BY <1>2, <3>2 DEF SeenUnchanged
  <2>4. QED
    BY <1>4, <2>2, <2>3 DEF FallbackHit
<1>5. CASE FallbackMiss(p)
  <2>1. CASE /\ c.at = "fallback" /\ Strip[c.key] # NoKey
             /\ call' = [call EXCEPT ![p].at = "stripped"]
    <3>1. /\ call'[p].at \in Deciding /\ call'[p].op = c.op /\ call'[p].client = c.client
          /\ call'[p].key = c.key /\ call'[p].res = c.res
      BY <2>1, StoreFacts, NameFacts DEF CallRecord
    <3>2. OpenOps' = OpenOps
      BY <1>1, <3>1, DecideSeen, NameFacts
    <3>3. QED
      BY <1>2, <3>2 DEF SeenUnchanged
  <2>2. CASE ~ (c.at = "fallback" /\ Strip[c.key] # NoKey) /\ Return(p, "notfound", Absent)
    <3>1. seen = Absent
      BY <1>1, <1>3, <1>5, <2>2 DEF FallbackMiss, FallbackKey, OldValue, CallFits
    <3>2. Merged!Answer(p, seen)
      BY <2>2, <3>1, AnswerSeen
    <3>3. QED
      BY <1>2, <3>2 DEF Merged!ReadLater
  <2>3. QED
    BY <1>5, <2>1, <2>2 DEF FallbackMiss
<1>6. QED
  BY <1>4, <1>5

\* An operation that is under way is not quiet.
LEMMA BusySeen ==
    ASSUME StoreInv, NEW p \in Procs, call[p].at = "primary" \/ call[p].at \in Deciding
    PROVE  ~ Merged!Quiet(OpenOps[p])
BY OpSeen DEF Merged!Quiet

LEMMA FailSeen ==
    ASSUME StoreInv, NEW p \in Procs, LookupFails(p), Moves(p)
    PROVE  Merged!Fail(p)
<1>1. ~ Merged!Quiet(OpenOps[p])
  BY BusySeen, NameFacts DEF LookupFails
<1>2. UNCHANGED <<ShownViews, OlderViews>>
  BY ShownViewsStay, OlderViewsStay DEF LookupFails
<1>3. OpenOps' = [OpenOps EXCEPT ![p].phase = "returned", ![p].res = "error",
                                ![p].data = Absent]
  BY FailureSeen DEF LookupFails
<1>4. QED
  BY <1>1, <1>2, <1>3 DEF Merged!Fail

LEMMA CopyBackSeen ==
    ASSUME StoreInv, NEW p \in Procs, CopyBack(p) \/ CopyBackFails(p), Moves(p)
    PROVE  Merged!ReadLater(p)
<1> DEFINE c == call[p]
           seen == OpenOps[p].data
<1>1. /\ c.at = "copyback" /\ c.client \in Clients /\ c.key \in Keys
      /\ CallFits(c, bucket["fallback"]) /\ Return(p, "ok", c.data)
      /\ c.data \in Object /\ c.op = "get" /\ FallsBack(c.client)
  BY StoreFacts, NameFacts DEF CopyBack, CopyBackFails, CallFits, Maybe
<1>2. /\ OlderViews' = OlderViews
      /\ OpenOps[p].op = "get" /\ OpenOps[p].phase = "decided"
      /\ OpenOps[p].client = c.client /\ OpenOps[p].key = c.key
      /\ seen = OlderViews[c.client][c.key]
  BY <1>1, OlderViewsStay, OpSeen, NameFacts DEF Moves
<1>3. seen = c.data /\ seen # Absent
  BY <1>1, <1>2, ViewTypes, NameFacts DEF StoreInv, CallFits
<1>4. Merged!Answer(p, seen)
  BY <1>1, <1>3, AnswerSeen
<1>5. \/ ShownViews' = ShownViews
      \/ ShownViews' = [ShownViews EXCEPT ![c.client][c.key] = c.data]
  BY <1>1, ShownViewsStay, WriteShows DEF CopyBack, CopyBackFails
<1>6. QED
  BY <1>2, <1>3, <1>4, <1>5 DEF Merged!ReadLater

LEMMA PutSeen ==
    ASSUME StoreInv, NEW p \in Procs, Put(p) \/ PutFails(p), Moves(p)
    PROVE  Merged!Write(p) \/ Merged!Fail(p)
<1> DEFINE c == call[p]
<1>1. /\ c.at = "primary" /\ c.client \in Clients /\ c.key \in Keys
      /\ c.data \in Object /\ c.op = "put"
  BY StoreFacts DEF Put, PutFails, CallFits
<1>2. /\ OlderViews' = OlderViews /\ OpenOps[p].op = "put" /\ OpenOps[p].phase = "open"
      /\ OpenOps[p].client = c.client /\ OpenOps[p].key = c.key /\ OpenOps[p].data = c.data
      /\ ~ Merged!Quiet(OpenOps[p])
  BY <1>1, OlderViewsStay, OpSeen, BusySeen DEF Moves
<1>3. /\ UNCHANGED bucket => ShownViews' = ShownViews
      /\ Store(c.client, c.key, c.data) =>
           ShownViews' = [ShownViews EXCEPT ![c.client][c.key] = c.data]
  BY <1>1, ShownViewsStay, WriteShows
<1>4. CASE Put(p)
  <2>1. OpenOps' = [OpenOps EXCEPT ![p].phase = "returned", ![p].res = "ok",
                                  ![p].data = Absent]
    <3>1. /\ call'[p].op = c.op /\ call'[p].client = c.client /\ call'[p].key = c.key
          /\ call'[p].at = "returned" /\ call'[p].res = "ok" /\ call'[p].data = Absent
      BY <1>4, StoreFacts DEF Put, Return, CallRecord
    <3>2. QED
      BY <3>1, ReturnSeen
  <2>2. QED
    BY <1>2, <1>3, <1>4, <2>1 DEF Put, Merged!Write
<1>5. CASE PutFails(p)
  <2>1. OpenOps' = [OpenOps EXCEPT ![p].phase = "returned", ![p].res = "error",
                                  ![p].data = Absent]
    BY <1>5, FailureSeen DEF PutFails
  <2>2. QED
    BY <1>2, <1>3, <1>5, <2>1 DEF PutFails, Merged!Fail
<1>6. QED
  BY <1>4, <1>5

LEMMA InvokeSeen ==
    ASSUME StoreInv, NEW p \in Procs, Invoke(p)
    PROVE  Merged!Open(p)
<1>1. /\ Moves(p) /\ UNCHANGED bucket
      /\ call'[p].at = "primary" /\ call'[p].res = "none"
      /\ call'[p].op \in {"get", "exists", "put"} /\ call'[p].key \in Keys
      /\ call'[p].client \in Clients /\ call'[p].data \in Maybe
  BY InvokeMoves DEF Moves, CallRecord
<1>2. UNCHANGED <<ShownViews, OlderViews>>
  BY <1>1, ShownViewsStay, OlderViewsStay
<1>3. Merged!Quiet(OpenOps[p])
  BY OpSeen DEF Invoke, Answered, Merged!Quiet
<1>4. OpenOps' = [OpenOps EXCEPT ![p] = OpenOps'[p]]
  BY <1>1, OthersSeenAlike
<1>5. /\ OpenOps'[p].phase = "open" /\ OpenOps'[p].res = "none"
      /\ OpenOps'[p].op \in {"get", "exists", "put"}
      /\ OpenOps'[p].client \in Clients /\ OpenOps'[p].key \in Keys
      /\ OpenOps'[p].data \in Maybe
  BY <1>1, NameFacts DEF OpenOps, AbstractOp
<1>6. QED
  BY <1>2, <1>3, <1>4, <1>5 DEF Merged!Open, Merged!Maybe, Maybe

LEMMA PublishSeen ==
    ASSUME StoreInv, NEW k \in CatalogKeys, Publish(k)
    PROVE  Merged!Publish
<1> DEFINE o == Original(k, catalog[k] + 1)
<1>1. /\ k \in Keys /\ o \in Object /\ Store("origin", k, o)
      /\ bucket'["fallback"] = bucket["fallback"] /\ UNCHANGED call
  BY PublishWrites
<1>2. OlderViews' = OlderViews
  BY <1>1, OlderViewsStay
<1>3. OpenOps' = OpenOps
  BY <1>1 DEF OpenOps, AbstractOp, LegacyView, LegacyOf
<1>4. "origin" \in Clients
  BY DEF Clients
<1> HIDE DEF o
<1>5. /\ ShownViews' = [ShownViews EXCEPT !["origin"][k] = o]
      /\ ShownViews \in [Clients -> [Keys -> Maybe]]
  BY <1>1, <1>4, WriteShows, ViewTypes DEF StoreInv
<1>6. ShownViews'["origin"][k] = o
  BY <1>1, <1>4, <1>5
<1>7. QED
  BY <1>1, <1>2, <1>3, <1>4, <1>5, <1>6 DEF Merged!Publish

LEMMA CrashSeen ==
    ASSUME StoreInv, Crash
    PROVE  Merged!Crash
<1>1. UNCHANGED <<ShownViews, OlderViews>>
  BY ShownViewsStay, OlderViewsStay DEF Crash
<1>2. \A p \in Procs : OpenOps'[p].phase = "idle"
  BY NameFacts DEF Crash, OpenOps, AbstractOp, NoCall
<1>3. QED
  BY <1>1, <1>2 DEF Merged!Crash

LEMMA InitSeen ==
    StoreInit => Merged!Init
<1> SUFFICES ASSUME StoreInit PROVE Merged!Init
  OBVIOUS
<1>1. StoreInv
  BY StoreInitially
<1>2. /\ ShownViews \in [Clients -> [Keys -> Maybe]]
      /\ OlderViews \in [Clients -> [Keys -> Maybe]]
      /\ \A c \in Clients, k \in Keys :
           ShownViews[c][k] = OlderViews[c][k] \/ ShownViews[c][k] # Absent
  BY <1>1, ViewTypes DEF StoreInv
<1>3. \A p \in Procs : OpenOps[p].phase = "idle"
  BY NameFacts DEF StoreInit, OpenOps, AbstractOp, NoCall
<1>4. QED
  BY <1>2, <1>3 DEF Merged!Init, Merged!Maybe, Maybe

LEMMA StepSeen ==
    StoreInv /\ [StoreNext]_storeVars => [Merged!Next]_(Merged!vars)
<1> SUFFICES ASSUME StoreInv, [StoreNext]_storeVars PROVE Merged!Next \/ SeenUnchanged
  BY DEF Merged!vars, SeenUnchanged
<1>1. ASSUME NEW p \in Procs, Invoke(p) PROVE Merged!Next
  BY <1>1, InvokeSeen DEF Merged!Next
<1>2. ASSUME NEW p \in Procs, S3Step(p) PROVE Merged!Next \/ SeenUnchanged
  <2>1. Moves(p)
    BY <1>2, S3StepMoves
  <2>2. \/ Merged!ReadNow(p) \/ Merged!ReadDecide(p) \/ Merged!ReadLater(p)
        \/ Merged!Fail(p) \/ Merged!Write(p) \/ SeenUnchanged
    BY <1>2, <2>1, PrimarySeen, FallbackSeen, FailSeen, CopyBackSeen, PutSeen DEF S3Step
  <2>3. QED
    BY <2>2 DEF Merged!Next
<1>3. ASSUME NEW k \in CatalogKeys, Publish(k) PROVE Merged!Next
  BY <1>3, PublishSeen DEF Merged!Next
<1>4. CASE Crash
  BY <1>4, CrashSeen DEF Merged!Next
<1>5. CASE UNCHANGED storeVars
  BY <1>5 DEF storeVars, SeenUnchanged, ShownViews, OlderViews, OpenOps, View, LegacyView,
              LegacyOf, AbstractOp
<1>6. QED
  BY <1>1, <1>2, <1>3, <1>4, <1>5 DEF StoreNext

\* The chain of lookups with its copy-back, interleaved with every other call,
\* with publications, failures and crashes, implements one map read and written
\* at one instant (s3.go Get, Exists, Put).
THEOREM StoreRefines == StoreSpec => ImplementsMergedStore
<1>1. StoreInit => Merged!Init
  BY InitSeen
<1>2. StoreInv /\ [StoreNext]_storeVars => [Merged!Next]_(Merged!vars)
  BY StepSeen
<1>3. QED
  BY <1>1, <1>2, StoreInvariant, PTL DEF StoreSpec, ImplementsMergedStore, Merged!Spec
=============================================================================
