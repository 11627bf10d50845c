----------------------------- MODULE MergedStore -----------------------------
(***************************************************************************)
(* What an S3 client of this service promises its callers, without saying  *)
(* how: every client shows one map from keys to objects.  A caller opens a *)
(* read or a write and some time later gets one answer.  The answer to a   *)
(* read is the value the map had at one instant between the two.           *)
(*                                                                         *)
(* The map of a client is the bucket it writes, laid over an older store   *)
(* it may fall back to.  The promise has one honest weakness: a read that  *)
(* was decided by the older store may put that older value back into the   *)
(* map when it answers.  Nothing else but a write, or the catalogue system *)
(* that owns the originals, ever changes the map, and the older store is   *)
(* never changed at all.                                                   *)
(***************************************************************************)
CONSTANTS Procs, Clients, Keys, Objects, Absent

VARIABLES
    view,     \* view[c][k]: what client c shows under key k
    legacy,   \* legacy[c][k]: what the older store behind c holds for key k
    op        \* op[p]: the operation process p has open, and its answer

vars == <<view, legacy, op>>

Maybe == Objects \union {Absent}

Quiet(o) == o.phase \in {"idle", "returned"}

Init ==
    /\ view \in [Clients -> [Keys -> Maybe]]
    /\ legacy \in [Clients -> [Keys -> Maybe]]
    /\ \A c \in Clients, k \in Keys : view[c][k] = legacy[c][k] \/ view[c][k] # Absent
    /\ \A p \in Procs : op[p].phase = "idle"

\* A process opens a read, a test for existence or a write.
Open(p) ==
    /\ Quiet(op[p])
    /\ op' = [op EXCEPT ![p] = op'[p]]
    /\ op'[p].phase = "open" /\ op'[p].res = "none"
    /\ op'[p].op \in {"get", "exists", "put"}
    /\ op'[p].client \in Clients /\ op'[p].key \in Keys /\ op'[p].data \in Maybe
    /\ UNCHANGED <<view, legacy>>

\* The answer to a read that saw the object (or the absence) seen.
Answer(p, seen) ==
    op' = [op EXCEPT ![p].phase = "returned",
                     ![p].res = IF seen = Absent THEN "notfound" ELSE "ok",
                     ![p].data = IF op[p].op = "get" THEN seen ELSE Absent]

IsRead(p) == op[p].op \in {"get", "exists"}

\* A read takes the value of the map and answers at once ...
ReadNow(p) ==
    /\ IsRead(p) /\ op[p].phase = "open"
    /\ Answer(p, view[op[p].client][op[p].key])
    /\ UNCHANGED <<view, legacy>>

\* ... or takes it now and answers later, which it may only do when the value
\* is the older store's.
ReadDecide(p) ==
    LET seen == view[op[p].client][op[p].key] IN
    /\ IsRead(p) /\ op[p].phase = "open"
    /\ seen = legacy[op[p].client][op[p].key]
    /\ op' = [op EXCEPT ![p].phase = "decided", ![p].data = seen]
    /\ UNCHANGED <<view, legacy>>

\* A decided read answers what it saw; a decided get of an object may at that
\* moment put the object back into the map.
ReadLater(p) ==
    /\ op[p].phase = "decided"
    /\ Answer(p, op[p].data)
    /\ \/ view' = view
       \/ /\ op[p].op = "get" /\ op[p].data # Absent
          /\ view' = [view EXCEPT ![op[p].client][op[p].key] = op[p].data]
    /\ UNCHANGED legacy

\* Any operation may fail; a failed write may or may not have taken effect.
Fail(p) ==
    /\ ~ Quiet(op[p])
    /\ op' = [op EXCEPT ![p].phase = "returned", ![p].res = "error", ![p].data = Absent]
    /\ \/ view' = view
       \/ /\ op[p].op = "put"
          /\ view' = [view EXCEPT ![op[p].client][op[p].key] = op[p].data]
    /\ UNCHANGED legacy

Write(p) ==
    /\ op[p].op = "put" /\ op[p].phase = "open"
    /\ op' = [op EXCEPT ![p].phase = "returned", ![p].res = "ok", ![p].data = Absent]
    /\ view' = [view EXCEPT ![op[p].client][op[p].key] = op[p].data]
    /\ UNCHANGED legacy

\* The owner of the originals publishes an object behind every client's back.
Publish ==
    /\ UNCHANGED <<legacy, op>>
    /\ \E c \in Clients, k \in Keys :
         /\ view'[c][k] \in Objects
         /\ view' = [view EXCEPT ![c][k] = view'[c][k]]

\* The process dies with every operation it has open.
Crash ==
    /\ \A p \in Procs : op'[p].phase = "idle"
    /\ UNCHANGED <<view, legacy>>

Next ==
    \/ Publish
    \/ Crash
    \/ \E p \in Procs :
         Open(p) \/ ReadNow(p) \/ ReadDecide(p) \/ ReadLater(p) \/ Fail(p) \/ Write(p)

Spec == Init /\ [][Next]_vars
==============================================================================
