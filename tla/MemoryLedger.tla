---------------------------- MODULE MemoryLedger ----------------------------
(***************************************************************************)
(* The in-memory managed repository.  Each call takes the state lock once,  *)
(* except admission, which takes it three times; a call that fails keeps    *)
(* what it had already changed.  Requests, a recovery worker, deletes and   *)
(* the purge drive it the way they drive the PostgreSQL ledger.             *)
(***************************************************************************)
EXTENDS Integers, FiniteSets

CONSTANTS
    Ops,             \* PUT operations and the generations they write
    Keys,            \* logical keys of the workspace
    Worker, Writer,  \* recovery worker, lease owner of a request
    NoOp, Nobody,    \* free slot, no owner
    Sizes,           \* output sizes
    VisibleLimit, Headroom, ReservationCap,
    MaxEpoch, MaxCas \* bounds on epochs and on authority versions

VARIABLES
    space,   \* fenced_namespaces, namespace_epochs, routing_epochs
    usage,   \* workspace_usage
    auth,    \* authorities
    op,      \* logical_operations
    lease,   \* physical_write_intents with their leases
    rows,    \* physical_versions
    stale,   \* generations with a DELETE_GENERATION repair
    run      \* requests, the worker's claim, versions at the provider

memVars == <<space, usage, auth, op, lease, rows, stale, run>>

NoRow == [st |-> "none", key |-> CHOOSE k \in Keys : TRUE, cas |-> 0, prior |-> 0,
          fence |-> <<0, 0>>, reserved |-> 0, size |-> -1, committed |-> 0, released |-> 0,
          claim |-> Nobody, live |-> FALSE]
Absent == [cas |-> 0, gen |-> NoOp, size |-> 0, tomb |-> FALSE]
NoLease == [owner |-> Nobody, live |-> FALSE]
Closed == {"none", "Committed", "ProvenAborted"}

MemInit ==
    /\ space = [fenced |-> FALSE, epoch |-> 1, routing |-> 1]
    /\ usage = [visible |-> 0, allocated |-> 0, reserved |-> 0, active |-> NoOp]
    /\ auth = [k \in Keys |-> Absent]
    /\ op = [o \in Ops |-> NoRow]
    /\ lease = [o \in Ops |-> NoLease]
    /\ rows = {} /\ stale = {}
    /\ run = [pc |-> [o \in Ops |-> "idle"], cap |-> [o \in Ops |-> 0],
              stored |-> [o \in Ops |-> 0], job |-> NoOp]

Live(k) == auth[k].cas > 0 /\ ~auth[k].tomb
SizeOf(k) == IF Live(k) THEN auth[k].size ELSE 0
RowsOf(o) == {r \in rows : r[1] = o}
Fence == <<space.epoch, space.routing>>
Goes(o, pc) == run' = [run EXCEPT !.pc[o] = pc]

-----------------------------------------------------------------------------
(* Admission: three lock acquisitions                                      *)

InsertLogicalOperation(o) ==
    /\ run.pc[o] = "idle" /\ ~space.fenced
    /\ \E k \in Keys :
         op' = [op EXCEPT ![o] = [NoRow EXCEPT !.st = "Intent", !.key = k, !.cas = auth[k].cas,
                                               !.prior = SizeOf(k), !.fence = Fence]]
    /\ Goes(o, "inserted")
    /\ UNCHANGED <<space, usage, auth, lease, rows, stale>>

\* The cap is read under one lock and used under another.
AdmitLogicalOperation(o) ==
    LET left == VisibleLimit + Headroom - usage.allocated - usage.reserved
        room == IF left < 1 THEN 1 ELSE left IN
    /\ run.pc[o] = "inserted"
    /\ run' = [run EXCEPT !.pc[o] = "capped",
                          !.cap[o] = IF ReservationCap < room THEN ReservationCap ELSE room]
    /\ UNCHANGED <<space, usage, auth, op, lease, rows, stale>>

\* Mutant: the slot was free when the cap was read.
MutReservable(o) ==
    /\ op[o].st = "Intent" /\ ~space.fenced /\ op[o].fence = Fence
    /\ usage.allocated + usage.reserved + run.cap[o] <= VisibleLimit + Headroom

Reservable(o) ==
    /\ op[o].st = "Intent" /\ ~space.fenced /\ op[o].fence = Fence /\ usage.active = NoOp
    /\ usage.allocated + usage.reserved + run.cap[o] <= VisibleLimit + Headroom

\* A refused reservation leaves the INTENT row behind.
ReserveLogicalOperation(o) ==
    /\ run.pc[o] = "capped"
    /\ IF Reservable(o)
       THEN /\ op' = [op EXCEPT ![o].st = "Open", ![o].reserved = run.cap[o]]
            /\ usage' = [usage EXCEPT !.reserved = @ + run.cap[o], !.active = o]
            /\ Goes(o, "admitted")
       ELSE Goes(o, "done") /\ UNCHANGED <<op, usage>>
    /\ UNCHANGED <<space, auth, lease, rows, stale>>

-----------------------------------------------------------------------------
(* Settlement                                                              *)

\* validate_recovery_authority and the physical lease of the caller.
Authorized(o, who) ==
    IF who = Worker THEN op[o].claim = Worker /\ op[o].live ELSE op[o].claim = Nobody
Holds(o, who) == lease[o] = [owner |-> who, live |-> TRUE]

BeginPhysicalWrite(o) ==
    /\ run.pc[o] = "admitted"
    /\ IF op[o].st = "Open" /\ usage.active = o /\ ~space.fenced /\ op[o].fence = Fence
       THEN lease' = [lease EXCEPT ![o] = [owner |-> Writer, live |-> TRUE]] /\ Goes(o, "begun")
       ELSE Goes(o, "failed") /\ UNCHANGED lease
    /\ UNCHANGED <<space, usage, auth, op, rows, stale>>

RecordUsageAndBeginCompletion(o, size) ==
    /\ run.pc[o] = "begun" /\ op[o].st = "Open"
    /\ op' = [op EXCEPT ![o].st = "Completing", ![o].size = size]
    /\ Goes(o, "recorded")
    /\ UNCHANGED <<space, usage, auth, lease, rows, stale>>

\* The provider may keep the version of an attempt the request retried.
Publish(o) ==
    /\ run.pc[o] = "recorded" /\ op[o].st # "ProvenAborted"
    /\ \E n \in 1..2 : run' = [run EXCEPT !.pc[o] = "published", !.stored[o] = n]
    /\ UNCHANGED <<space, usage, auth, op, lease, rows, stale>>

Finalizable(o, who) ==
    /\ Authorized(o, who) /\ Holds(o, who) /\ ~space.fenced /\ op[o].fence = Fence
    /\ op[o].st = "Completing" \/ (op[o].st = "RecoveryBlocked" /\ who = Worker)

Visible(o) == usage.visible - op[o].prior + op[o].size

\* The checks that follow the version rows.
Acceptable(o) ==
    /\ op[o].size * run.stored[o] <= op[o].reserved
    /\ auth[op[o].key].cas = op[o].cas /\ SizeOf(op[o].key) = op[o].prior
    /\ usage.active = o /\ Visible(o) <= VisibleLimit

UsageAfter(o, alloc) ==
    [usage EXCEPT !.visible = Visible(o), !.allocated = @ + alloc,
                  !.reserved = @ - op[o].reserved, !.active = NoOp]

\* finalize_logical_put writes the version rows before it knows that it will succeed.
FinalizeLogicalPut(o, who) ==
    LET k == op[o].key
        alloc == op[o].size * run.stored[o] IN
    /\ rows' = IF Finalizable(o, who) THEN rows \cup ({o} \X (1..run.stored[o])) ELSE rows
    /\ IF Finalizable(o, who) /\ Acceptable(o)
       THEN /\ auth' = [auth EXCEPT ![k] = [cas |-> @.cas + 1, gen |-> o, size |-> op[o].size,
                                            tomb |-> FALSE]]
            /\ stale' = stale \cup {g \in Ops : Live(k) /\ auth[k].gen = g /\ RowsOf(g) # {}}
            /\ usage' = UsageAfter(o, alloc)
            /\ op' = [op EXCEPT ![o].st = "Committed", ![o].committed = alloc,
                                ![o].claim = Nobody, ![o].live = FALSE]
            /\ lease' = [lease EXCEPT ![o] = NoLease]
       ELSE UNCHANGED <<auth, stale, usage, op, lease>>
    /\ UNCHANGED space

RequestFinalizes(o) ==
    /\ run.pc[o] = "published"
    /\ FinalizeLogicalPut(o, Writer)
    /\ Goes(o, "done")

\* NoChildStarted without an intent, or a held lease over a child that wrote nothing.
Abortable(o, who) ==
    /\ Authorized(o, who) /\ op[o].st \notin Closed /\ op[o].fence[1] = space.epoch
    /\ RowsOf(o) = {} /\ run.stored[o] = 0
    /\ \/ lease[o] = NoLease /\ op[o].st \in {"Intent", "Open"}
       \/ Holds(o, who)
    /\ op[o].st = "Intent" \/ usage.active = o

AbortLogicalPut(o, who) ==
    /\ Abortable(o, who)
    /\ usage' = [usage EXCEPT !.reserved = @ - op[o].reserved,
                              !.active = IF @ = o THEN NoOp ELSE @]
    /\ op' = [op EXCEPT ![o].st = "ProvenAborted", ![o].claim = Nobody, ![o].live = FALSE]
    /\ lease' = [lease EXCEPT ![o] = NoLease]
    /\ UNCHANGED <<space, auth, rows, stale>>

RequestAborts(o) ==
    /\ run.pc[o] \in {"failed", "begun", "recorded"}
    /\ AbortLogicalPut(o, Writer)
    /\ Goes(o, "done")

\* The request is dropped: nothing more of it runs.
Lost(o) ==
    /\ run.pc[o] \notin {"idle", "done"}
    /\ Goes(o, "done")
    /\ UNCHANGED <<space, usage, auth, op, lease, rows, stale>>

-----------------------------------------------------------------------------
(* Recovery                                                                *)

LeaseExpires(o) ==
    /\ \/ lease[o].live /\ lease' = [lease EXCEPT ![o].live = FALSE] /\ UNCHANGED op
       \/ op[o].live /\ op' = [op EXCEPT ![o].live = FALSE] /\ UNCHANGED lease
    /\ UNCHANGED <<space, usage, auth, rows, stale, run>>

ClaimStaleLogicalOperations(o) ==
    /\ run.job = NoOp /\ op[o].st \notin Closed /\ ~op[o].live
    /\ op' = [op EXCEPT ![o].claim = Worker, ![o].live = TRUE]
    /\ run' = [run EXCEPT !.job = o]
    /\ UNCHANGED <<space, usage, auth, lease, rows, stale>>

ClaimPhysicalWriteIntent(o) ==
    /\ run.job = o /\ Authorized(o, Worker) /\ lease[o].owner # Nobody /\ ~lease[o].live
    /\ lease' = [lease EXCEPT ![o] = [owner |-> Worker, live |-> TRUE]]
    /\ UNCHANGED <<space, usage, auth, op, rows, stale, run>>

MarkLogicalRecoveryBlocked(o) ==
    /\ Authorized(o, Worker) /\ op[o].st \notin Closed
    /\ op' = [op EXCEPT ![o].st = "RecoveryBlocked", ![o].claim = Nobody, ![o].live = FALSE]
    /\ UNCHANGED <<space, usage, auth, lease, rows, stale>>

\* One pass over a claimed operation ends in a settlement, a block or a lost claim.
Recover(o) ==
    /\ run.job = o
    /\ run' = [run EXCEPT !.job = NoOp]
    /\ \/ AbortLogicalPut(o, Worker)
       \/ run.stored[o] > 0 /\ FinalizeLogicalPut(o, Worker)
       \/ MarkLogicalRecoveryBlocked(o)
       \/ ~Authorized(o, Worker) /\ UNCHANGED <<space, usage, auth, op, lease, rows, stale>>

-----------------------------------------------------------------------------
(* Deletes, cleanup, routing and purge                                     *)

CommitAtomicLogicalDelete(k) ==
    /\ ~space.fenced /\ usage.active = NoOp /\ ~auth[k].tomb /\ auth[k].cas < MaxCas
    /\ auth' = [auth EXCEPT ![k] = [cas |-> @.cas + 1, gen |-> NoOp, size |-> 0, tomb |-> TRUE]]
    /\ stale' = stale \cup {g \in Ops : Live(k) /\ auth[k].gen = g /\ RowsOf(g) # {}}
    /\ usage' = [usage EXCEPT !.visible = @ - SizeOf(k)]
    /\ UNCHANGED <<space, op, lease, rows, run>>

\* The allocation goes with the last row of the operation.
ForgetPhysicalVersion(o) ==
    /\ o \in stale
    /\ \E r \in RowsOf(o) :
         LET last == RowsOf(o) = {r} IN
         /\ rows' = rows \ {r}
         /\ usage' = IF last THEN [usage EXCEPT !.allocated = @ - op[o].committed + op[o].released]
                     ELSE usage
         /\ op' = IF last THEN [op EXCEPT ![o].released = op[o].committed] ELSE op
    /\ UNCHANGED <<space, auth, lease, stale, run>>

AdvanceRoutingEpoch ==
    /\ ~space.fenced /\ space.routing < MaxEpoch
    /\ space' = [space EXCEPT !.routing = @ + 1]
    /\ UNCHANGED <<usage, auth, op, lease, rows, stale, run>>

\* An authority without a version row keeps the purge from starting.
PurgeNamespace ==
    /\ ~space.fenced /\ space.epoch < MaxEpoch
    /\ \A k \in Keys : Live(k) => RowsOf(auth[k].gen) # {}
    /\ space' = [space EXCEPT !.fenced = TRUE]
    /\ UNCHANGED <<usage, auth, op, lease, rows, stale, run>>

MarkPurgeTargetDeleted ==
    /\ space.fenced
    /\ \E r \in rows : rows' = rows \ {r}
    /\ UNCHANGED <<space, usage, auth, op, lease, stale, run>>

FinishPurge ==
    /\ space.fenced /\ rows = {}
    /\ \A o \in Ops : op[o].st \in Closed /\ lease[o] = NoLease
    /\ auth' = [k \in Keys |-> Absent] /\ stale' = {}
    /\ op' = [o \in Ops |-> [op[o] EXCEPT !.released = op[o].committed]]
    /\ usage' = [visible |-> 0, allocated |-> 0, reserved |-> 0, active |-> NoOp]
    /\ space' = [fenced |-> FALSE, epoch |-> space.epoch + 1, routing |-> space.routing + 1]
    /\ UNCHANGED <<lease, rows, run>>

MemNext ==
    \/ \E o \in Ops :
         InsertLogicalOperation(o) \/ AdmitLogicalOperation(o) \/ ReserveLogicalOperation(o)
         \/ BeginPhysicalWrite(o) \/ Publish(o) \/ RequestFinalizes(o) \/ RequestAborts(o) \/ Lost(o)
         \/ LeaseExpires(o) \/ ClaimStaleLogicalOperations(o) \/ ClaimPhysicalWriteIntent(o)
         \/ Recover(o) \/ ForgetPhysicalVersion(o)
         \/ \E size \in Sizes : RecordUsageAndBeginCompletion(o, size)
    \/ \E k \in Keys : CommitAtomicLogicalDelete(k)
    \/ AdvanceRoutingEpoch \/ PurgeNamespace \/ MarkPurgeTargetDeleted \/ FinishPurge

-----------------------------------------------------------------------------
(* Properties                                                              *)

Contract == INSTANCE WorkspaceLedger WITH
    object <- [k \in Keys |-> [cas |-> auth[k].cas, size |-> SizeOf(k)]],
    hold <- [o \in Ops |->
               IF op[o].st \in Closed \cup {"Intent"} \/ usage.active # o
               THEN [slot |-> FALSE, bytes |-> op[o].committed - op[o].released]
               ELSE [slot |-> TRUE, bytes |-> op[o].reserved]]

\* Split admission, version rows written by finalizations that fail, recovery, deletes and purges
\* keep the byte contract: MemoryLedger implements WorkspaceLedger.
MemoryImplements == Contract!Spec
=============================================================================
