--------------------------- MODULE ManagedLedger ---------------------------
(***************************************************************************)
(* The managed write path of one workspace: the PostgreSQL authority       *)
(* ledger (crates/gateway/src/managed/postgres.rs), the request that       *)
(* drives a PUT through it (service_storage/core.rs, sinks.rs), the        *)
(* recovery worker that finishes what a lost request left behind, logical  *)
(* DELETE, generation cleanup and the namespace purge.                     *)
(*                                                                         *)
(* Every repository call that is one database transaction is one step.     *)
(* A request reads, admits, begins its physical child, streams, records    *)
(* its usage evidence, publishes at the provider and finalizes in separate *)
(* steps, so it can be lost, or overtaken by a recovery worker, between    *)
(* any two of them.  Leases and recovery claims carry a wall-clock expiry  *)
(* in the code; here a lease is live until an expiry step ends it.         *)
(*                                                                         *)
(* A PUT operation doubles as the generation it writes and as its primary  *)
(* child: operation, generation and child identifiers are one to one.      *)
(***************************************************************************)
EXTENDS Integers, FiniteSets

CONSTANTS
    Ops,             \* PUT operations (and the generations they write)
    Keys,            \* logical object keys of the workspace
    Workers,         \* gateway processes running the recovery loop
    Writer,          \* the lease owner name of a request ("managed-writer-...")
    NoWorker, NoOp,  \* absent recovery owner, free mutation slot
    Sizes,           \* output sizes a request may produce
    VisibleLimit,    \* visible_limit_bytes
    Headroom,        \* replacement_headroom_bytes
    ReservationCap,  \* max_processed_bytes * MANAGED_STREAMING_PUT_HEADROOM
    MaxAttempts,     \* provider attempts of one child (3 in the code)
    ExactRecovery,   \* the backend enumerates the exact versions of a child
    MaxEpoch,        \* bound: namespace epochs explored
    MaxRouting,      \* bound: routing epochs explored
    MaxCas           \* bound: authority versions a DELETE may reach

NoSize == -1

ASSUME LedgerAssumption ==
    /\ NoWorker \notin Workers /\ Writer \notin Workers /\ Writer # NoWorker
    /\ NoOp \notin Ops /\ Keys # {}
    /\ Sizes \subseteq Nat
    /\ VisibleLimit \in Nat /\ Headroom \in Nat
    /\ ReservationCap \in Nat \ {0} /\ MaxAttempts \in Nat \ {0}
    /\ ExactRecovery \in BOOLEAN
    /\ MaxEpoch \in Nat /\ MaxRouting \in Nat /\ MaxCas \in Nat

\* A ledger has finitely many rows, so that their bytes have a sum.
ASSUME FiniteAssumption == IsFiniteSet(Ops) /\ IsFiniteSet(Keys)

VARIABLES
    ns,       \* managed_namespace: active or purging, the two fence epochs
    usage,    \* managed_workspace_usage: byte counters and mutation slot
    auth,     \* managed_object_authority, one row per key (cas 0: no row)
    op,       \* managed_logical_operation
    intent,   \* managed_physical_write_intent of the operation's child
    child,    \* object_operation: the child's journal row
    ledger,   \* managed_physical_object_version rows of the child
    cleanup,  \* a DELETE_GENERATION repair exists for the generation
    prov,     \* the provider: attempts in flight and versions stored
    req,      \* the request of the operation
    work      \* the recovery pass of each worker

vars == <<ns, usage, auth, op, intent, child, ledger, cleanup, prov, req, work>>

-----------------------------------------------------------------------------
(* States                                                                  *)

Attempts == 1..MaxAttempts

\* INTENT and COMMIT_UNKNOWN of a logical operation are written by no
\* production caller: admission is atomic and completion starts from OPEN.
Terminal == {"Committed", "ProvenAborted"}
Unsettled == {"Open", "Completing", "RecoveryBlocked"}

\* A child's INTENT, OPEN and ABORTING are one state: every reader of the
\* ledger path treats them alike.
ChildOpen == {"Open"}
ChildUnresolved == {"Open", "Completing", "CommitUnknown"}
ChildTerminal == {"Committed", "ProvenAborted"}

NoIntent == [st |-> "none", owner |-> NoWorker, live |-> FALSE]
NoChild == [st |-> "none", expected |-> NoSize, absence |-> FALSE,
            versions |-> {}, complete |-> FALSE]
NoRow == [state |-> "none", key |-> CHOOSE k \in Keys : TRUE, cas |-> 0,
          prior |-> 0, epoch |-> 0, routing |-> 0, reserved |-> 0,
          evidence |-> NoSize, committed |-> 0, released |-> 0,
          claim |-> NoWorker, claimLive |-> FALSE]
Idle == [op |-> NoOp, pc |-> "idle", state |-> "none", evidence |-> NoSize,
         hasIntent |-> FALSE]

RequestPC == {"idle", "read", "fenced", "admitted", "beginFailed", "begun",
              "writing", "verified", "recorded", "launched", "published",
              "dropped", "done"}
WorkerPC == {"idle", "claimed", "renewed", "leased", "reconciled"}

Init ==
    /\ ns = [active |-> TRUE, epoch |-> 1, routing |-> 1]
    /\ usage = [visible |-> 0, allocated |-> 0, reserved |-> 0, active |-> NoOp]
    /\ auth = [k \in Keys |-> [cas |-> 0, gen |-> NoOp, size |-> 0, tomb |-> FALSE]]
    /\ op = [o \in Ops |-> NoRow]
    /\ intent = [o \in Ops |-> NoIntent]
    /\ child = [o \in Ops |-> NoChild]
    /\ ledger = [o \in Ops |-> {}]
    /\ cleanup = [o \in Ops |-> FALSE]
    /\ prov = [o \in Ops |-> [inflight |-> {}, versions |-> {}]]
    /\ req = [o \in Ops |-> [pc |-> "idle", tries |-> 0]]
    /\ work = [w \in Workers |-> Idle]

-----------------------------------------------------------------------------
(* Guards the transactions share                                           *)

\* An authority row that is present and not a tombstone.
Live(k) == auth[k].cas > 0 /\ ~auth[k].tomb

FenceHeld(o) == ns.active /\ ns.epoch = op[o].epoch /\ ns.routing = op[o].routing

\* Mutant: a request ignores a recovery claim.
MutAuthorized(o, w) ==
    IF w = NoWorker THEN TRUE ELSE op[o].claim = w /\ op[o].claimLive

\* validate_recovery_authority: a worker needs its own live claim, a request
\* needs an operation that no worker has claimed, not even a lapsed claim.
Authorized(o, w) ==
    IF w = NoWorker THEN op[o].claim = NoWorker
    ELSE op[o].claim = w /\ op[o].claimLive

\* The physical lease of `holder` (the writer or a worker) is still its own.
LeaseHeld(o, holder) ==
    /\ intent[o].st # "none" /\ intent[o].owner = holder /\ intent[o].live

MinOf(a, b) == IF a <= b THEN a ELSE b
MaxOf(a, b) == IF a >= b THEN a ELSE b

\* admit_logical_operation clamps the reservation to what is left of the
\* physical budget, but never below one byte.
Reservation ==
    MinOf(ReservationCap,
          MaxOf(1, VisibleLimit + Headroom - usage.allocated - usage.reserved))

\* physical_allocation: every provider version of the child is charged.
Allocation(o) == op[o].evidence * Cardinality(child[o].versions)

-----------------------------------------------------------------------------
(* The request: reads before admission                                     *)

\* workspace_lease.rs reads the authority first: its CAS version and size
\* become the operation's expected CAS and prior size.
ReadAuthority(o, k) ==
    /\ req[o].pc = "idle"
    /\ op' = [op EXCEPT ![o] = [@ EXCEPT !.key = k, !.cas = auth[k].cas,
                                         !.prior = IF Live(k) THEN auth[k].size ELSE 0]]
    /\ req' = [req EXCEPT ![o].pc = "read"]
    /\ UNCHANGED <<ns, usage, auth, intent, child, ledger, cleanup, prov, work>>

\* route_fence, in its own transaction, refuses a purging namespace.
ReadFence(o) ==
    /\ req[o].pc = "read" /\ ns.active
    /\ op' = [op EXCEPT ![o].epoch = ns.epoch, ![o].routing = ns.routing]
    /\ req' = [req EXCEPT ![o].pc = "fenced"]
    /\ UNCHANGED <<ns, usage, auth, intent, child, ledger, cleanup, prov, work>>

\* Mutants: admission without the slot check, or without the budget check.
MutAdmitGuardSlot(o) ==
    /\ FenceHeld(o)
    /\ usage.allocated + usage.reserved + Reservation <= VisibleLimit + Headroom
MutAdmitGuardBudget(o) == FenceHeld(o) /\ usage.active = NoOp

\* admit_logical_operation: one transaction takes the workspace's mutation
\* slot, reserves physical bytes and inserts the operation in OPEN.
AdmitGuard(o) ==
    /\ FenceHeld(o)
    /\ usage.active = NoOp
    /\ usage.allocated + usage.reserved + Reservation <= VisibleLimit + Headroom

Admit(o) ==
    /\ req[o].pc = "fenced" /\ AdmitGuard(o)
    /\ op' = [op EXCEPT ![o].state = "Open", ![o].reserved = Reservation]
    /\ usage' = [usage EXCEPT !.reserved = @ + Reservation, !.active = o]
    /\ req' = [req EXCEPT ![o].pc = "admitted"]
    /\ UNCHANGED <<ns, auth, intent, child, ledger, cleanup, prov, work>>

AdmitRejected(o) ==
    /\ req[o].pc = "fenced" /\ ~AdmitGuard(o)
    /\ req' = [req EXCEPT ![o].pc = "done"]
    /\ UNCHANGED <<ns, usage, auth, op, intent, child, ledger, cleanup, prov, work>>

-----------------------------------------------------------------------------
(* abort_logical_put, used by requests and workers                         *)

\* The proof the caller offers must match the witness rows: no intent and no
\* child row; or the caller's own lease and no child row; or the caller's own
\* lease and a child proven absent.
AbortProof(o, proof, holder) ==
    /\ ledger[o] = {}
    /\ \/ /\ proof = "NoChildStarted" /\ holder = NoWorker
          /\ intent[o].st = "none" /\ child[o].st = "none" /\ op[o].state = "Open"
       \/ /\ proof = "NoChildStarted" /\ holder # NoWorker
          /\ LeaseHeld(o, holder) /\ child[o].st = "none"
       \/ /\ proof = "ChildProvenAborted" /\ LeaseHeld(o, holder)
          /\ child[o].st = "ProvenAborted" /\ child[o].absence
          /\ op[o].evidence \in {NoSize, child[o].expected}

AbortVerdict(o, proof, holder, w) ==
    IF ~Authorized(o, w) \/ op[o].state \notin Unsettled THEN "refused"
    ELSE IF ns.epoch # op[o].epoch THEN "blocked"
    ELSE IF AbortProof(o, proof, holder) /\ usage.active = o THEN "aborted"
    ELSE "refused"

\* The effect of a successful abort on operation, usage and intent.
Aborted(o) ==
    /\ op' = [op EXCEPT ![o].state = "ProvenAborted",
                        ![o].claim = NoWorker, ![o].claimLive = FALSE]
    /\ usage' = [usage EXCEPT !.reserved = @ - op[o].reserved, !.active = NoOp]
    /\ intent' = [intent EXCEPT ![o] = NoIntent]

-----------------------------------------------------------------------------
(* The request: its physical child                                         *)

\* begin_physical_write inserts the durable intent with the writer's lease.
BeginGuard(o) == FenceHeld(o) /\ op[o].state = "Open" /\ usage.active = o

BeginChild(o) ==
    /\ req[o].pc = "admitted" /\ BeginGuard(o)
    /\ intent' = [intent EXCEPT ![o] = [st |-> "PENDING", owner |-> Writer, live |-> TRUE]]
    /\ req' = [req EXCEPT ![o].pc = "begun"]
    /\ UNCHANGED <<ns, usage, auth, op, child, ledger, cleanup, prov, work>>

\* The transaction, or the provider client in front of it, fails.
BeginChildFailed(o) ==
    /\ req[o].pc = "admitted"
    /\ req' = [req EXCEPT ![o].pc = "beginFailed"]
    /\ UNCHANGED <<ns, usage, auth, op, intent, child, ledger, cleanup, prov, work>>

\* begin_managed_put_sink then tries to abort and ignores the result; this is
\* also the second abort after JournalFailed.
AbortUnbegun(o) ==
    /\ req[o].pc = "beginFailed"
    /\ \/ /\ AbortVerdict(o, "NoChildStarted", NoWorker, NoWorker) = "aborted"
          /\ Aborted(o)
       \/ /\ AbortVerdict(o, "NoChildStarted", NoWorker, NoWorker) # "aborted"
          /\ UNCHANGED <<op, usage, intent>>
    /\ req' = [req EXCEPT ![o].pc = "done"]
    /\ UNCHANGED <<ns, auth, child, ledger, cleanup, prov, work>>

JournalChild(o) ==
    /\ req[o].pc = "begun"
    /\ child' = [child EXCEPT ![o] = [NoChild EXCEPT !.st = "Open"]]
    /\ req' = [req EXCEPT ![o].pc = "writing"]
    /\ UNCHANGED <<ns, usage, auth, op, intent, ledger, cleanup, prov, work>>

\* The journal insert reports an error; the row may have been written all the
\* same.  direct_sink_for aborts with its lease, and the caller aborts again.
JournalFailed(o, inserted) ==
    /\ req[o].pc = "begun"
    /\ child' = [child EXCEPT ![o] = IF inserted THEN [NoChild EXCEPT !.st = "Open"] ELSE @]
    /\ \/ /\ ~inserted
          /\ AbortVerdict(o, "NoChildStarted", Writer, NoWorker) = "aborted"
          /\ Aborted(o)
       \/ /\ inserted \/ AbortVerdict(o, "NoChildStarted", Writer, NoWorker) # "aborted"
          /\ UNCHANGED <<op, usage, intent>>
    /\ req' = [req EXCEPT ![o].pc = "beginFailed"]
    /\ UNCHANGED <<ns, auth, ledger, cleanup, prov, work>>

-----------------------------------------------------------------------------
(* The request: streaming, evidence and publication at the provider        *)

\* verify_output renews the lease, then pins the expected size in the child
\* journal, which accepts it only while the child is INTENT or OPEN.
Verify(o, size) ==
    /\ req[o].pc = "writing" /\ LeaseHeld(o, Writer) /\ child[o].st \in ChildOpen
    /\ child' = [child EXCEPT ![o].expected = size]
    /\ req' = [req EXCEPT ![o].pc = "verified"]
    /\ UNCHANGED <<ns, usage, auth, op, intent, ledger, cleanup, prov, work>>

\* record_logical_usage_and_begin_completion: evidence and OPEN -> COMPLETING
\* in one transaction; it looks neither at the fence nor at a claim.
RecordUsage(o) ==
    /\ req[o].pc = "verified" /\ op[o].state = "Open"
    /\ op' = [op EXCEPT ![o].state = "Completing", ![o].evidence = child[o].expected]
    /\ req' = [req EXCEPT ![o].pc = "recorded"]
    /\ UNCHANGED <<ns, usage, auth, intent, child, ledger, cleanup, prov, work>>

\* Any failure before the evidence is recorded: the upload handler aborts the
\* sink.  The child is proven aborted in its journal but its absence is not
\* observed, so the ledger is left to recovery.
AbandonUpload(o) ==
    /\ req[o].pc \in {"writing", "verified"}
    /\ child' = [child EXCEPT ![o].st =
                    IF LeaseHeld(o, Writer) /\ @ \in ChildOpen THEN "ProvenAborted" ELSE @]
    /\ req' = [req EXCEPT ![o].pc = "dropped"]
    /\ UNCHANGED <<ns, usage, auth, op, intent, ledger, cleanup, prov, work>>

\* The first provider attempt: renew the lease, OPEN -> COMPLETING, record the
\* mutation launch, send.
Launch(o) ==
    /\ req[o].pc = "recorded" /\ LeaseHeld(o, Writer) /\ child[o].st \in ChildOpen
    /\ child' = [child EXCEPT ![o].st = "Completing", ![o].absence = FALSE]
    /\ prov' = [prov EXCEPT ![o].inflight = @ \cup {1}]
    /\ req' = [req EXCEPT ![o] = [pc |-> "launched", tries |-> 1]]
    /\ UNCHANGED <<ns, usage, auth, op, intent, ledger, cleanup, work>>

\* Mutant: one attempt too many.
MutRelaunch(o) ==
    /\ req[o].pc = "launched" /\ req[o].tries <= MaxAttempts
    /\ child[o].st \in ChildUnresolved
    /\ child' = [child EXCEPT ![o].absence = FALSE]
    /\ prov' = [prov EXCEPT ![o].inflight = @ \cup {req[o].tries + 1}]
    /\ req' = [req EXCEPT ![o].tries = @ + 1]
    /\ UNCHANGED <<ns, usage, auth, op, intent, ledger, cleanup, work>>

\* After an ambiguous answer the next attempt is launched, unless the child
\* became terminal meanwhile; a launch voids an earlier absence observation.
Relaunch(o) ==
    /\ req[o].pc = "launched" /\ req[o].tries < MaxAttempts
    /\ child[o].st \in ChildUnresolved
    /\ child' = [child EXCEPT ![o].absence = FALSE]
    /\ prov' = [prov EXCEPT ![o].inflight = @ \cup {req[o].tries + 1}]
    /\ req' = [req EXCEPT ![o].tries = @ + 1]
    /\ UNCHANGED <<ns, usage, auth, op, intent, ledger, cleanup, work>>

\* The provider (external): an attempt in flight takes effect or is lost.
ProviderLands(o, i) ==
    /\ i \in prov[o].inflight
    /\ prov' = [prov EXCEPT ![o] = [inflight |-> @.inflight \ {i},
                                    versions |-> @.versions \cup {i}]]
    /\ UNCHANGED <<ns, usage, auth, op, intent, child, ledger, cleanup, req, work>>

ProviderLoses(o, i) ==
    /\ i \in prov[o].inflight
    /\ prov' = [prov EXCEPT ![o].inflight = @ \ {i}]
    /\ UNCHANGED <<ns, usage, auth, op, intent, child, ledger, cleanup, req, work>>

\* Mutant: an ambiguous history is recorded as complete.
MutCommitVerdictSure(o, sel, sure) ==
    /\ sel \in prov[o].versions
    /\ child' = [child EXCEPT ![o].st = "Committed", ![o].versions = {sel},
                              ![o].complete = TRUE]
    /\ UNCHANGED prov

\* Mutant: the selected version is deleted along with the redundant ones.
MutCommitVerdictAll(o, sel, sure) ==
    /\ sel \in prov[o].versions
    /\ child' = [child EXCEPT ![o].st = "Committed",
                    ![o].versions = IF ExactRecovery THEN prov[o].versions ELSE {sel},
                    ![o].complete = ExactRecovery \/ sure]
    /\ prov' = IF ExactRecovery THEN [prov EXCEPT ![o].versions = {}] ELSE prov

\* A committed verdict selects one version.  With exact recovery the answer
\* lists every version of the child and the redundant ones are deleted before
\* the journal moves to COMMITTED; without it the history is complete only
\* when `sure` (a first attempt that was answered).
CommitVerdict(o, sel, sure) ==
    /\ sel \in prov[o].versions
    /\ child' = [child EXCEPT ![o].st = "Committed",
                    ![o].versions = IF ExactRecovery THEN prov[o].versions ELSE {sel},
                    ![o].complete = ExactRecovery \/ sure]
    /\ prov' = IF ExactRecovery THEN [prov EXCEPT ![o].versions = {sel}] ELSE prov

\* The current attempt is answered with success.  When the attempts are spent,
\* or a reconciler already moved the child to COMMIT_UNKNOWN, the sink probes
\* and may find any version; when a reconciler already committed the child the
\* sink takes the recorded result.
Answered(o) ==
    /\ req[o].pc = "launched"
    /\ \/ /\ child[o].st = "Completing"
          /\ CommitVerdict(o, req[o].tries, req[o].tries = 1)
       \/ /\ \/ child[o].st = "CommitUnknown"
             \/ child[o].st = "Completing" /\ req[o].tries = MaxAttempts
          /\ \E sel \in Attempts : CommitVerdict(o, sel, FALSE)
       \/ /\ child[o].st = "Committed"
          /\ UNCHANGED <<child, prov>>
    /\ req' = [req EXCEPT ![o].pc = "published"]
    /\ UNCHANGED <<ns, usage, auth, op, intent, ledger, cleanup, work>>

\* Mutant: a failed completion drops the intent instead of blocking it.
MutBlockIntent(o) ==
    intent' = [intent EXCEPT ![o] = IF LeaseHeld(o, Writer) THEN NoIntent ELSE @]

\* block_physical_write: the intent is marked BLOCKED if the writer still
\* holds its lease.
BlockIntent(o) ==
    intent' = [intent EXCEPT ![o].st = IF LeaseHeld(o, Writer) THEN "BLOCKED" ELSE @]

\* A definitive refusal of the first attempt: nothing was stored.
Refused(o) ==
    /\ req[o].pc = "launched" /\ req[o].tries = 1 /\ child[o].st = "Completing"
    /\ prov[o].versions = {}
    /\ prov' = [prov EXCEPT ![o].inflight = {}]
    /\ child' = [child EXCEPT ![o].st = "ProvenAborted"]
    /\ BlockIntent(o)
    /\ req' = [req EXCEPT ![o].pc = "done"]
    /\ UNCHANGED <<ns, usage, auth, op, ledger, cleanup, work>>

\* The completion fails without a verdict: the lease is gone, the child was
\* settled by somebody else, or every attempt stayed ambiguous.
Unanswered(o) ==
    /\ \/ req[o].pc = "recorded"
       \/ /\ req[o].pc = "launched"
          /\ req[o].tries = MaxAttempts \/ child[o].st \notin {"Completing"}
    /\ child' = [child EXCEPT ![o].st = IF @ = "Completing" THEN "CommitUnknown" ELSE @]
    /\ BlockIntent(o)
    /\ req' = [req EXCEPT ![o].pc = "dropped"]
    /\ UNCHANGED <<ns, usage, auth, op, ledger, cleanup, prov, work>>

-----------------------------------------------------------------------------
(* finalize_logical_put, used by requests and workers                      *)

\* Mutant: the authority's CAS is not checked.
MutAuthorityMatches(o) == TRUE

ChildMatches(o) ==
    /\ child[o].st = "Committed" /\ child[o].complete
    /\ child[o].expected = op[o].evidence

AuthorityMatches(o) ==
    LET k == op[o].key IN
    /\ auth[k].cas = op[o].cas
    /\ op[o].prior = IF Live(k) THEN auth[k].size ELSE 0

NextVisible(o) == usage.visible - op[o].prior + op[o].evidence

\* The checks in the order of the transaction: "refused" leaves the operation
\* to a later attempt, "blocked" is a RecoveryBlocked error.
FinalizeVerdict(o, holder, w) ==
    IF \/ ~Authorized(o, w)
       \/ op[o].state \notin {"Completing", "RecoveryBlocked"}
       \/ op[o].state = "RecoveryBlocked" /\ w = NoWorker
       \/ op[o].evidence = NoSize
    THEN "refused"
    ELSE IF ~FenceHeld(o) \/ intent[o].st = "none" THEN "blocked"
    ELSE IF ~LeaseHeld(o, holder) \/ op[o].claim \notin {NoWorker, holder} THEN "refused"
    ELSE IF ~ChildMatches(o) \/ Allocation(o) > op[o].reserved \/ ~AuthorityMatches(o)
    THEN "blocked"
    ELSE IF \/ usage.active # o \/ usage.reserved < op[o].reserved
            \/ NextVisible(o) > VisibleLimit
    THEN "refused"
    ELSE "committed"

\* One transaction: version rows, authority, cleanup of the generation it
\* replaces, quota transfer, slot release, terminal state, intent removal.
Committed(o) ==
    LET k == op[o].key
        old == auth[k].gen
    IN
    /\ ledger' = [ledger EXCEPT ![o] = child[o].versions]
    /\ auth' = [auth EXCEPT ![k] = [cas |-> op[o].cas + 1, gen |-> o,
                                    size |-> op[o].evidence, tomb |-> FALSE]]
    /\ cleanup' = [g \in Ops |-> cleanup[g] \/ (Live(k) /\ g = old /\ ledger[g] # {})]
    /\ usage' = [visible |-> NextVisible(o), allocated |-> usage.allocated + Allocation(o),
                 reserved |-> usage.reserved - op[o].reserved, active |-> NoOp]
    /\ op' = [op EXCEPT ![o].state = "Committed", ![o].committed = Allocation(o),
                        ![o].claim = NoWorker, ![o].claimLive = FALSE]
    /\ intent' = [intent EXCEPT ![o] = NoIntent]

RequestFinalize(o) ==
    /\ req[o].pc = "published" /\ child[o].complete
    /\ \/ /\ FinalizeVerdict(o, Writer, NoWorker) = "committed"
          /\ Committed(o)
       \/ /\ FinalizeVerdict(o, Writer, NoWorker) # "committed"
          /\ UNCHANGED <<usage, auth, op, intent, ledger, cleanup>>
    /\ req' = [req EXCEPT ![o].pc = "done"]
    /\ UNCHANGED <<ns, child, prov, work>>

\* An incomplete version history is not offered to the finalizer at all.
RequestIncomplete(o) ==
    /\ req[o].pc = "published" /\ ~child[o].complete
    /\ BlockIntent(o)
    /\ req' = [req EXCEPT ![o].pc = "done"]
    /\ UNCHANGED <<ns, usage, auth, op, child, ledger, cleanup, prov, work>>

-----------------------------------------------------------------------------
(* Losing the request; the child's reconciler                              *)

\* The process of the request dies, or its future is dropped before the sink
\* exists: nothing runs on its behalf any more.
Crash(o) ==
    /\ req[o].pc \notin {"idle", "done"}
    /\ req' = [req EXCEPT ![o].pc = "done"]
    /\ UNCHANGED <<ns, usage, auth, op, intent, child, ledger, cleanup, prov, work>>

\* The client disconnects: the handler is cancelled, the sink is dropped
\* unfinished and signals its in-process reconciler.
Disconnect(o) ==
    /\ req[o].pc \in {"writing", "verified", "recorded", "launched"}
    /\ req' = [req EXCEPT ![o].pc = "dropped"]
    /\ UNCHANGED <<ns, usage, auth, op, intent, child, ledger, cleanup, prov, work>>

\* Mutant: absence is concluded while an attempt may still land.
MutReconcileAbsent(o) ==
    /\ child[o].st \in {"Completing", "CommitUnknown"}
    /\ ExactRecovery /\ prov[o].versions = {}
    /\ child' = [child EXCEPT ![o].st = IF child[o].absence THEN "ProvenAborted"
                                        ELSE "CommitUnknown",
                              ![o].absence = TRUE]
    /\ UNCHANGED prov

\* OperationReconciler::reconcile on an unresolved child: before completion it
\* is aborted (incomplete uploads are removed, no absence is observed); from
\* COMPLETING on it is probed.  Exact absence needs two observations, neither
\* of them inside the provider's mutation window.
ReconcileAborts(o) ==
    /\ child[o].st \in ChildOpen
    /\ child' = [child EXCEPT ![o].st = "ProvenAborted"]
    /\ UNCHANGED prov

ReconcileFinds(o) ==
    /\ child[o].st \in {"Completing", "CommitUnknown"}
    /\ \E sel \in Attempts : CommitVerdict(o, sel, FALSE)

ReconcileAbsent(o) ==
    /\ child[o].st \in {"Completing", "CommitUnknown"}
    /\ ExactRecovery /\ prov[o] = [inflight |-> {}, versions |-> {}]
    /\ child' = [child EXCEPT ![o].st = IF child[o].absence THEN "ProvenAborted"
                                        ELSE "CommitUnknown",
                              ![o].absence = TRUE]
    /\ UNCHANGED prov

\* The probe is inconclusive, fails, or comes too early.
ReconcileInconclusive(o) ==
    /\ child[o].st \in {"Completing", "CommitUnknown"}
    /\ child' = [child EXCEPT ![o].st = "CommitUnknown"]
    /\ UNCHANGED prov

ReconcileChild(o) ==
    ReconcileAborts(o) \/ ReconcileFinds(o) \/ ReconcileAbsent(o) \/ ReconcileInconclusive(o)

DropReconcile(o) ==
    /\ req[o].pc = "dropped"
    /\ \/ ReconcileChild(o)
       \/ child[o].st \notin ChildUnresolved /\ UNCHANGED <<child, prov>>
    /\ req' = [req EXCEPT ![o].pc = "done"]
    /\ UNCHANGED <<ns, usage, auth, op, intent, ledger, cleanup, work>>

-----------------------------------------------------------------------------
(* Time: leases and claims run out                                         *)

LeaseExpires(o) ==
    /\ intent[o].live
    /\ intent' = [intent EXCEPT ![o].live = FALSE]
    /\ UNCHANGED <<ns, usage, auth, op, child, ledger, cleanup, prov, req, work>>

ClaimExpires(o) ==
    /\ op[o].claimLive
    /\ op' = [op EXCEPT ![o].claimLive = FALSE]
    /\ UNCHANGED <<ns, usage, auth, intent, child, ledger, cleanup, prov, req, work>>

-----------------------------------------------------------------------------
(* The recovery pass: reconcile_managed_logical_operations                 *)

\* Mutant: the claim of a lost worker is never taken over.
MutClaimStale(w, o) ==
    /\ work[w].pc = "idle"
    /\ op[o].state \in Unsettled /\ op[o].claim = NoWorker
    /\ op' = [op EXCEPT ![o].claim = w, ![o].claimLive = TRUE]
    /\ work' = [work EXCEPT ![w] = [op |-> o, pc |-> "claimed", state |-> op[o].state,
                                    evidence |-> op[o].evidence,
                                    hasIntent |-> intent[o].st # "none"]]
    /\ UNCHANGED <<ns, usage, auth, intent, child, ledger, cleanup, prov, req>>

\* claim_stale_logical_operations on an unresolved, stale operation that is
\* unclaimed or whose claim ran out; then the intent is read.  The pass keeps
\* working on the row it claimed: state, evidence and whether an intent existed.
ClaimStale(w, o) ==
    /\ work[w].pc = "idle"
    /\ op[o].state \in Unsettled /\ ~op[o].claimLive
    /\ op' = [op EXCEPT ![o].claim = w, ![o].claimLive = TRUE]
    /\ work' = [work EXCEPT ![w] = [op |-> o, pc |-> "claimed", state |-> op[o].state,
                                    evidence |-> op[o].evidence,
                                    hasIntent |-> intent[o].st # "none"]]
    /\ UNCHANGED <<ns, usage, auth, intent, child, ledger, cleanup, prov, req>>

\* Mutant: blocking without checking the claim.
MutMarkBlocked(o, w) ==
    op' = [op EXCEPT ![o].state = "RecoveryBlocked",
                     ![o].claim = NoWorker, ![o].claimLive = FALSE]

\* mark_logical_recovery_blocked, by the holder of a live claim.
MarkBlocked(o, w) ==
    op' = IF Authorized(o, w)
          THEN [op EXCEPT ![o].state = "RecoveryBlocked",
                          ![o].claim = NoWorker, ![o].claimLive = FALSE]
          ELSE op

PassEnds(w) == work' = [work EXCEPT ![w] = Idle]

\* No child ever started, as far as the claimed row and the two reads tell.
NoChildStarted(w) ==
    /\ work[w].state = "Open" /\ ~work[w].hasIntent
    /\ child[work[w].op].st = "none"

\* The witness the pass needs is missing or contradicts the claimed row.
WitnessBroken(w) ==
    LET c == child[work[w].op] IN
    ~work[w].hasIntent \/ c.st = "none" \/ c.expected # work[w].evidence

WorkerAborts(w) ==
    LET o == work[w].op
        verdict == AbortVerdict(o, "NoChildStarted", NoWorker, w)
    IN
    /\ work[w].pc = "claimed" /\ NoChildStarted(w)
    /\ IF verdict = "aborted" THEN Aborted(o)
       ELSE /\ IF verdict = "blocked" THEN MarkBlocked(o, w) ELSE UNCHANGED op
            /\ UNCHANGED <<usage, intent>>
    /\ PassEnds(w)
    /\ UNCHANGED <<ns, auth, child, ledger, cleanup, prov, req>>

WorkerBlocks(w) ==
    /\ work[w].pc = "claimed" /\ ~NoChildStarted(w) /\ WitnessBroken(w)
    /\ MarkBlocked(work[w].op, w)
    /\ PassEnds(w)
    /\ UNCHANGED <<ns, usage, auth, intent, child, ledger, cleanup, prov, req>>

\* renew_logical_recovery_claim; a lost claim ends the work on this operation.
WorkerRenews(w) ==
    LET o == work[w].op IN
    /\ work[w].pc = "claimed" /\ ~WitnessBroken(w)
    /\ \/ /\ Authorized(o, w) /\ op[o].state \in Unsettled
          /\ work' = [work EXCEPT ![w].pc = "renewed"]
       \/ /\ ~(Authorized(o, w) /\ op[o].state \in Unsettled)
          /\ PassEnds(w)
    /\ UNCHANGED <<ns, usage, auth, op, intent, child, ledger, cleanup, prov, req>>

\* claim_logical_physical_write_intent takes over only a lapsed lease; while
\* the writer's lease lives the operation is left, claim and all.
WorkerLeases(w) ==
    LET o == work[w].op
        taken == /\ Authorized(o, w) /\ ns.epoch = op[o].epoch
                 /\ intent[o].st # "none" /\ ~intent[o].live
    IN
    /\ work[w].pc = "renewed"
    /\ \/ /\ taken
          /\ intent' = [intent EXCEPT ![o].owner = w, ![o].live = TRUE]
          /\ work' = [work EXCEPT ![w].pc = "leased"]
       \/ /\ ~taken
          /\ PassEnds(w) /\ UNCHANGED intent
    /\ UNCHANGED <<ns, usage, auth, op, child, ledger, cleanup, prov, req>>

\* reconcile_operation on an unresolved child, then the claim is renewed again.
WorkerReconciles(w) ==
    LET o == work[w].op IN
    /\ work[w].pc = "leased"
    /\ \/ ReconcileChild(o)
       \/ child[o].st \notin ChildUnresolved /\ UNCHANGED <<child, prov>>
    /\ IF child[o].st \notin ChildUnresolved \/ Authorized(o, w)
       THEN work' = [work EXCEPT ![w].pc = "reconciled"] ELSE PassEnds(w)
    /\ UNCHANGED <<ns, usage, auth, op, intent, ledger, cleanup, req>>

\* The child's verdict decides: finalize, abort, block, or leave it for later.
WorkerSettles(w) ==
    LET o == work[w].op
        found == child[o].st = "Committed" /\ child[o].complete
        absent == child[o].st = "ProvenAborted" /\ child[o].absence
        final == FinalizeVerdict(o, w, w)
        abort == AbortVerdict(o, "ChildProvenAborted", w, w)
    IN
    /\ work[w].pc = "reconciled"
    /\ \/ found /\ final = "committed" /\ Committed(o)
       \/ absent /\ abort = "aborted" /\ Aborted(o) /\ UNCHANGED <<auth, ledger, cleanup>>
       \/ /\ \/ found /\ final = "blocked"
             \/ absent /\ abort = "blocked"
             \/ child[o].st \in ChildTerminal /\ ~found /\ ~absent
          /\ MarkBlocked(o, w)
          /\ UNCHANGED <<usage, auth, intent, ledger, cleanup>>
       \/ /\ \/ found /\ final = "refused"
             \/ absent /\ abort = "refused"
             \/ child[o].st \notin ChildTerminal
          /\ UNCHANGED <<usage, auth, op, intent, ledger, cleanup>>
    /\ PassEnds(w)
    /\ UNCHANGED <<ns, child, prov, req>>

\* The worker's process is lost; claim and lease stay until they run out.
WorkerCrash(w) ==
    /\ work[w].pc # "idle"
    /\ PassEnds(w)
    /\ UNCHANGED <<ns, usage, auth, op, intent, child, ledger, cleanup, prov, req>>

-----------------------------------------------------------------------------
(* DELETE, cleanup of replaced generations, routing and purge              *)

\* commit_atomic_logical_delete publishes a tombstone; it takes the slot's
\* word for it that no PUT is under way and never holds it.  Deleting a
\* tombstone again changes no authority.
Delete(k) ==
    LET old == auth[k].gen IN
    /\ ns.active /\ usage.active = NoOp /\ ~auth[k].tomb /\ auth[k].cas < MaxCas
    /\ auth' = [auth EXCEPT ![k] = [cas |-> @.cas + 1, gen |-> NoOp, size |-> 0, tomb |-> TRUE]]
    /\ cleanup' = [g \in Ops |-> cleanup[g] \/ (Live(k) /\ g = old /\ ledger[g] # {})]
    /\ usage' = [usage EXCEPT !.visible = @ - (IF Live(k) THEN auth[k].size ELSE 0)]
    /\ UNCHANGED <<ns, op, intent, child, ledger, prov, req, work>>

\* delete_generation: every ledgered version is deleted at the provider and
\* verified gone, and only then forgotten.
CleanupDeletes(o, v) ==
    /\ cleanup[o] /\ v \in ledger[o] \cap prov[o].versions
    /\ prov' = [prov EXCEPT ![o].versions = @ \ {v}]
    /\ UNCHANGED <<ns, usage, auth, op, intent, child, ledger, cleanup, req, work>>

\* Mutant: the release is not recorded on the operation.
MutForgetVersion(o, v) ==
    LET last == ledger[o] = {v} IN
    /\ cleanup[o] /\ v \in ledger[o] \ prov[o].versions
    /\ ledger' = [ledger EXCEPT ![o] = @ \ {v}]
    /\ usage' = IF last
                THEN [usage EXCEPT !.allocated = @ - (op[o].committed - op[o].released)]
                ELSE usage
    /\ child' = IF last /\ child[o].st \in ChildTerminal
                THEN [child EXCEPT ![o] = NoChild] ELSE child
    /\ UNCHANGED <<ns, auth, op, intent, cleanup, prov, req, work>>

\* forget_physical_version: with the last row of the child its allocation is
\* released and its terminal journal row retired.
ForgetVersion(o, v) ==
    LET last == ledger[o] = {v} IN
    /\ cleanup[o] /\ v \in ledger[o] \ prov[o].versions
    /\ ledger' = [ledger EXCEPT ![o] = @ \ {v}]
    /\ usage' = IF last
                THEN [usage EXCEPT !.allocated = @ - (op[o].committed - op[o].released)]
                ELSE usage
    /\ op' = IF last THEN [op EXCEPT ![o].released = op[o].committed] ELSE op
    /\ child' = IF last /\ child[o].st \in ChildTerminal
                THEN [child EXCEPT ![o] = NoChild] ELSE child
    /\ UNCHANGED <<ns, auth, intent, cleanup, prov, req, work>>

\* advance_routing_epoch: new writes are routed under a new fence.
AdvanceRouting ==
    /\ ns.active /\ ns.routing < MaxRouting
    /\ ns' = [ns EXCEPT !.routing = @ + 1]
    /\ UNCHANGED <<usage, auth, op, intent, child, ledger, cleanup, prov, req, work>>

\* purge_namespace fences the namespace, unless a live authority has no
\* version row to purge.
PurgeFence ==
    /\ ns.active /\ ns.epoch < MaxEpoch
    /\ \A k \in Keys : Live(k) => ledger[auth[k].gen] # {}
    /\ ns' = [ns EXCEPT !.active = FALSE]
    /\ UNCHANGED <<usage, auth, op, intent, child, ledger, cleanup, prov, req, work>>

PurgeDeletes(o, v) ==
    /\ ~ns.active /\ v \in ledger[o] \cap prov[o].versions
    /\ prov' = [prov EXCEPT ![o].versions = @ \ {v}]
    /\ UNCHANGED <<ns, usage, auth, op, intent, child, ledger, cleanup, req, work>>

\* mark_purge_target_deleted leaves the byte counters to the end of the purge.
PurgeForgets(o, v) ==
    /\ ~ns.active /\ v \in ledger[o] \ prov[o].versions
    /\ ledger' = [ledger EXCEPT ![o] = @ \ {v}]
    /\ child' = IF ledger[o] = {v} /\ child[o].st \in ChildTerminal
                THEN [child EXCEPT ![o] = NoChild] ELSE child
    /\ UNCHANGED <<ns, usage, auth, op, intent, cleanup, prov, req, work>>

\* Mutant: the purge waits for version rows only.
MutPurgeReady == \A o \in Ops : ledger[o] = {}

\* finalize_purge_if_ready waits for every intent, version row, unresolved
\* journal row and unresolved operation.
PurgeReady ==
    \A o \in Ops : /\ intent[o].st = "none" /\ ledger[o] = {}
                   /\ child[o].st \notin ChildUnresolved
                   /\ op[o].state \notin Unsettled

\* Mutant: the purge resets the counters but not the released bytes.
MutFinishPurge ==
    /\ ~ns.active /\ PurgeReady
    /\ cleanup' = [o \in Ops |-> FALSE]
    /\ child' = [o \in Ops |-> NoChild]
    /\ usage' = [visible |-> 0, allocated |-> 0, reserved |-> 0, active |-> NoOp]
    /\ auth' = [k \in Keys |-> [cas |-> 0, gen |-> NoOp, size |-> 0, tomb |-> FALSE]]
    /\ ns' = [active |-> TRUE, epoch |-> ns.epoch + 1, routing |-> ns.routing + 1]
    /\ UNCHANGED <<op, intent, ledger, prov, req, work>>

\* Then it drops the terminal journal rows and repairs, marks every allocation
\* released, zeroes the counters and reopens the namespace under new epochs.
FinishPurge ==
    /\ ~ns.active /\ PurgeReady
    /\ cleanup' = [o \in Ops |-> FALSE]
    /\ child' = [o \in Ops |-> NoChild]
    /\ op' = [o \in Ops |-> [op[o] EXCEPT !.released = op[o].committed]]
    /\ usage' = [visible |-> 0, allocated |-> 0, reserved |-> 0, active |-> NoOp]
    /\ auth' = [k \in Keys |-> [cas |-> 0, gen |-> NoOp, size |-> 0, tomb |-> FALSE]]
    /\ ns' = [active |-> TRUE, epoch |-> ns.epoch + 1, routing |-> ns.routing + 1]
    /\ UNCHANGED <<intent, ledger, prov, req, work>>

-----------------------------------------------------------------------------
(* The specification                                                       *)

RequestStep(o) ==
    \/ \E k \in Keys : ReadAuthority(o, k)
    \/ ReadFence(o)
    \/ Admit(o) \/ AdmitRejected(o)
    \/ BeginChild(o) \/ BeginChildFailed(o) \/ AbortUnbegun(o)
    \/ JournalChild(o) \/ \E b \in BOOLEAN : JournalFailed(o, b)
    \/ \E s \in Sizes : Verify(o, s)
    \/ RecordUsage(o) \/ AbandonUpload(o)
    \/ Launch(o) \/ Relaunch(o) \/ Answered(o) \/ Refused(o) \/ Unanswered(o)
    \/ RequestFinalize(o) \/ RequestIncomplete(o)
    \/ DropReconcile(o)

WorkerStep(w) ==
    \/ \E o \in Ops : ClaimStale(w, o)
    \/ WorkerAborts(w) \/ WorkerBlocks(w) \/ WorkerRenews(w)
    \/ WorkerLeases(w) \/ WorkerReconciles(w) \/ WorkerSettles(w)

ProviderStep(o) == \E i \in Attempts : ProviderLands(o, i) \/ ProviderLoses(o, i)

TimeStep(o) == LeaseExpires(o) \/ ClaimExpires(o)

Failure ==
    \/ \E o \in Ops : Crash(o) \/ Disconnect(o)
    \/ \E w \in Workers : WorkerCrash(w)

Maintenance ==
    \/ \E k \in Keys : Delete(k)
    \/ \E o \in Ops, v \in Attempts :
          \/ CleanupDeletes(o, v) \/ ForgetVersion(o, v)
          \/ PurgeDeletes(o, v) \/ PurgeForgets(o, v)
    \/ AdvanceRouting \/ PurgeFence \/ FinishPurge

Next ==
    \/ \E o \in Ops : RequestStep(o) \/ ProviderStep(o) \/ TimeStep(o)
    \/ \E w \in Workers : WorkerStep(w)
    \/ Failure
    \/ Maintenance

Spec == Init /\ [][Next]_vars

\* A step of a pass taken while its claim, and the lease it took over from the
\* lapsed writer, still run (two hours each in the code); a probe counts when
\* it reaches a verdict or records an observation.
Timely(w) ==
    LET o == work[w].op IN
    /\ work[w].pc # "idle" /\ Authorized(o, w)
    /\ WorkerStep(w)
    /\ work[w].pc = "renewed" => ~intent[o].live
    /\ work[w].pc \in {"leased", "reconciled"} => LeaseHeld(o, w)
    /\ work[w].pc = "leased" /\ child[o].st \in ChildUnresolved =>
          child'[o].st \in ChildTerminal \/ child'[o].absence # child[o].absence

\* The recovery loop runs every ten seconds in every gateway process: a worker
\* keeps taking steps, and is neither lost nor late at the same step of the
\* pass for ever.  A probe the provider can answer is answered eventually;
\* attempts in flight land or are lost; the clock ends leases and claims.
Fairness ==
    /\ \A o \in Ops : /\ WF_vars(ProviderStep(o))
                      /\ WF_vars(LeaseExpires(o)) /\ WF_vars(ClaimExpires(o))
    /\ \A w \in Workers :
          /\ WF_vars(WorkerStep(w))
          /\ \A pc \in WorkerPC \ {"idle"} : SF_vars(work[w].pc = pc /\ Timely(w))

FairSpec == Spec /\ Fairness

-----------------------------------------------------------------------------
(* Properties                                                              *)

Namespace == [active : BOOLEAN, epoch : Nat, routing : Nat]
Usage == [visible : Int, allocated : Int, reserved : Int, active : Ops \cup {NoOp}]
Authority == [cas : Nat, gen : Ops \cup {NoOp}, size : Nat, tomb : BOOLEAN]
Size == Sizes \cup {NoSize}
Operation == [state : {"none"} \cup Unsettled \cup Terminal, key : Keys, cas : Nat,
              prior : Nat, epoch : Nat, routing : Nat, reserved : Nat,
              evidence : Size, committed : Int, released : Int,
              claim : Workers \cup {NoWorker}, claimLive : BOOLEAN]
Intent == [st : {"none", "PENDING", "BLOCKED"},
           owner : Workers \cup {Writer, NoWorker}, live : BOOLEAN]
Child == [st : {"none"} \cup ChildUnresolved \cup ChildTerminal, expected : Size,
          absence : BOOLEAN, versions : SUBSET Attempts, complete : BOOLEAN]
Provider == [inflight : SUBSET Attempts, versions : SUBSET Attempts]
Request == [pc : RequestPC, tries : 0..MaxAttempts]
Pass == [op : Ops \cup {NoOp}, pc : WorkerPC, state : {"none"} \cup Unsettled,
         evidence : Size, hasIntent : BOOLEAN]

\* Type invariant: every row holds values of its column's domain, no request
\* makes more provider attempts than the sink allows, and a recovery pass that
\* is under way works on an operation of the ledger.
TypeOK ==
    /\ ns \in Namespace
    /\ usage \in Usage
    /\ auth \in [Keys -> Authority]
    /\ op \in [Ops -> Operation]
    /\ intent \in [Ops -> Intent]
    /\ child \in [Ops -> Child]
    /\ ledger \in [Ops -> SUBSET Attempts]
    /\ cleanup \in [Ops -> BOOLEAN]
    /\ prov \in [Ops -> Provider]
    /\ req \in [Ops -> Request]
    /\ work \in [Workers -> Pass]
    /\ \A w \in Workers : work[w].pc # "idle" => work[w].op \in Ops

\* The workspace's mutation slot names exactly the operation that is admitted
\* and not yet terminal, and the reserved bytes are exactly its reservation:
\* no crash, recovery, purge or race leaks a slot or a reservation.
SlotAccounting ==
    /\ usage.reserved = IF usage.active = NoOp THEN 0 ELSE op[usage.active].reserved
    /\ \A o \in Ops : op[o].state \in Unsettled <=> usage.active = o

\* Published and reserved bytes never exceed the physical budget admission
\* checks, and visible bytes never exceed the visible limit, although the
\* allocation is decided long after admission.
QuotaBound ==
    /\ usage.allocated + usage.reserved <= VisibleLimit + Headroom
    /\ usage.visible <= VisibleLimit

\* Retained witness: while an operation is unsettled, a child row or a provider
\* mutation is always covered by a durable physical write intent.
RetainedWitness ==
    \A o \in Ops :
        op[o].state \in Unsettled /\ (child[o].st # "none" \/ prov[o].inflight # {} \/ prov[o].versions # {})
        => intent[o].st # "none"

\* An operation reported as proven aborted left nothing at the provider and
\* nothing on its way there.
AbortedLeavesNothing ==
    \A o \in Ops : op[o].state = "ProvenAborted" =>
        /\ prov[o] = [inflight |-> {}, versions |-> {}]
        /\ ledger[o] = {} /\ intent[o].st = "none"

\* In an active namespace every live authority is the generation of a committed
\* operation on that key, of that size, and a version of it is both ledgered
\* and stored: no cleanup, late abort or recovery removes what is published.
AuthorityBacked ==
    ns.active => \A k \in Keys : Live(k) =>
        LET o == auth[k].gen IN
        /\ o \in Ops /\ op[o].state = "Committed" /\ op[o].key = k
        /\ op[o].evidence = auth[k].size /\ ~cleanup[o]
        /\ ledger[o] \cap prov[o].versions # {}

\* Every version stored at the provider is known to a ledger row or to a
\* pending intent, so cleanup and purge can find it.
NoOrphanVersion ==
    \A o \in Ops : intent[o].st = "none" => prov[o].versions \subseteq ledger[o]

\* The allocation of a committed operation is released exactly when its last
\* version row is forgotten (a purge in progress releases at its end).
ReleaseExact ==
    \A o \in Ops : op[o].state = "Committed" =>
        /\ ledger[o] # {} => op[o].released = 0
        /\ ns.active /\ ledger[o] = {} => op[o].released = op[o].committed

\* A finished purge left nothing of the purged epochs: no version at the
\* provider, no row, no intent, and no operation that could still publish.
PurgeLeavesNothing ==
    \A o \in Ops : op[o].state # "none" /\ op[o].epoch < ns.epoch =>
        /\ prov[o].versions = {} /\ ledger[o] = {} /\ intent[o].st = "none"
        /\ op[o].state \in Terminal /\ \A k \in Keys : auth[k].gen # o

\* A terminal operation stays terminal, with its evidence and allocation, and
\* a step that commits one publishes its generation with the next CAS version.
TerminalStable ==
    [][\A o \in Ops :
        /\ op[o].state \in Terminal =>
              /\ op'[o].state = op[o].state /\ op'[o].evidence = op[o].evidence
              /\ op'[o].committed = op[o].committed
        /\ op[o].state # "Committed" /\ op'[o].state = "Committed" =>
              LET k == op[o].key IN
              auth'[k] = [cas |-> auth[k].cas + 1, gen |-> o,
                          size |-> op[o].evidence, tomb |-> FALSE]]_vars

\* Within a namespace epoch an authority's CAS version never goes back, and
\* what a reader sees under one CAS version never changes.
CasFencesAuthority ==
    [][ns'.epoch = ns.epoch => \A k \in Keys :
        /\ auth'[k].cas >= auth[k].cas
        /\ auth'[k].cas = auth[k].cas => auth'[k] = auth[k]]_vars

\* Claimed recovery: an operation under a live recovery claim is settled or
\* blocked only by the worker that holds the claim.
ClaimFencesSettlement ==
    [][\A o \in Ops :
        op[o].claimLive /\ op'[o].state \in Terminal \cup {"RecoveryBlocked"}
                       /\ op'[o].state # op[o].state
        => work[op[o].claim].op = o /\ work'[op[o].claim] = Idle]_vars

\* Recovery never leaves an admitted operation silently open: it is committed,
\* proven aborted, or explicitly blocked, whatever was lost on the way.
Surfaces ==
    \A o \in Ops : op[o].state \in {"Open", "Completing"}
                   ~> op[o].state \in Terminal \cup {"RecoveryBlocked"}

\* The design's goal: after the loss of a process at any boundary of a managed
\* write the operation ends committed or proven aborted.
Converges ==
    \A o \in Ops : op[o].state \in Unsettled ~> op[o].state \in Terminal

-----------------------------------------------------------------------------
(* The byte contract                                                       *)

\* What a row says: the version and visible size of an object, and what an operation holds,
\* its reservation with the slot or the part of its allocation not yet released.
ObjectOf(row) ==
    [cas |-> row.cas, size |-> IF row.cas > 0 /\ ~row.tomb THEN row.size ELSE 0]

HeldBy(row) ==
    IF row.state \in Unsettled
    THEN [slot |-> TRUE, bytes |-> row.reserved]
    ELSE [slot |-> FALSE, bytes |-> row.committed - row.released]

Objects == [k \in Keys |-> ObjectOf(auth[k])]
Holds == [o \in Ops |-> HeldBy(op[o])]

Contract == INSTANCE WorkspaceLedger WITH object <- Objects, hold <- Holds

\* The PostgreSQL ledger keeps the byte contract of a workspace through overwrites, lost requests,
\* recoveries, deletes, cleanups and purges: ManagedLedger implements WorkspaceLedger.
LedgerImplements == Contract!Spec
=============================================================================
