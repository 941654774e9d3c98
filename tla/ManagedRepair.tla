---------------------------- MODULE ManagedRepair ----------------------------
(***************************************************************************)
(* Repair and placement of managed objects: how copies of one logical      *)
(* object move between backends while it is overwritten, deleted, read and *)
(* cleaned up.  Models crates/gateway/src/managed/repair.rs, the repair    *)
(* half of managed/postgres.rs and service_storage/core.rs (repair_due,    *)
(* execute_repair, delete_generation, reconcile_authority_placement, the   *)
(* authoritative reads).                                                   *)
(*                                                                         *)
(* One logical key.  A generation is a number, its bytes at a backend are  *)
(* provider versions <<backend, generation, version>>; an unversioned      *)
(* bucket has the single version 0, which every copy overwrites.           *)
(***************************************************************************)
EXTENDS Integers, Sequences, FiniteSets

CONSTANTS
  Backends,      \* backend ids
  NoBackend,     \* Option::None, for a backend id or a lease token
  Scenarios,     \* placements by version (rendezvous hashing), PUTs of the key and
                 \* bound on lapsed leases, crashes and failed executions
  Workers,       \* concurrent repair_due executions
  LapseKinds,    \* repair kinds whose lease may lapse under a running worker
  MaxCopies,     \* bound: provider versions created per backend
  MaxAttempts    \* MAX_REPAIR_ATTEMPTS

\* A placement names a primary and perhaps a replica; one is always in force.
Placement == [primary : Backends, replica : Backends \cup {NoBackend}]

ASSUME RepairAssumption ==
  /\ NoBackend \notin Backends
  /\ \A s \in Scenarios : s.placements \in Seq(Placement) /\ s.placements # <<>>

VARIABLES
  scenario,  \* [placements |-> <<[primary, replica], ...>>, puts, faults |-> bounds]
  versioned, \* the buckets keep provider versions
  auth,      \* the key's managed_object_authority row
  placed,    \* the placement version of the running configuration
  stored,    \* provider versions that exist
  made,      \* how many versions each backend has created
  rows,      \* managed_physical_object_version rows
  repairs,   \* managed_object_repair rows, by <<kind, generation, target>>
  worker,    \* what each running repair_due call holds
  faults

repairVars == <<scenario, versioned, auth, placed, stored, made, rows, repairs, worker, faults>>

Plan == scenario.placements

Locations(a) == {a.primary, a.replica} \ {NoBackend}

IsAuthoritative(g, b) == auth.live /\ auth.generation = g /\ b \in Locations(auth)

At(set, b, g) == {c \in set : c[1] = b /\ c[2] = g}

NoClaim == [at |-> "idle"]

----------------------------------------------------------------------------
(* Repair records.                                                         *)

CopyOf(kind, source, target, role, version, plan) ==
  [kind |-> kind, generation |-> auth.generation, target |-> target, source |-> source,
   role |-> role, cas |-> auth.cas, version |-> version, plan |-> plan,
   state |-> "PENDING", attempts |-> 0, token |-> NoBackend, expired |-> FALSE]

Key(r) == <<r.kind, r.generation, r.target>>

CleanupRepairs(a) ==
  {[CopyOf("DELETE", NoBackend, b, "cleanup", a.version, Plan[1])
      EXCEPT !.generation = a.generation, !.cas = a.cas] : b \in Locations(a)}

StaleRepairCleanup(r) ==
  [r EXCEPT !.kind = "DELETE", !.source = NoBackend, !.role = "cleanup", !.plan = Plan[1],
            !.state = "PENDING", !.attempts = 0, !.token = NoBackend, !.expired = FALSE]

PublicationRepairs(a) ==
  IF a.replicaStatus = "PENDING"
    THEN {[CopyOf("REPLICA", a.primary, a.replica, "replica", a.version, Plan[1])
             EXCEPT !.generation = a.generation, !.cas = a.cas]}
    ELSE {}

\* Mutant: a repair of the same target that was done before stays done.
MutInsertRepairs(table, new) ==
  [k \in DOMAIN table \cup {Key(r) : r \in new} |->
     IF k \in DOMAIN table THEN table[k] ELSE CHOOSE r \in new : Key(r) = k]

\* One repair per kind, generation and target: a DONE row is revived with the
\* new fields (not its attempts), any other row stays as it is.
InsertRepairs(table, new) ==
  LET named == {Key(r) : r \in new}
      Row(k) == CHOOSE r \in new : Key(r) = k
  IN  [k \in DOMAIN table \cup named |->
         IF k \notin DOMAIN table THEN Row(k)
         ELSE IF k \in named /\ table[k].state = "DONE"
           THEN [Row(k) EXCEPT !.attempts = table[k].attempts]
           ELSE table[k]]

InsertWaiting(table, new) ==
  LET fresh == {r \in new : Key(r) \notin DOMAIN table}
  IN  InsertRepairs(table, {[r EXCEPT !.state = "WAITING"] : r \in fresh})

\* The cleanups of a placement version become due when the authority reaches it.
Activate(table, g, version) ==
  [k \in DOMAIN table |->
     IF table[k].state = "WAITING" /\ table[k].generation = g /\ table[k].version = version
       THEN [table[k] EXCEPT !.state = "PENDING"] ELSE table[k]]

PlacementCleanupRepairs(before, after, version) ==
  {[CopyOf("DELETE", NoBackend, b, "cleanup", version, Plan[1])
      EXCEPT !.cas = after.cas, !.generation = after.generation] :
     b \in Locations(before) \ Locations(after)}

InPlace(a, plan) ==
  /\ a.primary = plan.primary /\ a.primaryStatus = "READY"
  /\ IF plan.replica = NoBackend THEN a.replica = NoBackend
     ELSE a.replica = plan.replica /\ a.replicaStatus = "READY"

\* The authority after a copy repair, unchanged when the repair's placement is
\* older than the authority's.
ApplyRepairToAuthority(a, r) ==
  LET moved ==
        IF r.role = "primary"
          THEN IF r.kind = "PLACEMENT" /\ r.plan.replica = NoBackend
                 THEN [a EXCEPT !.primary = r.target, !.primaryStatus = "READY",
                                !.replica = NoBackend, !.replicaStatus = "ABSENT"]
                 ELSE [a EXCEPT !.primary = r.target, !.primaryStatus = "READY"]
          ELSE [a EXCEPT !.replica = r.target, !.replicaStatus = "READY"]
  IN  IF r.kind = "PLACEMENT" /\ InPlace(moved, r.plan)
        THEN [moved EXCEPT !.version = r.version] ELSE moved

----------------------------------------------------------------------------
(* The key's writers and readers.                                          *)

RepairInit ==
  /\ scenario \in Scenarios
  /\ versioned \in BOOLEAN
  /\ placed = 1
  /\ auth = [generation |-> 0, primary |-> NoBackend, replica |-> NoBackend,
             primaryStatus |-> "ABSENT", replicaStatus |-> "ABSENT", version |-> 1,
             cas |-> 0, live |-> FALSE, vid |-> <<>>]
  /\ stored = {} /\ rows = {} /\ made = [b \in Backends |-> 0]
  /\ repairs = [k \in {} |-> {}]
  /\ worker = [w \in Workers |-> NoClaim]
  /\ faults = 0

\* A write of generation g at backend b creates version c.
Stores(b, g, c) ==
  /\ c = <<b, g, IF versioned THEN made[b] + 1 ELSE 0>>
  /\ versioned => made[b] < MaxCopies
  /\ made' = IF versioned THEN [made EXCEPT ![b] = @ + 1] ELSE made
  /\ stored' = stored \cup {c}
  /\ rows' = rows \cup {c}

\* A managed PUT publishes a new generation at the current placement: the
\* replica is left to a repair, the replaced copies to a cleanup each.
Publish ==
  /\ auth.generation < scenario.puts
  /\ \E c \in {<<Plan[placed].primary, auth.generation + 1, v>> : v \in 0..MaxCopies} :
       LET replica == Plan[placed].replica
           new == [generation |-> auth.generation + 1, primary |-> c[1], replica |-> replica,
                   primaryStatus |-> "READY",
                   replicaStatus |-> IF replica = NoBackend THEN "ABSENT" ELSE "PENDING",
                   version |-> placed, cas |-> auth.cas + 1, live |-> TRUE,
                   vid |-> IF versioned THEN c ELSE <<>>]
       IN  /\ Stores(c[1], c[2], c)
           /\ auth' = new
           /\ repairs' = InsertRepairs(repairs,
                           PublicationRepairs(new)
                             \cup (IF auth.live THEN CleanupRepairs(auth) ELSE {}))
  /\ UNCHANGED <<scenario, versioned, placed, worker, faults>>

Tombstone ==
  /\ auth.live
  /\ auth' = [auth EXCEPT !.live = FALSE, !.cas = @ + 1, !.vid = <<>>]
  /\ repairs' = InsertRepairs(repairs, CleanupRepairs(auth))
  /\ UNCHANGED <<scenario, versioned, made, placed, stored, rows, worker, faults>>

\* A new placement policy version is deployed.
RecordPlacementPolicy ==
  /\ placed + 1 \in DOMAIN Plan
  /\ placed' = placed + 1
  /\ UNCHANGED <<scenario, versioned, made, auth, stored, rows, repairs, worker, faults>>

Serves(b) ==
  IF b = auth.primary /\ auth.vid # <<>>
    THEN auth.vid[1] = b /\ auth.vid \in stored
    ELSE At(stored, b, auth.generation) # {}

Enqueue(r) == repairs' = InsertRepairs(repairs, {r})

\* A read that had to fall back to another copy asks for the primary to be
\* copied again, and for the legs of a newer placement.
EnqueueReadRepairs(source, primaryFailed) ==
  LET plan == Plan[placed] IN
  \/ /\ primaryFailed /\ source # auth.primary
     /\ Enqueue(CopyOf("REPLICA", source, auth.primary, "primary", auth.version, Plan[1]))
  \/ /\ placed # auth.version /\ plan.primary # auth.primary
     /\ Enqueue(CopyOf("PLACEMENT", source, plan.primary, "primary", placed, plan))
  \/ /\ placed # auth.version /\ plan.replica \notin {NoBackend, auth.replica}
     /\ Enqueue(CopyOf("PLACEMENT", source, plan.replica, "replica", placed, plan))

OpenAuthoritative ==
  /\ auth.live
  /\ \/ Serves(auth.primary) /\ EnqueueReadRepairs(auth.primary, FALSE)
     \/ /\ ~Serves(auth.primary)
        /\ auth.replicaStatus = "READY" /\ Serves(auth.replica)
        /\ EnqueueReadRepairs(auth.replica, TRUE)
     \/ /\ ~Serves(auth.primary)
        /\ placed # auth.version
        /\ ~(auth.replicaStatus = "READY" /\ Serves(auth.replica))
        /\ \E b \in Locations(Plan[placed]) :
             Serves(b) /\ EnqueueReadRepairs(b, TRUE)
  /\ UNCHANGED <<scenario, versioned, made, auth, placed, stored, rows, worker, faults>>

AdvancePlacementVersion ==
  /\ InPlace(auth, Plan[placed])
  /\ auth' = [auth EXCEPT !.version = placed, !.cas = @ + 1]
  /\ UNCHANGED repairs

ReconcileAuthorityPlacement ==
  LET plan == Plan[placed] IN
  /\ auth.live /\ auth.version < placed
  /\ \/ AdvancePlacementVersion
     \/ /\ ~InPlace(auth, plan)
        /\ \/ /\ \/ auth.primary # plan.primary
                 \/ plan.replica = NoBackend /\ auth.replica # NoBackend
              /\ Enqueue(CopyOf("PLACEMENT", auth.primary, plan.primary, "primary", placed, plan))
           \/ /\ plan.replica # NoBackend
              /\ auth.replica # plan.replica \/ auth.replicaStatus # "READY"
              /\ Enqueue(CopyOf("PLACEMENT", auth.primary, plan.replica, "replica", placed, plan))
        /\ UNCHANGED auth
  /\ UNCHANGED <<scenario, versioned, made, placed, stored, rows, worker, faults>>

----------------------------------------------------------------------------
(* One execution of repair_due by worker w.  A worker runs one repair at a *)
(* time, so its name stands for the lease token of the claim it runs.      *)

ClaimRepair(w, k) ==
  LET r == repairs[k] IN
  /\ worker[w] = NoClaim
  /\ r.state = "PENDING" \/ (r.state = "LEASED" /\ r.expired)
  /\ r.kind = "DELETE" => ~IsAuthoritative(r.generation, r.target)
  /\ repairs' = [repairs EXCEPT ![k].state = "LEASED", ![k].token = w,
                                ![k].expired = FALSE]
  /\ worker' = [worker EXCEPT ![w] =
                  [at |-> "claimed", repair |-> [r EXCEPT !.token = w],
                   targets |-> {}, ok |-> TRUE]]
  /\ UNCHANGED <<scenario, versioned, made, auth, placed, stored, rows, faults>>

Moves(w, at) == worker' = [worker EXCEPT ![w].at = at]

Fails(w) == worker' = [worker EXCEPT ![w].at = "executed", ![w].ok = FALSE]

ReadSource(w) ==
  LET r == worker[w].repair IN
  /\ worker[w].at = "claimed" /\ r.kind # "DELETE"
  /\ IF At(stored, r.source, r.generation) # {} THEN Moves(w, "read") ELSE Fails(w)
  /\ UNCHANGED <<scenario, versioned, made, auth, placed, stored, rows, repairs, faults>>

\* The target's child operation commits: its bytes and its ledger row.
WriteTarget(w) ==
  LET r == worker[w].repair IN
  /\ worker[w].at = "read"
  /\ \E v \in 0..MaxCopies : Stores(r.target, r.generation, <<r.target, r.generation, v>>)
  /\ Moves(w, "executed")
  /\ UNCHANGED <<scenario, versioned, auth, placed, repairs, faults>>

CheckCleanup(w) ==
  LET r == worker[w].repair IN
  /\ worker[w].at = "claimed" /\ r.kind = "DELETE"
  /\ IF IsAuthoritative(r.generation, r.target) THEN Fails(w) ELSE Moves(w, "checked")
  /\ UNCHANGED <<scenario, versioned, made, auth, placed, stored, rows, repairs, faults>>

ListPhysicalVersions(w) ==
  LET r == worker[w].repair
      listed == At(rows, r.target, r.generation)
  IN
  /\ worker[w].at = "checked"
  /\ worker' = [worker EXCEPT ![w].targets = listed,
                              ![w].at = IF listed = {} THEN "executed" ELSE "deleting",
                              ![w].ok = listed # {}]
  /\ UNCHANGED <<scenario, versioned, made, auth, placed, stored, rows, repairs, faults>>

\* Deletes one listed version at the provider, verifies it is gone and forgets it.
DeleteGeneration(w) ==
  /\ worker[w].at = "deleting"
  /\ \E c \in worker[w].targets :
       /\ stored' = stored \ {c}
       /\ rows' = rows \ {c}
       /\ worker' = [worker EXCEPT
                       ![w].targets = @ \ {c},
                       ![w].at = IF worker[w].targets = {c} THEN "executed" ELSE "deleting"]
  /\ UNCHANGED <<scenario, versioned, made, auth, placed, repairs, faults>>

ExecuteFails(w) ==
  /\ worker[w].at \in {"read", "deleting"} /\ faults < scenario.faults
  /\ faults' = faults + 1
  /\ Fails(w)
  /\ UNCHANGED <<scenario, versioned, made, auth, placed, stored, rows, repairs>>

HoldsLease(r) ==
  /\ repairs[Key(r)].state = "LEASED" /\ repairs[Key(r)].token = r.token
  /\ ~repairs[Key(r)].expired

Done(r, state) == [repairs EXCEPT ![Key(r)].state = state, ![Key(r)].token = NoBackend]

CompleteCleanup(r) ==
  /\ repairs' = Done(r, IF At(rows, r.target, r.generation) = {} THEN "DONE" ELSE "PENDING")
  /\ UNCHANGED auth

\* Mutant: a copy is published while its target is being cleaned up.
MutCleanupInProgress(r) == FALSE

CleanupInProgress(r) ==
  LET k == <<"DELETE", r.generation, r.target>> IN
  k \in DOMAIN repairs /\ repairs[k].state = "LEASED"

Applies(r) ==
  /\ ~CleanupInProgress(r)
  /\ auth.generation = r.generation /\ auth.cas = r.cas /\ auth.live
  /\ r.kind = "PLACEMENT" => r.version >= auth.version

CompleteCopy(r) ==
  LET applied == ApplyRepairToAuthority(auth, r)
      next == IF applied = auth THEN auth ELSE [applied EXCEPT !.cas = @ + 1]
      waiting == InsertWaiting(Done(r, "DONE"), PlacementCleanupRepairs(auth, next, r.version))
  IN
  /\ At(rows, r.target, r.generation) # {}
  /\ \/ /\ Applies(r)
        /\ auth' = next
        /\ repairs' = IF r.kind # "PLACEMENT" THEN Done(r, "DONE")
                      ELSE IF next.version = r.version
                        THEN Activate(waiting, r.generation, r.version) ELSE waiting
     \/ /\ ~Applies(r)
        /\ repairs' = IF IsAuthoritative(r.generation, r.target) THEN Done(r, "DONE")
                      ELSE InsertRepairs(Done(r, "DONE"), {StaleRepairCleanup(r)})
        /\ UNCHANGED auth

\* A lost lease, or a target that was cleaned up meanwhile, changes nothing.
CompleteRepair(w) ==
  LET r == worker[w].repair IN
  /\ worker[w].at = "executed" /\ worker[w].ok
  /\ \/ HoldsLease(r) /\ r.kind = "DELETE" /\ CompleteCleanup(r)
     \/ HoldsLease(r) /\ r.kind # "DELETE" /\ CompleteCopy(r)
     \/ /\ ~HoldsLease(r) \/ (r.kind # "DELETE" /\ At(rows, r.target, r.generation) = {})
        /\ UNCHANGED <<auth, repairs>>
  /\ worker' = [worker EXCEPT ![w] = NoClaim]
  /\ UNCHANGED <<scenario, versioned, made, placed, stored, rows, faults>>

FailRepair(w) ==
  LET r == worker[w].repair
      tried == repairs[Key(r)].attempts + 1
  IN
  /\ worker[w].at = "executed" /\ ~worker[w].ok
  /\ repairs' = IF ~HoldsLease(r) THEN repairs
                ELSE [Done(r, IF tried >= MaxAttempts THEN "DEAD" ELSE "PENDING")
                        EXCEPT ![Key(r)].attempts = tried]
  /\ worker' = [worker EXCEPT ![w] = NoClaim]
  /\ UNCHANGED <<scenario, versioned, made, auth, placed, stored, rows, faults>>

WorkerDies(w) ==
  /\ worker[w] # NoClaim /\ faults < scenario.faults
  /\ faults' = faults + 1
  /\ worker' = [worker EXCEPT ![w] = NoClaim]
  /\ UNCHANGED <<scenario, versioned, made, auth, placed, stored, rows, repairs>>

\* A lease is renewed while its worker runs (renew_repair every 10 s of 30 s),
\* so it expires once nobody runs it, or when the heartbeat was held up.
Expire(k) ==
  LET running == {w \in Workers : worker[w] # NoClaim /\ worker[w].repair.token = repairs[k].token}
  IN
  /\ repairs[k].state = "LEASED" /\ ~repairs[k].expired
  /\ \/ running = {} /\ UNCHANGED faults
     \/ /\ running # {} /\ repairs[k].kind \in LapseKinds /\ faults < scenario.faults
        /\ faults' = faults + 1
  /\ repairs' = [repairs EXCEPT ![k].expired = TRUE]
  /\ UNCHANGED <<scenario, versioned, made, auth, placed, stored, rows, worker>>

WorkerStep(w) ==
  \/ \E k \in DOMAIN repairs : ClaimRepair(w, k)
  \/ ReadSource(w) \/ WriteTarget(w)
  \/ CheckCleanup(w) \/ ListPhysicalVersions(w) \/ DeleteGeneration(w)
  \/ ExecuteFails(w) \/ CompleteRepair(w) \/ FailRepair(w) \/ WorkerDies(w)

RepairNext ==
  \/ Publish \/ Tombstone \/ RecordPlacementPolicy
  \/ OpenAuthoritative \/ ReconcileAuthorityPlacement
  \/ \E w \in Workers : WorkerStep(w)
  \/ \E k \in DOMAIN repairs : Expire(k)

RepairSpec == RepairInit /\ [][RepairNext]_repairVars

----------------------------------------------------------------------------
(* Properties.                                                             *)

\* A location the live authority calls READY holds a copy of its generation:
\* no cleanup, late worker or placement cutover removes a copy that reads rely
\* on (claim_repairs, complete_repair, delete_generation).
ReadyHolds ==
  auth.live =>
    /\ auth.primaryStatus = "READY" => At(stored, auth.primary, auth.generation) # {}
    /\ auth.replicaStatus = "READY" => At(stored, auth.replica, auth.generation) # {}

\* A placement took generation g back to backend b after a cleanup of it there
\* had been recorded.  A later cutover away from b finds that cleanup in the
\* table and records none of its own, whatever the state of the one it finds
\* (insert_waiting_placement_cleanup does nothing on conflict).
Revisited(g, b) == {<<"DELETE", g, b>>, <<"PLACEMENT", g, b>>} \subseteq DOMAIN repairs

\* A ledgered copy no read relies on has a repair left that will delete it, or
\* will find out that it has to be deleted: nothing is billed and forgotten,
\* except where a placement came back to a backend that was cleaned up before.
StrayCovered ==
  \A c \in rows :
    \/ IsAuthoritative(c[2], c[1])
    \/ \E k \in DOMAIN repairs :
         k[2] = c[2] /\ k[3] = c[1] /\ repairs[k].state # "DONE"
    \/ Revisited(c[2], c[1])

\* Every READY location holds a copy of the authoritative generation, and every
\* stray copy is still named by a repair that will remove it, through cleanups,
\* overwrites, deletes and placement cutovers (service_storage/core.rs:2142,
\* managed/repair.rs, complete_repair).
RepairsSound == ReadyHolds /\ StrayCovered

\* Each READY location of a live object answers a read on its own, so that
\* reads fail over from one backend to the other (open_authoritative).
FailsOver ==
  auth.live =>
    /\ auth.primaryStatus = "READY" => Serves(auth.primary)
    /\ auth.replicaStatus = "READY" => Serves(auth.replica)

=============================================================================
