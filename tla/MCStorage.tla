----------------------------- MODULE MCStorage ------------------------------
(***************************************************************************)
(* Managed storage and the requests in front of it, for TLC: routing and    *)
(* metering, the in-memory ledger and replica repair.  The components share *)
(* no state, so one run checks them side by side: the value of part names   *)
(* the component that moves in a behaviour.  The extended modules have      *)
(* their own variables; x1 to x8 hold the state of the instantiated one.    *)
(***************************************************************************)
EXTENDS WorkspaceRouting, RequestMetering, ManagedRepair, TLC

\* t1 and t2 are the two interchangeable operations, workers or recoverers of a component.
CONSTANTS t1, t2, k1, a, b, c, Worker, Writer, NoOp

VARIABLES part, x1, x2, x3, x4, x5, x6, x7, x8

slots == <<x1, x2, x3, x4, x5, x6, x7, x8>>
extended == <<routingVars, meteringVars, repairVars>>
allVars == <<part, extended, slots>>

\* Every deployment except a single-tenant one without persisted routing,
\* which has no fence.
StorageDeployments == {d \in DeploymentType : d.fenced \/ ~d.single}

\* Two operations on one key of a workspace with room for one object.
Memory == INSTANCE MemoryLedger WITH
    space <- x1, usage <- x2, auth <- x3, op <- x4, lease <- x5, rows <- x6, stale <- x7, run <- x8,
    Ops <- {t1, t2}, Keys <- {k1}, Sizes <- {2}, VisibleLimit <- 2, Headroom <- 2,
    ReservationCap <- 2, MaxEpoch <- 2, MaxCas <- 2

\* A replicated placement, a move, a move there and back, and one there and back and there again
\* (without faults), with two workers.
Placed(primary, replica) == [primary |-> primary, replica |-> replica]
Moving(from, to) == <<Placed(from, NoBackend), Placed(to, NoBackend)>>
RepairScenarios ==
    {[placements |-> <<Placed(a, b), Placed(b, NoBackend)>>, puts |-> 1, faults |-> 1],
     [placements |-> Moving(a, b), puts |-> 2, faults |-> 1],
     [placements |-> Append(Moving(a, b), Placed(a, NoBackend)), puts |-> 1, faults |-> 1],
     [placements |-> Moving(a, b) \o Moving(a, b), puts |-> 1, faults |-> 0]}

-----------------------------------------------------------------------------
\* An extended component that does not move is in one of its initial states.
RoutingIdle ==
    /\ deployment = [single |-> FALSE, managed |-> FALSE, global |-> FALSE, file |-> FALSE, fenced |-> TRUE]
    /\ request = [o \in Operations |-> [pc |-> "start", header |-> "none", backend |-> "none",
                                        binding |-> NoBinding, token |-> 0, stopped |-> FALSE]]
MeteringIdle == handler = [r \in Requests |-> [kind |-> "get", op |-> r, pc |-> "start"]]
RepairIdle ==
    /\ versioned = FALSE
    /\ scenario = [placements |-> Moving(a, b), puts |-> 2, faults |-> 1]
MemoryBlank == x1 = 0 /\ x2 = 0 /\ x3 = 0 /\ x4 = 0 /\ x5 = 0 /\ x6 = 0 /\ x7 = 0 /\ x8 = 0

StorageInit ==
    /\ \/ part = "routing" /\ MeteringIdle /\ RepairIdle /\ MemoryBlank
       \/ part = "metering" /\ RoutingIdle /\ RepairIdle /\ MemoryBlank
       \/ part = "repair" /\ RoutingIdle /\ MeteringIdle /\ MemoryBlank
       \/ part = "memory" /\ RoutingIdle /\ MeteringIdle /\ RepairIdle /\ Memory!MemInit
    /\ RoutingInit /\ MeteringInit /\ RepairInit

StorageNext ==
    \/ part = "routing" /\ RoutingNext /\ UNCHANGED <<part, meteringVars, repairVars, slots>>
    \/ part = "metering" /\ MeteringNext /\ UNCHANGED <<part, routingVars, repairVars, slots>>
    \/ part = "repair" /\ RepairNext /\ UNCHANGED <<part, routingVars, meteringVars, slots>>
    \/ part = "memory" /\ Memory!MemNext /\ UNCHANGED <<part, extended>>

StorageSpec == StorageInit /\ [][StorageNext]_allVars

\* Workers and operations are interchangeable in every component.
Symmetry == Permutations({t1, t2})

-----------------------------------------------------------------------------
(* Properties of the instantiated components                               *)

\* Split admission, version rows written by finalizations that fail, recovery, deletes and purges
\* keep the byte contract: the in-memory ledger (managed/memory.rs) implements WorkspaceLedger.
MemoryImplements ==
    /\ part = "memory" => Memory!Contract!Init
    /\ [][part = "memory" => Memory!Contract!Next \/ UNCHANGED Memory!Contract!ledgerVars]_slots
=============================================================================
