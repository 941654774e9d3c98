----------------------------- MODULE MCLiveness -----------------------------
(***************************************************************************)
(* What must eventually happen, outside the managed ledger.  The components *)
(* share no state, so one run lets TLC check them side by side: the value   *)
(* of part names the component that moves in a behaviour.  The journal has  *)
(* its own variables; x1 to x13 hold the state of any other component, and  *)
(* a slot it does not use stays 0.  The fairness of each component is the   *)
(* Fairness its module states, guarded by part.                             *)
(***************************************************************************)
EXTENDS OperationJournal

VARIABLES part, x1, x2, x3, x4, x5, x6, x7, x8, x9, x10, x11, x12, x13

slots == <<x1, x2, x3, x4, x5, x6, x7, x8, x9, x10, x11, x12, x13>>
allVars == <<part, slots, vars>>

\* One client and one part of an upload kept by the file repository.
Staging == INSTANCE MultipartParts WITH
    upload <- x1, attempts <- x2, store <- x3, client <- x4, clean <- x5, worker <- x6, ghost <- x7,
    Repo <- "file", Clients <- {"c1"}, Parts <- {1}, Reserve <- 2, QuotaBytes <- 4, MaxFaults <- 1

\* Two CompleteMultipartUpload requests and the recovery worker.
Completion == INSTANCE MultipartCompletion WITH
    up <- x1, journal <- x2, dest <- x3, req <- x4, rec <- x5, ghost <- x6,
    Requests <- {"r1", "r2"}, Fingerprints <- {"f1"}, NoFp <- "none", Backends <- {"file"},
    MaxToken <- 2, MaxFaults <- 1

\* A managed delete and a read, with two lost calls to the control plane.
Metering == INSTANCE RequestMetering WITH
    handler <- x1, reservation <- x2, recorded <- x3, effect <- x4, settlement <- x5, body <- x6,
    lease <- x7, completed <- x8, lost <- x9, requestFaults <- x10,
    Requests <- {"r1", "r2"}, Kinds <- {"managed", "get"}, MaxCompletions <- 1, MaxFaults <- 2,
    NoRequest <- "nobody"

\* One routed operation and one recovery worker; credentials stay resolvable.
Routing == INSTANCE WorkspaceRouting WITH
    deployment <- x1, configs <- x2, routing <- x3, request <- x4, routeLease <- x5, journal <- x6,
    bucket <- x7, recoverer <- x8, stalls <- x9,
    Operations <- {"o1"}, Recoverers <- {"w1"}, ConfigKinds <- {"s3"},
    Deployments <- {[single |-> FALSE, managed |-> FALSE, global |-> FALSE, file |-> FALSE, fenced |-> TRUE]},
    Headers <- {"none"}, MaxVersion <- 2, MaxToken <- 3, MaxStalls <- 1, Nobody <- "nobody"

\* Two wasm sessions compete for one worker thread and one unit of memory.
Session == INSTANCE PipelineSession WITH
    caller <- x1, task <- x2, job <- x3, permit <- x4, used <- x5, queue <- x6, chan <- x7, held <- x8,
    answer <- x9, watchdog <- x10, cancelled <- x11, late <- x12, input <- x13,
    Sessions <- {"s1", "s2"}, Workers <- 1, QueueCapacity <- 1, MemoryBudget <- 1, MaxInput <- 0

-----------------------------------------------------------------------------
\* The slots a component with n variables does not use.
Blank10 == x11 = 0 /\ x12 = 0 /\ x13 = 0
Blank9 == x10 = 0 /\ Blank10
Blank7 == x8 = 0 /\ x9 = 0 /\ Blank9
Blank6 == x7 = 0 /\ Blank7
Blank0 == x1 = 0 /\ x2 = 0 /\ x3 = 0 /\ x4 = 0 /\ x5 = 0 /\ x6 = 0 /\ Blank6

rest10 == <<part, vars, x11, x12, x13>>
rest9 == <<x10, rest10>>
rest7 == <<x8, x9, rest9>>
rest6 == <<x7, rest7>>

LiveInit ==
    /\ Init
    /\ \/ part = "journal" /\ Blank0
       \/ part = "staging" /\ Staging!PartsInit /\ Blank7
       \/ part = "completion" /\ Completion!CompletionInit /\ Blank6
       \/ part = "metering" /\ Metering!MeteringInit /\ Blank10
       \/ part = "routing" /\ Routing!RoutingInit /\ Blank9
       \/ part = "session" /\ Session!SessionInit

LiveNext ==
    \/ part = "journal" /\ Next /\ UNCHANGED <<part, slots>>
    \/ part = "staging" /\ Staging!PartsNext /\ UNCHANGED rest7
    \/ part = "completion" /\ Completion!CompletionNext /\ UNCHANGED rest6
    \/ part = "metering" /\ Metering!MeteringNext /\ UNCHANGED rest10
    \/ part = "routing" /\ Routing!RoutingNext /\ UNCHANGED rest9
    \/ part = "session" /\ Session!SessionNext /\ UNCHANGED <<part, vars>>

stagingVars == Staging!partVars
completionVars == Completion!completionVars
meteringVars == Metering!meteringVars
routingVars == Routing!routingVars
sessionVars == Session!sessionVars

\* Fairness of OperationJournal: time passes, the provider settles what it accepted, a pass of the
\* drop reconciler or of a worker returns, and a steady worker gets the lapsed lease.
JournalFairness ==
    /\ SF_vars(part = "journal" /\ Tick)
    /\ WF_vars(part = "journal" /\ OuterLapses)
    /\ WF_vars(part = "journal" /\ \E n \in Attempts : ProviderLands(n) \/ ProviderLoses(n))
    /\ \A a \in Actors \ {Sink} : WF_vars(part = "journal" /\ (PassStep(a) \/ Fails(a)))
    /\ \A w \in Steady : SF_vars(part = "journal" /\ TakePhysicalLease(w))

\* A request that lives goes on, every cleanup deletes and confirms, the worker
\* sweeps once a minute and the grace of a late artifact passes.
StagingFairness ==
    /\ WF_stagingVars(part = "staging" /\ (Staging!DiscardPending("c1") \/ Staging!PutFile("c1")))
    /\ WF_stagingVars(part = "staging" /\ (Staging!CommitPart("c1") \/ Staging!CommitFails("c1")))
    /\ \A p \in {"c1", "worker", "closer"} :
          /\ WF_stagingVars(part = "staging" /\ Staging!DeleteArtifact(p))
          /\ WF_stagingVars(part = "staging" /\ Staging!ConfirmDeleted(p))
    /\ WF_stagingVars(part = "staging" /\ Staging!SweepStep)
    /\ WF_stagingVars(part = "staging" /\ Staging!GracePasses)

\* The recovery worker of the process keeps running and a rename, once begun, ends.
CompletionFairness ==
    /\ WF_completionVars(part = "completion" /\ Completion!RecoveryStep)
    /\ \A r \in {"r1", "r2"} :
          WF_completionVars(part = "completion" /\ (Completion!WriteProof(r) \/ Completion!PutAnswered(r)))

\* The settlement worker runs again and again.
MeteringFairness ==
    \A o \in {"r1", "r2"} : WF_meteringVars(part = "metering" /\ Metering!ReconcileDeleteSettlement(o))

\* Leases and claims lapse, calls land or are lost, the recovery loop runs on.
RoutingFairness ==
    /\ WF_routingVars(part = "routing" /\ Routing!Lost("o1"))
    /\ WF_routingVars(part = "routing" /\ Routing!Lands("o1"))
    /\ WF_routingVars(part = "routing" /\ Routing!Lapse("o1"))
    /\ WF_routingVars(part = "routing" /\ Routing!ClaimExpires("o1"))
    /\ WF_routingVars(part = "routing" /\ Routing!Recovery("w1"))

\* Threads and tasks are scheduled, the deadline and the watchdog fire.
SessionFairness ==
    /\ WF_sessionVars(part = "session" /\ Session!WorkerTake)
    /\ \A s \in {"s1", "s2"} :
          /\ WF_sessionVars(part = "session" /\ (Session!TaskReserve(s) \/ Session!TaskSend(s)
                                               \/ Session!TaskReceive(s) \/ Session!TaskDrain(s)))
          /\ WF_sessionVars(part = "session" /\ (Session!JobStart(s) \/ Session!JobReceive(s)
                                               \/ Session!JobProcess(s) \/ Session!JobFinish(s)
                                               \/ Session!JobEnd(s)))
          /\ WF_sessionVars(part = "session" /\ (Session!Started(s) \/ Session!SendProcess(s)
                                               \/ Session!SendFinish(s) \/ Session!Processed(s)
                                               \/ Session!Finished(s) \/ Session!Joined(s)))
          /\ WF_sessionVars(part = "session" /\ Session!Watchdog(s))
          /\ WF_sessionVars(part = "session" /\ Session!Deadline(s))

LiveSpec ==
    /\ LiveInit /\ [][LiveNext]_allVars
    /\ JournalFairness /\ StagingFairness /\ CompletionFairness
    /\ MeteringFairness /\ RoutingFairness /\ SessionFairness

-----------------------------------------------------------------------------
(* Properties.  Each situation below ends only in the way its property      *)
(* names, so infinitely often not being in it is the same as leaving it.    *)

\* Nothing of a closed upload stays behind: its attempts, its quota and every artifact a
\* late request wrote are gone in the end (reconcile_staged_artifacts, server/multipart.rs:1996).
\* On the file store an upload does not stay in Publishing: it is completed when its object
\* was published and handed back when it was not (multipart_completion.rs:325).
UploadsResolve ==
    /\ []<>(part = "staging" /\ x1.life \in Staging!TerminalLife => x2 = {} /\ x3 = {})
    /\ []<>(part = "completion" => x1.life # "Publishing")

\* What a worker has to settle is settled, whoever was lost before: the committed tombstone of a
\* managed delete is billed and acknowledged (reconcile_managed_delete_settlements), and the lease
\* of a routed operation is released, so that it does not pin the workspace's configuration for
\* ever (reconcile_workspace_streaming_operation).
WorkersSettle ==
    /\ \A o \in {"r1", "r2"} :
          []<>(part = "metering" => x5[o] = "none" \/ (x5[o] = "settled" /\ o \in x3))
    /\ []<>(part = "routing" => ~Routing!Unsettled("o1"))

\* Every call on a wasm session returns, and every session that was started gives its worker thread
\* and its guest memory back, even if its caller never calls again or was dropped at any await
\* (plugin_registry.rs:1320, 1330).
SessionsEnd ==
    \A s \in {"s1", "s2"} :
        /\ []<>(part = "session" /\ x2[s] # "none" => x2[s] = "ended" /\ ~x4[s])
        /\ []<>(part = "session" => x1[s] \notin Session!Waiting)
=============================================================================
