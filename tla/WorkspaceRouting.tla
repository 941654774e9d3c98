-------------------------- MODULE WorkspaceRouting --------------------------
(***************************************************************************)
(* Where a workspace's objects go.  A request resolves the workspace's     *)
(* storage configuration to a backend (backend.rs), carries the version    *)
(* and the routing epoch it saw to admission, which takes a route lease    *)
(* and inserts the journal row in one transaction (workspace_storage.rs),  *)
(* and mutates the tenant's bucket only under that lease                   *)
(* (server/workspace_lease.rs).  An operation lost on the way is recovered *)
(* by a periodic hook or by a retry, from the configuration version its    *)
(* row names (server/multipart.rs).                                        *)
(*                                                                         *)
(* The repository behind WorkspaceStorageRepository is external: it keeps  *)
(* the configuration versions, the leases and the journal bindings, and is *)
(* modelled by the contract its trait documents.  How the journal decides  *)
(* what became of a provider call is the subject of OperationJournal; here *)
(* a reconciler sees whether the object is there once no call is pending.  *)
(***************************************************************************)
EXTENDS Naturals, Sequences

CONSTANTS
  Operations,   \* streaming writes to one workspace
  Recoverers,   \* periodic hooks and client retries
  ConfigKinds,  \* kinds of configuration a workspace may be given
  Deployments,  \* what the gateway was started with
  Headers,      \* "none", "managed", "presigned": what a request asks for
  MaxVersion,   \* bound: configuration versions
  MaxToken,     \* bound: fencing tokens of a lease
  MaxStalls,    \* bound: leases and claims that run out under a live holder
  Nobody        \* no claim on a journal row

\* A gateway is started single-tenant or hosted, with or without managed
\* buckets and a global S3 client; its repository persists routing or not.
DeploymentType == [single : BOOLEAN, managed : BOOLEAN, global : BOOLEAN,
                   file : BOOLEAN, fenced : BOOLEAN]

ASSUME ConfigKindsAssumption == ConfigKinds \subseteq {"s3", "role", "managed"}
ASSUME DeploymentsAssumption == Deployments \subseteq DeploymentType

VARIABLES
  deployment,  \* the gateway's start-up configuration
  configs,     \* version -> kind of the stored configuration
  routing,     \* current version, its epoch, and whether a transition is under way
  request,     \* operation -> the request that writes it
  routeLease,  \* operation -> its route lease
  journal,     \* operation -> its journal row: state, token bound, claim
  bucket,      \* operation -> version whose bucket has a call pending, has the object
  recoverer,   \* recoverer -> what it works on
  stalls       \* holders that outlived what they held, so far

routingVars == <<deployment, configs, routing, request, routeLease, journal, bucket,
                 recoverer, stalls>>

Versions == 1..MaxVersion
NoBinding == [version |-> 0, epoch |-> 0]
Terminal == {"COMMITTED", "ABORTED"}

RoutingInit ==
  /\ deployment \in Deployments
  /\ configs = <<>>
  /\ routing = [version |-> 0, epoch |-> 1, stable |-> TRUE]
  /\ request \in [Operations -> [pc : {"start"}, header : Headers, backend : {"none"},
                                 binding : {NoBinding}, token : {0}, stopped : {FALSE}]]
  /\ routeLease = [o \in Operations |-> [state |-> "none", token |-> 0]]
  /\ journal = [o \in Operations |-> [state |-> "none", token |-> 0, version |-> 0, claim |-> Nobody]]
  /\ bucket = [o \in Operations |-> [pending |-> 0, holds |-> 0]]
  /\ recoverer = [w \in Recoverers |-> [pc |-> "idle", op |-> Nobody, token |-> 0]]
  /\ stalls = 0

Kind == IF routing.version = 0 THEN "none" ELSE configs[routing.version]

----------------------------------------------------------------------------
(* The repository, external.                                               *)

\* A lease that is not settled pins the configuration it was taken under.
Unsettled(o) == routeLease[o].state \in {"live", "lapsed"}

\* A new configuration is accepted: a persisted repository fences new work
\* first, and refuses while an operation of the old version is unsettled.
PutConfig(kind) ==
  /\ routing.stable /\ Len(configs) < MaxVersion
  /\ deployment.fenced => \A o \in Operations : ~Unsettled(o)
  /\ configs' = Append(configs, kind)
  /\ routing' = IF deployment.fenced THEN [routing EXCEPT !.stable = FALSE]
                ELSE [routing EXCEPT !.version = @ + 1]
  /\ UNCHANGED <<deployment, request, routeLease, journal, bucket, recoverer, stalls>>

FinishTransition ==
  /\ ~routing.stable
  /\ routing' = [version |-> Len(configs), epoch |-> routing.epoch + 1, stable |-> TRUE]
  /\ UNCHANGED <<deployment, configs, request, routeLease, journal, bucket, recoverer, stalls>>

Sending == {"writing", "opened", "sent"}

\* Nobody renews the lease any more, or its holder stalls.
Renewed(o) ==
  \/ request[o].pc \in Sending \cup {"release"} /\ request[o].token = routeLease[o].token
  \/ \E w \in Recoverers : recoverer[w].op = o /\ recoverer[w].token = routeLease[o].token

Stalls(held) == IF held THEN stalls < MaxStalls /\ stalls' = stalls + 1 ELSE UNCHANGED stalls

Lapse(o) ==
  /\ routeLease[o].state = "live" /\ Stalls(Renewed(o))
  /\ routeLease' = [routeLease EXCEPT ![o].state = "lapsed"]
  /\ UNCHANGED <<deployment, configs, routing, request, journal, bucket, recoverer>>

Current(o, token) == routeLease[o] = [state |-> "live", token |-> token]

\* A settlement is accepted from the holder of the bound token, for a row with
\* the matching outcome, and again once it happened.
Settles(o, token) ==
  /\ token = routeLease[o].token /\ journal[o].state \in Terminal
  /\ routeLease' = [routeLease EXCEPT ![o].state =
                      IF journal[o].state = "COMMITTED" THEN "committed" ELSE "aborted"]

----------------------------------------------------------------------------
(* Resolution.                                                             *)

\* workspace_streaming_binding: a persisted epoch and an attested S3 endpoint.
StreamingBinding ==
  IF deployment.fenced THEN [version |-> routing.version, epoch |-> routing.epoch]
  ELSE NoBinding

\* The backend a request is sent to; an empty set when it is refused.
Fallback ==
  CASE deployment.managed -> {"managed"}
    [] ~deployment.managed /\ ~deployment.single -> {}
    [] OTHER -> {IF deployment.global THEN "global"
                 ELSE IF deployment.file THEN "file" ELSE "memory"}

Configured ==
  CASE ~routing.stable -> {}
    [] Kind = "managed" -> IF deployment.managed THEN {"managed"} ELSE {}
    [] Kind \in {"s3", "role"} -> {"peruser"}
    [] Kind = "none" -> Fallback

Resolution(header) ==
  CASE header = "managed" /\ deployment.single ->
         IF deployment.managed THEN {"managed"} ELSE {}
    [] header = "presigned" -> {"presigned"}
    [] OTHER -> Configured

\* The workspace lookup, the endpoint policy or the role assumption may also
\* fail, which refuses the request.
ResolveWithRouting(o) ==
  /\ request[o].pc = "start"
  /\ \/ \E b \in Resolution(request[o].header) :
          request' = [request EXCEPT ![o].pc = "resolved", ![o].backend = b,
                                     ![o].binding = IF b = "peruser" THEN StreamingBinding ELSE @]
     \/ request' = [request EXCEPT ![o].pc = "refused"]
  /\ UNCHANGED <<deployment, configs, routing, routeLease, journal, bucket, recoverer, stalls>>

\* begin_streaming_sink refuses presigned writes and unbound workspaces, and
\* leaves the other backends to their own transactions.
BeginStreamingSink(o) ==
  /\ request[o].pc = "resolved"
  /\ request[o].backend # "peruser" \/ request[o].binding = NoBinding
  /\ request' = [request EXCEPT ![o].pc =
                   IF request[o].backend \in {"presigned", "peruser"} THEN "refused" ELSE "elsewhere"]
  /\ UNCHANGED <<deployment, configs, routing, routeLease, journal, bucket, recoverer, stalls>>

Active(binding) == routing = [version |-> binding.version, epoch |-> binding.epoch, stable |-> TRUE]

\* The admission transaction compares what the request resolved with what is
\* active now.
Admitted(o) ==
  /\ Active(request[o].binding)
  /\ routeLease' = [routeLease EXCEPT ![o] = [state |-> "live", token |-> 1]]
  /\ journal' = [journal EXCEPT ![o] = [state |-> "INTENT", token |-> 1,
                                        version |-> request[o].binding.version, claim |-> Nobody]]

\* Its answer may be lost: the request ends and keeps its reservation.
AdmitStreamingOperation(o) ==
  /\ request[o].pc = "resolved" /\ request[o].binding # NoBinding
  /\ \/ Admitted(o) /\ request' = [request EXCEPT ![o].pc = "writing", ![o].token = 1]
     \/ Admitted(o) /\ request' = [request EXCEPT ![o].pc = "gone"]
     \/ /\ request' = [request EXCEPT ![o].pc = "refused"]
        /\ UNCHANGED <<routeLease, journal>>
  /\ UNCHANGED <<deployment, configs, routing, bucket, recoverer, stalls>>

----------------------------------------------------------------------------
(* The leased sink.                                                        *)

\* The heartbeat finds its lease lapsed or taken: the fence stops, and with it
\* every call that waits on it.
Heartbeat(o) ==
  /\ request[o].pc \in Sending /\ ~request[o].stopped
  /\ ~Current(o, request[o].token)
  /\ request' = [request EXCEPT ![o].stopped = TRUE]
  /\ UNCHANGED <<deployment, configs, routing, routeLease, journal, bucket, recoverer, stalls>>

MutAssertCurrent(o) == ~request[o].stopped

AssertCurrent(o) == ~request[o].stopped /\ Current(o, request[o].token)

\* The journal takes the row out of INTENT before anything is sent.
SetOpen(o) ==
  /\ request[o].pc = "writing" /\ journal[o].state = "INTENT"
  /\ journal' = [journal EXCEPT ![o].state = "OPEN"]
  /\ request' = [request EXCEPT ![o].pc = "opened"]
  /\ UNCHANGED <<deployment, configs, routing, routeLease, bucket, recoverer, stalls>>

\* The provider call leaves under an asserted fence (its retries are modelled
\* in OperationJournal).
Mutate(o) ==
  /\ request[o].pc = "opened" /\ AssertCurrent(o)
  /\ bucket' = [bucket EXCEPT ![o].pending = request[o].binding.version]
  /\ request' = [request EXCEPT ![o].pc = "sent"]
  /\ UNCHANGED <<deployment, configs, routing, routeLease, journal, recoverer, stalls>>

\* A pending call takes effect or never will.
Lands(o) ==
  /\ bucket[o].pending # 0
  /\ \/ bucket' = [bucket EXCEPT ![o] = [pending |-> 0, holds |-> bucket[o].pending]]
     \/ bucket' = [bucket EXCEPT ![o].pending = 0]
  /\ UNCHANGED <<deployment, configs, routing, request, routeLease, journal, recoverer, stalls>>

\* The sink's complete: the row commits, then the lease is settled.
Complete(o) ==
  /\ request[o].pc = "sent" /\ ~request[o].stopped
  /\ bucket[o].holds # 0 /\ journal[o].state = "OPEN"
  /\ journal' = [journal EXCEPT ![o].state = "COMMITTED", ![o].claim = Nobody]
  /\ request' = [request EXCEPT ![o].pc = "release"]
  /\ UNCHANGED <<deployment, configs, routing, routeLease, bucket, recoverer, stalls>>

\* The sink's abort asserts the fence, proves the object absent, and settles.
AbortSink(o) ==
  /\ request[o].pc \in Sending /\ AssertCurrent(o)
  /\ bucket[o].pending = 0 /\ journal[o].state \in {"INTENT", "OPEN"}
  /\ journal' = [journal EXCEPT ![o].state = "ABORTED", ![o].claim = Nobody]
  /\ bucket' = [bucket EXCEPT ![o].holds = 0]
  /\ request' = [request EXCEPT ![o].pc = "release"]
  /\ UNCHANGED <<deployment, configs, routing, routeLease, recoverer, stalls>>

\* A settlement that fails, by a lost answer too, is left to recovery.
Release(o) ==
  /\ request[o].pc = "release"
  /\ Settles(o, request[o].token) \/ UNCHANGED routeLease
  /\ request' = [request EXCEPT ![o].pc = "gone", ![o].stopped = TRUE]
  /\ UNCHANGED <<deployment, configs, routing, journal, bucket, recoverer, stalls>>

\* The client gives up, a call fails, or the process is lost.
Lost(o) ==
  /\ request[o].pc \in Sending \cup {"release"}
  /\ request' = [request EXCEPT ![o].pc = "gone"]
  /\ UNCHANGED <<deployment, configs, routing, routeLease, journal, bucket, recoverer, stalls>>

----------------------------------------------------------------------------
(* Recovery.                                                               *)

MutSettleTerminal(w, o) == FALSE

\* settle_terminal_workspace_lease: the identity comes from the journal.
SettleTerminal(w, o) ==
  /\ recoverer[w].pc = "idle"
  /\ journal[o].state \in Terminal /\ Unsettled(o)
  /\ Settles(o, journal[o].token)
  /\ UNCHANGED <<deployment, configs, routing, request, journal, bucket, recoverer, stalls>>

\* claim_reconcilable_operation on a nonterminal row.
Claim(w, o) ==
  /\ recoverer[w].pc = "idle"
  /\ journal[o].state \in {"INTENT", "OPEN"} /\ journal[o].claim = Nobody
  /\ journal' = [journal EXCEPT ![o].claim = w]
  /\ recoverer' = [recoverer EXCEPT ![w] = [pc |-> "claimed", op |-> o, token |-> 0]]
  /\ UNCHANGED <<deployment, configs, routing, request, routeLease, bucket, stalls>>

Idle(w) == recoverer' = [recoverer EXCEPT ![w] = [pc |-> "idle", op |-> Nobody, token |-> 0]]

\* recover_streaming_operation_lease: only an expired lease, by exact identity;
\* the token advances and is bound into the row.
RecoverLease(w) ==
  LET o == recoverer[w].op
      t == routeLease[o].token + 1
  IN
  /\ recoverer[w].pc = "claimed"
  /\ \/ /\ routeLease[o].state = "lapsed" /\ routeLease[o].token = journal[o].token
        /\ journal[o].claim = w /\ journal[o].state \notin Terminal /\ t <= MaxToken
        /\ routeLease' = [routeLease EXCEPT ![o] = [state |-> "live", token |-> t]]
        /\ journal' = [journal EXCEPT ![o].token = t]
        /\ recoverer' = [recoverer EXCEPT ![w] = [@ EXCEPT !.pc = "leased", !.token = t]]
     \/ /\ routeLease[o].state # "lapsed" \/ journal[o].claim # w
        /\ UNCHANGED <<routeLease, journal>> /\ Idle(w)
  /\ UNCHANGED <<deployment, configs, routing, request, bucket, stalls>>

\* resolve_historical_workspace_s3 accepts S3-compatible versions only.
Reconstructs(version) == configs[version] = "s3"

ResolveHistorical(w) ==
  /\ recoverer[w].pc = "leased"
  /\ IF Reconstructs(journal[recoverer[w].op].version)
     THEN recoverer' = [recoverer EXCEPT ![w].pc = "reconcile"]
     ELSE Idle(w)
  /\ UNCHANGED <<deployment, configs, routing, request, routeLease, journal, bucket, stalls>>

\* reconcile_claimed, under a fence of its own.
Reconcile(w) ==
  LET o == recoverer[w].op IN
  /\ recoverer[w].pc = "reconcile"
  /\ \/ /\ Current(o, recoverer[w].token) /\ bucket[o].pending = 0
        /\ journal[o].state \notin Terminal
        /\ journal' = [journal EXCEPT ![o].state =
                         IF bucket[o].holds # 0 THEN "COMMITTED" ELSE "ABORTED",
                         ![o].claim = Nobody]
        /\ recoverer' = [recoverer EXCEPT ![w].pc = "release"]
     \/ /\ ~Current(o, recoverer[w].token) \/ journal[o].state \in Terminal
        /\ Idle(w) /\ UNCHANGED journal
  /\ UNCHANGED <<deployment, configs, routing, request, routeLease, bucket, stalls>>

\* WorkspaceLeasedSinkRelease.
ReleaseRecovered(w) ==
  LET o == recoverer[w].op IN
  /\ recoverer[w].pc = "release"
  /\ Settles(o, recoverer[w].token) \/ UNCHANGED routeLease
  /\ Idle(w)
  /\ UNCHANGED <<deployment, configs, routing, request, journal, bucket, stalls>>

\* A recoverer whose claim expires may still be running.
ClaimExpires(o) ==
  /\ journal[o].claim # Nobody /\ Stalls(recoverer[journal[o].claim].op = o)
  /\ journal' = [journal EXCEPT ![o].claim = Nobody]
  /\ UNCHANGED <<deployment, configs, routing, request, routeLease, bucket, recoverer>>

Recovery(w) ==
  \/ \E o \in Operations : SettleTerminal(w, o) \/ Claim(w, o)
  \/ RecoverLease(w) \/ ResolveHistorical(w) \/ Reconcile(w) \/ ReleaseRecovered(w)

RequestStep(o) ==
  \/ ResolveWithRouting(o) \/ BeginStreamingSink(o) \/ AdmitStreamingOperation(o)
  \/ Heartbeat(o) \/ SetOpen(o) \/ Mutate(o) \/ Complete(o) \/ AbortSink(o) \/ Release(o) \/ Lost(o)

RoutingNext ==
  \/ \E kind \in ConfigKinds : PutConfig(kind)
  \/ FinishTransition
  \/ \E o \in Operations : RequestStep(o) \/ Lapse(o) \/ Lands(o) \/ ClaimExpires(o)
  \/ \E w \in Recoverers : Recovery(w)

RoutingSpec == RoutingInit /\ [][RoutingNext]_routingVars

\* Every request ends, leases and claims expire, a provider call has an
\* outcome, and the periodic hook keeps being called.
RoutingFairness ==
  /\ \A o \in Operations :
       /\ WF_routingVars(Lost(o)) /\ WF_routingVars(Lands(o))
       /\ WF_routingVars(Lapse(o)) /\ WF_routingVars(ClaimExpires(o))
  /\ \A w \in Recoverers : WF_routingVars(Recovery(w))

----------------------------------------------------------------------------
(* Properties.                                                             *)

\* A provider call that can still take effect goes to the bucket of the
\* configuration the workspace is routed to: no write of an earlier
\* configuration lands after a transition, whatever was resolved before it.
CallsFollowRouting ==
  \A o \in Operations :
    bucket[o].pending # 0 => Active(request[o].binding)

\* Every route lease is settled, so that a lost operation never pins the
\* workspace's configuration.
LeasesSettle == \A o \in Operations : Unsettled(o) ~> ~Unsettled(o)

=============================================================================
