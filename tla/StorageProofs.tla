--------------------------- MODULE StorageProofs ----------------------------
(***************************************************************************)
(* Requests to storage, for any number of operations, recoverers and       *)
(* requests: a provider call never outlives the routing it was sent under, *)
(* and an effect never outlives its reservation.  Behind them, for any     *)
(* number of workers and placements: a repair never takes away a copy that *)
(* reads rely on, nor forgets one that nobody serves.                      *)
(***************************************************************************)
EXTENDS WorkspaceRouting, RequestMetering, ManagedRepair, FiniteSetTheorems, TLAPS

-----------------------------------------------------------------------------
(* Routing                                                                 *)
(*                                                                         *)
(* The argument: a call is pending only while its lease is not settled,    *)
(* and an unsettled lease pins the configuration it was admitted under.    *)
(* A lease is settled once the row is terminal; the row of a request that  *)
(* may still send is made terminal only by a recoverer with a later token, *)
(* and a token later than the request's fails its assertion.               *)

\* Shapes of the records.
Places == {"none", "managed", "presigned", "peruser", "global", "file", "memory"}
RequestType == [pc : {"start", "resolved", "refused", "elsewhere", "writing", "opened", "sent", "release", "gone"},
                header : Headers, backend : Places, binding : [version : Nat, epoch : Nat],
                token : Nat, stopped : BOOLEAN]
LeaseType == [state : {"none", "live", "lapsed", "committed", "aborted"}, token : Nat]
RowType == [state : {"none", "INTENT", "OPEN", "COMMITTED", "ABORTED"}, token : Nat, version : Nat,
            claim : Recoverers \cup {Nobody}]
BucketType == [pending : Nat, holds : Nat]
RecovererType == [pc : {"idle", "claimed", "leased", "reconcile", "release"},
                  op : Operations \cup {Nobody}, token : Nat]

ConfigTypes ==
  /\ deployment \in DeploymentType /\ configs \in Seq(ConfigKinds)
  /\ routing \in [version : Nat, epoch : Nat, stable : BOOLEAN] /\ routing.version <= Len(configs)
OperationTypes ==
  /\ request \in [Operations -> RequestType] /\ routeLease \in [Operations -> LeaseType]
  /\ journal \in [Operations -> RowType] /\ bucket \in [Operations -> BucketType]
RecovererTypes ==
  /\ recoverer \in [Recoverers -> RecovererType]
  /\ \A w \in Recoverers : recoverer[w].pc # "idle" => recoverer[w].op \in Operations

\* Before admission nothing is leased, journaled or sent.
Early(o) ==
  request[o].pc \in {"start", "resolved", "refused", "elsewhere"} =>
    routeLease[o].state = "none" /\ journal[o].state = "none"

\* Only a repository that persists routing binds, and a lease pins its binding.
Pinned(o) ==
  /\ request[o].binding # NoBinding => deployment.fenced
  /\ Unsettled(o) => deployment.fenced /\ Active(request[o].binding)
  /\ routeLease[o].state # "none" => routeLease[o].token >= 1
  /\ journal[o].state # "none" <=> routeLease[o].state # "none"

\* A pending call belongs to an open row under an unsettled lease.
Held(o) ==
  /\ bucket[o].pending # 0 => journal[o].state = "OPEN" /\ Unsettled(o) /\ bucket[o].holds = 0
  /\ request[o].pc \notin {"sent", "release", "gone"} => bucket[o].pending = 0 /\ bucket[o].holds = 0

\* A request that may still send holds the first token; a row made terminal under
\* it was taken over with a later one.
Overtaken(o) ==
  request[o].pc \in Sending =>
    /\ request[o].token = 1 /\ journal[o].state # "none"
    /\ request[o].pc # "writing" => journal[o].state # "INTENT"
    /\ journal[o].state \in Terminal => routeLease[o].token >= 2

OperationInv(o) == Early(o) /\ Pinned(o) /\ Held(o) /\ Overtaken(o)

\* A recoverer works with a later token than any request.
Later(w) == recoverer[w].pc \in {"leased", "reconcile"} => recoverer[w].token >= 2

\* The inductive invariant.
RoutingInv ==
  /\ ConfigTypes /\ OperationTypes /\ RecovererTypes
  /\ \A o \in Operations : OperationInv(o)
  /\ \A w \in Recoverers : Later(w)

-----------------------------------------------------------------------------
(* Lemmas                                                                  *)

\* The routing is as before, and other operations are left alone.
Local(o) ==
  /\ UNCHANGED <<deployment, configs, routing>>
  /\ \A p \in Operations : p # o =>
       /\ request'[p] = request[p] /\ routeLease'[p] = routeLease[p]
       /\ journal'[p] = journal[p] /\ bucket'[p] = bucket[p]

\* A step of one operation preserves the invariant if it does so there.
LEMMA LocalStep ==
  ASSUME RoutingInv, NEW o \in Operations, Local(o), OperationTypes', OperationInv(o)',
         RecovererTypes', \A w \in Recoverers : Later(w)'
  PROVE  RoutingInv'
<1>1. \A p \in Operations : p # o => OperationInv(p)'
  BY DEF RoutingInv, OperationInv, Early, Pinned, Held, Overtaken, Unsettled, Active, Local
<1>2. ConfigTypes'
  BY DEF RoutingInv, ConfigTypes, Local
<1> QED BY <1>1, <1>2 DEF RoutingInv

\* The same when the recoverers are left alone.
LEMMA RequestLocal ==
  ASSUME RoutingInv, NEW o \in Operations, Local(o), OperationTypes', OperationInv(o)',
         UNCHANGED recoverer
  PROVE  RoutingInv'
BY LocalStep DEF RoutingInv, RecovererTypes, Later

\* Where a request can be sent.
LEMMA ResolutionPlaces ==
  ASSUME ConfigTypes, NEW header
  PROVE  Resolution(header) \subseteq Places
<1>1. Fallback \subseteq Places
  BY DEF Fallback, Places
<1>2. Kind \in {"none", "s3", "role", "managed"}
  <2>1. CASE routing.version # 0
    <3>1. routing.version \in 1..Len(configs)
      BY <2>1 DEF ConfigTypes
    <3>2. configs[routing.version] \in ConfigKinds
      BY <3>1 DEF ConfigTypes
    <3> QED BY <2>1, <3>2, ConfigKindsAssumption DEF Kind
  <2> QED BY <2>1 DEF Kind
<1>3. Configured \subseteq Places
  BY <1>1, <1>2 DEF Configured, Places
<1> QED BY <1>3 DEF Resolution, Places

-----------------------------------------------------------------------------
(* Steps                                                                   *)

\* A new configuration, or the end of a transition: versions only grow.
LEMMA RoutingMoves ==
  ASSUME RoutingInv, (\E kind \in ConfigKinds : PutConfig(kind)) \/ FinishTransition
  PROVE  RoutingInv'
<1>0. UNCHANGED <<deployment, request, routeLease, journal, bucket, recoverer>>
  BY DEF PutConfig, FinishTransition
<1>1. ConfigTypes'
  <2>1. ASSUME NEW kind \in ConfigKinds, PutConfig(kind)
        PROVE  ConfigTypes'
    <3>1. configs' \in Seq(ConfigKinds) /\ Len(configs') = Len(configs) + 1
      BY <2>1 DEF PutConfig, RoutingInv, ConfigTypes
    <3>2. routing' \in [version : Nat, epoch : Nat, stable : BOOLEAN] /\ routing'.version <= routing.version + 1
      <4>1. routing' = [routing EXCEPT !.stable = FALSE] \/ routing' = [routing EXCEPT !.version = routing.version + 1]
        BY <2>1 DEF PutConfig
      <4>2. routing \in [version : Nat, epoch : Nat, stable : BOOLEAN] /\ routing.version + 1 \in Nat
        BY DEF RoutingInv, ConfigTypes
      <4>3. CASE routing' = [routing EXCEPT !.stable = FALSE]
        <5>1. routing' \in [version : Nat, epoch : Nat, stable : BOOLEAN]
          BY <4>2, <4>3
        <5>2. routing'.version = routing.version
          BY <4>2, <4>3
        <5> QED BY <4>2, <5>1, <5>2
      <4>4. CASE routing' = [routing EXCEPT !.version = routing.version + 1]
        BY <4>2, <4>4
      <4> QED BY <4>1, <4>3, <4>4
    <3> QED BY <1>0, <3>1, <3>2 DEF RoutingInv, ConfigTypes
  <2>2. CASE FinishTransition
    BY <1>0, <2>2 DEF FinishTransition, RoutingInv, ConfigTypes
  <2> QED BY <2>1, <2>2
<1>2. \A o \in Operations : ~Unsettled(o)
  BY DEF PutConfig, FinishTransition, RoutingInv, OperationInv, Pinned, Active
<1>3. \A o \in Operations : OperationInv(o)'
  BY <1>0, <1>2 DEF RoutingInv, OperationInv, Early, Pinned, Held, Overtaken, Unsettled
<1> QED BY <1>0, <1>1, <1>3 DEF RoutingInv, OperationTypes, RecovererTypes, Later

\* Resolving a backend and opening its lease pin the version read.
LEMMA ResolutionKeeps ==
  ASSUME RoutingInv, NEW o \in Operations, ResolveWithRouting(o) \/ BeginStreamingSink(o)
  PROVE  RoutingInv'
<1>0. /\ UNCHANGED <<deployment, configs, routing, routeLease, journal, bucket, recoverer>>
      /\ request \in [Operations -> RequestType] /\ request[o] \in RequestType
      /\ request[o].pc \in {"start", "resolved"}
  BY DEF ResolveWithRouting, BeginStreamingSink, RoutingInv, OperationTypes
<1>1. /\ request' \in [Operations -> RequestType] /\ \A p \in Operations : p # o => request'[p] = request[p]
      /\ request'[o].pc \in {"resolved", "refused", "elsewhere"}
      /\ request'[o].binding # NoBinding => request[o].binding # NoBinding \/ deployment.fenced
  <2>1. ASSUME NEW b \in Resolution(request[o].header),
               request' = [request EXCEPT ![o].pc = "resolved", ![o].backend = b,
                                          ![o].binding = IF b = "peruser" THEN StreamingBinding ELSE @]
        PROVE  <1>1!:
    <3>1. b \in Places
      BY ResolutionPlaces DEF RoutingInv
    <3>2. StreamingBinding \in [version : Nat, epoch : Nat] /\ (StreamingBinding # NoBinding => deployment.fenced)
      BY DEF StreamingBinding, NoBinding, RoutingInv, ConfigTypes
    <3> DEFINE c == IF b = "peruser" THEN StreamingBinding ELSE request[o].binding
    <3>3. c \in [version : Nat, epoch : Nat] /\ (c # NoBinding => request[o].binding # NoBinding \/ deployment.fenced)
      <4>1. request[o].binding \in [version : Nat, epoch : Nat]
        BY <1>0 DEF RequestType
      <4> QED BY <3>2, <4>1
    <3>4. request' = [request EXCEPT ![o].pc = "resolved", ![o].backend = b, ![o].binding = c]
      BY <2>1
    <3> HIDE DEF c
    <3>5. request'[o] = [request[o] EXCEPT !.pc = "resolved", !.backend = b, !.binding = c]
      BY <1>0, <3>4
    <3>6. request'[o] \in RequestType /\ request'[o].pc = "resolved" /\ request'[o].binding = c
      <4> DEFINE now == [request[o] EXCEPT !.pc = "resolved", !.backend = b, !.binding = c]
      <4>1. request[o] \in RequestType /\ c \in [version : Nat, epoch : Nat]
        BY <1>0, <3>3
      <4>2. now \in RequestType /\ now.pc = "resolved" /\ now.binding = c
        BY <3>1, <4>1 DEF RequestType
      <4> QED BY <3>5, <4>2
    <3>7. \A p \in Operations : p # o => request'[p] = request[p]
      BY <1>0, <3>4
    <3> QED BY <1>0, <3>3, <3>4, <3>6, <3>7
  <2>2. ASSUME NEW pc \in {"refused", "elsewhere"}, request' = [request EXCEPT ![o].pc = pc]
        PROVE  <1>1!:
    BY <1>0, <2>2 DEF RequestType
  <2> QED BY <2>1, <2>2 DEF ResolveWithRouting, BeginStreamingSink
<1>2. Local(o) /\ OperationTypes'
  BY <1>0, <1>1 DEF Local, RoutingInv, OperationTypes
<1>3. OperationInv(o)'
  BY <1>0, <1>1 DEF RoutingInv, OperationInv, Early, Pinned, Held, Overtaken, Sending, Unsettled
<1> QED BY <1>0, <1>2, <1>3, RequestLocal

\* The admission transaction.
LEMMA AdmissionKeeps ==
  ASSUME RoutingInv, NEW o \in Operations, AdmitStreamingOperation(o)
  PROVE  RoutingInv'
<1>0. /\ UNCHANGED <<deployment, configs, routing, bucket, recoverer>> /\ OperationTypes
      /\ request[o] \in RequestType /\ request[o].binding \in [version : Nat, epoch : Nat]
      /\ request[o].pc = "resolved" /\ request[o].binding # NoBinding /\ OperationInv(o)
  BY DEF AdmitStreamingOperation, RoutingInv, OperationTypes, RequestType
<1>1. CASE Admitted(o) /\ \/ request' = [request EXCEPT ![o].pc = "writing", ![o].token = 1]
                          \/ request' = [request EXCEPT ![o].pc = "gone"]
  <2>1. /\ request' \in [Operations -> RequestType] /\ \A p \in Operations : p # o => request'[p] = request[p]
        /\ request'[o].binding = request[o].binding
        /\ \/ request'[o].pc = "writing" /\ request'[o].token = 1
           \/ request'[o].pc = "gone"
    BY <1>0, <1>1 DEF OperationTypes, RequestType
  <2>2. /\ routeLease' \in [Operations -> LeaseType] /\ \A p \in Operations : p # o => routeLease'[p] = routeLease[p]
        /\ routeLease'[o].state = "live" /\ routeLease'[o].token = 1
    BY <1>0, <1>1 DEF OperationTypes, Admitted, LeaseType
  <2>3. /\ journal' \in [Operations -> RowType] /\ \A p \in Operations : p # o => journal'[p] = journal[p]
        /\ journal'[o].state = "INTENT"
    BY <1>0, <1>1 DEF OperationTypes, Admitted, RowType
  <2>4. Local(o) /\ OperationTypes'
    BY <1>0, <2>1, <2>2, <2>3 DEF Local, OperationTypes
  <2>5. Active(request[o].binding)'
    <3>1. routing = [version |-> request[o].binding.version, epoch |-> request[o].binding.epoch, stable |-> TRUE]
      BY <1>1 DEF Admitted, Active
    <3>2. routing' = [version |-> request'[o].binding.version, epoch |-> request'[o].binding.epoch, stable |-> TRUE]
      BY <1>0, <2>1, <3>1
    <3> QED BY <3>2 DEF Active
  <2>6. OperationInv(o)'
    <3>1. Early(o)' /\ Overtaken(o)'
      BY <2>1, <2>2, <2>3 DEF Early, Overtaken, Sending, Terminal
    <3>2. Pinned(o)'
      BY <1>0, <2>1, <2>2, <2>3, <2>5 DEF OperationInv, Pinned
    <3>3. Held(o)'
      BY <1>0, <2>1, <2>3 DEF OperationInv, Held
    <3> QED BY <3>1, <3>2, <3>3 DEF OperationInv
  <2> QED BY <1>0, <2>4, <2>6, RequestLocal
<1>2. CASE request' = [request EXCEPT ![o].pc = "refused"] /\ UNCHANGED <<routeLease, journal>>
  <2>1. /\ request' \in [Operations -> RequestType] /\ \A p \in Operations : p # o => request'[p] = request[p]
        /\ request'[o].binding = request[o].binding /\ request'[o].pc = "refused"
    BY <1>0, <1>2 DEF OperationTypes, RequestType
  <2>2. Local(o) /\ OperationTypes'
    BY <1>0, <1>2, <2>1 DEF Local, OperationTypes
  <2>3. OperationInv(o)'
    BY <1>0, <1>2, <2>1 DEF OperationInv, Early, Pinned, Held, Overtaken, Sending, Unsettled, Active
  <2> QED BY <1>0, <2>2, <2>3, RequestLocal
<1> QED BY <1>1, <1>2 DEF AdmitStreamingOperation

\* A request under its lease moves, keeping binding and token.
Advances(o, pc) ==
  /\ request' \in [Operations -> RequestType] /\ \A p \in Operations : p # o => request'[p] = request[p]
  /\ request'[o].binding = request[o].binding /\ request'[o].token = request[o].token
  /\ request'[o].pc = pc

\* Steps of a request that leave row and bucket alone.
LEMMA FenceKeeps ==
  ASSUME RoutingInv, NEW o \in Operations, Heartbeat(o) \/ Lost(o) \/ Lapse(o) \/ Release(o)
  PROVE  RoutingInv'
<1>0. /\ UNCHANGED <<deployment, configs, routing, journal, bucket, recoverer>> /\ OperationTypes
      /\ request \in [Operations -> RequestType] /\ request[o] \in RequestType
      /\ routeLease \in [Operations -> LeaseType] /\ routeLease[o] \in LeaseType /\ OperationInv(o)
  BY DEF Heartbeat, Lost, Lapse, Release, RoutingInv, OperationTypes
<1>1. Advances(o, request[o].pc) \/ (Advances(o, "gone") /\ request[o].pc \in Sending \cup {"release"})
  <2>1. CASE Heartbeat(o)
    BY <1>0, <2>1 DEF Heartbeat, Advances, RequestType
  <2>2. CASE Lost(o)
    BY <1>0, <2>2 DEF Lost, Advances, RequestType
  <2>3. CASE Lapse(o)
    BY <1>0, <2>3 DEF Lapse, Advances
  <2>4. CASE Release(o)
    BY <1>0, <2>4 DEF Release, Advances, RequestType
  <2> QED BY <2>1, <2>2, <2>3, <2>4
<1>2. /\ routeLease' \in [Operations -> LeaseType] /\ \A p \in Operations : p # o => routeLease'[p] = routeLease[p]
      /\ routeLease'[o].token = routeLease[o].token
      /\ \/ routeLease'[o].state = routeLease[o].state
         \/ routeLease[o].state = "live" /\ routeLease'[o].state = "lapsed"
         \/ journal[o].state \in Terminal /\ routeLease'[o].state \in {"committed", "aborted"}
  BY <1>0 DEF Heartbeat, Lost, Lapse, Release, Settles, LeaseType
<1>3. Local(o) /\ OperationTypes'
  BY <1>0, <1>1, <1>2 DEF Local, OperationTypes, Advances
<1>4. OperationInv(o)'
  <2>0. /\ request'[o].binding = request[o].binding /\ request'[o].token = request[o].token
        /\ \/ request'[o].pc = request[o].pc
           \/ request'[o].pc = "gone" /\ request[o].pc \in {"writing", "opened", "sent", "release"}
    BY <1>1 DEF Advances, Sending
  <2>1. Early(o)' /\ Overtaken(o)'
    <3>1. Early(o)'
      BY <1>0, <1>2, <2>0 DEF OperationInv, Early, Terminal
    <3>2. Overtaken(o)'
      BY <1>0, <1>2, <2>0 DEF OperationInv, Overtaken, Sending
    <3> QED BY <3>1, <3>2
  <2>2. Pinned(o)'
    BY <1>0, <1>2, <2>0 DEF OperationInv, Early, Pinned, Unsettled, Active, Terminal
  <2>3. Held(o)'
    BY <1>0, <1>2, <2>0 DEF OperationInv, Held, Unsettled, Terminal
  <2> QED BY <2>1, <2>2, <2>3 DEF OperationInv
<1> QED BY <1>0, <1>3, <1>4, RequestLocal

\* The sink opens its row, sends, completes and aborts.
LEMMA SinkKeeps ==
  ASSUME RoutingInv, NEW o \in Operations, SetOpen(o) \/ Mutate(o) \/ Complete(o) \/ AbortSink(o)
  PROVE  RoutingInv'
<1>0. /\ UNCHANGED <<deployment, configs, routing, routeLease, recoverer>> /\ OperationTypes
      /\ request \in [Operations -> RequestType] /\ request[o] \in RequestType
      /\ journal \in [Operations -> RowType] /\ journal[o] \in RowType
      /\ bucket \in [Operations -> BucketType] /\ bucket[o] \in BucketType
      /\ routeLease[o] \in LeaseType /\ OperationInv(o)
      /\ request[o].binding.version \in Nat
  BY DEF SetOpen, Mutate, Complete, AbortSink, RoutingInv, OperationTypes, RequestType
<1>1. CASE SetOpen(o)
  <2>1. Advances(o, "opened") /\ request[o].pc = "writing" /\ UNCHANGED bucket
    BY <1>0, <1>1 DEF SetOpen, Advances, RequestType
  <2>2. /\ journal' \in [Operations -> RowType] /\ \A p \in Operations : p # o => journal'[p] = journal[p]
        /\ journal'[o].state = "OPEN"
    BY <1>0, <1>1 DEF SetOpen, RowType
  <2>3. Local(o) /\ OperationTypes'
    BY <1>0, <2>1, <2>2 DEF Local, OperationTypes, Advances
  <2>4. OperationInv(o)'
    BY <1>0, <2>1, <2>2
       DEF OperationInv, Early, Pinned, Held, Overtaken, Sending, Unsettled, Terminal, Active, Advances
  <2> QED BY <1>0, <2>3, <2>4, RequestLocal
<1>2. CASE Mutate(o)
  <2>1. Advances(o, "sent") /\ request[o].pc = "opened" /\ UNCHANGED journal
    BY <1>0, <1>2 DEF Mutate, Advances, RequestType
  <2>2. /\ bucket' \in [Operations -> BucketType] /\ \A p \in Operations : p # o => bucket'[p] = bucket[p]
        /\ bucket'[o].holds = bucket[o].holds
    BY <1>0, <1>2 DEF Mutate, BucketType
  <2>3. routeLease[o].state = "live" /\ routeLease[o].token = request[o].token
    BY <1>2 DEF Mutate, AssertCurrent, Current
  <2>4. journal[o].state = "OPEN" /\ bucket[o].holds = 0
    BY <1>0, <2>1, <2>3 DEF OperationInv, Overtaken, Held, Sending, Terminal, RowType
  <2>5. Local(o) /\ OperationTypes'
    BY <1>0, <2>1, <2>2 DEF Local, OperationTypes, Advances
  <2>6. OperationInv(o)'
    BY <1>0, <2>1, <2>2, <2>3, <2>4
       DEF OperationInv, Early, Pinned, Held, Overtaken, Sending, Unsettled, Terminal, Active, Advances
  <2> QED BY <1>0, <2>5, <2>6, RequestLocal
<1>3. CASE Complete(o) \/ AbortSink(o)
  <2>1. Advances(o, "release") /\ request[o].pc \in Sending
    <3>1. request' = [request EXCEPT ![o].pc = "release"] /\ request[o].pc \in Sending
      BY <1>3 DEF Complete, AbortSink, Sending
    <3> QED BY <1>0, <3>1 DEF Advances, RequestType
  <2>2. /\ journal' \in [Operations -> RowType] /\ \A p \in Operations : p # o => journal'[p] = journal[p]
        /\ journal'[o].state \in Terminal
    BY <1>0, <1>3 DEF Complete, AbortSink, RowType, Terminal
  <2>3. bucket[o].pending = 0
    BY <1>0, <1>3 DEF Complete, AbortSink, OperationInv, Held
  <2>4. /\ bucket' \in [Operations -> BucketType] /\ \A p \in Operations : p # o => bucket'[p] = bucket[p]
        /\ bucket'[o].pending = 0
    BY <1>0, <1>3, <2>3 DEF Complete, AbortSink, BucketType
  <2>5. Local(o) /\ OperationTypes'
    BY <1>0, <2>1, <2>2, <2>4 DEF Local, OperationTypes, Advances
  <2>6. OperationInv(o)'
    BY <1>0, <2>1, <2>2, <2>4
       DEF OperationInv, Early, Pinned, Held, Overtaken, Sending, Unsettled, Terminal, Active, Advances
  <2> QED BY <1>0, <2>5, <2>6, RequestLocal
<1> QED BY <1>1, <1>2, <1>3

\* A pending call ends, a claim expires.
LEMMA OutcomeKeeps ==
  ASSUME RoutingInv, NEW o \in Operations, Lands(o) \/ ClaimExpires(o)
  PROVE  RoutingInv'
<1>0. /\ UNCHANGED <<deployment, configs, routing, request, routeLease, recoverer>> /\ OperationTypes
      /\ journal \in [Operations -> RowType] /\ journal[o] \in RowType
      /\ bucket \in [Operations -> BucketType] /\ bucket[o] \in BucketType /\ OperationInv(o)
  BY DEF Lands, ClaimExpires, RoutingInv, OperationTypes
<1>1. /\ journal' \in [Operations -> RowType] /\ \A p \in Operations : p # o => journal'[p] = journal[p]
      /\ journal'[o].state = journal[o].state
  BY <1>0 DEF Lands, ClaimExpires, RowType
<1>2. /\ bucket' \in [Operations -> BucketType] /\ \A p \in Operations : p # o => bucket'[p] = bucket[p]
      /\ bucket'[o] = bucket[o] \/ (bucket[o].pending # 0 /\ bucket'[o].pending = 0)
  BY <1>0 DEF Lands, ClaimExpires, BucketType
<1>3. Local(o) /\ OperationTypes'
  BY <1>0, <1>1, <1>2 DEF Local, OperationTypes
<1>4. OperationInv(o)'
  BY <1>0, <1>1, <1>2 DEF OperationInv, Early, Pinned, Held, Overtaken, Unsettled, Active
<1> QED BY <1>0, <1>3, <1>4, RequestLocal

\* Recovery changes lease and row of one operation, never request or bucket.
LEMMA RecoveryKeeps ==
  ASSUME RoutingInv, NEW w \in Recoverers, Recovery(w)
  PROVE  RoutingInv'
<1>0. /\ UNCHANGED <<deployment, configs, routing, request, bucket>> /\ OperationTypes /\ RecovererTypes
      /\ recoverer \in [Recoverers -> RecovererType] /\ recoverer[w] \in RecovererType
  BY DEF Recovery, SettleTerminal, Claim, RecoverLease, ResolveHistorical, Reconcile, ReleaseRecovered,
         RoutingInv, RecovererTypes
<1>a. ASSUME NEW o \in Operations,
             /\ routeLease' \in [Operations -> LeaseType]
             /\ \A p \in Operations : p # o => routeLease'[p] = routeLease[p]
             /\ journal' \in [Operations -> RowType]
             /\ \A p \in Operations : p # o => journal'[p] = journal[p],
             /\ Unsettled(o)' => Unsettled(o)
             /\ Unsettled(o) => Unsettled(o)' \/ journal[o].state \in Terminal
             /\ routeLease'[o].state = "none" <=> routeLease[o].state = "none"
             /\ routeLease'[o].token >= routeLease[o].token,
             \/ journal'[o].state = journal[o].state
             \/ /\ journal[o].state \in {"INTENT", "OPEN"} /\ journal'[o].state \in Terminal
                /\ bucket[o].pending = 0 /\ routeLease[o].token >= 2,
             RecovererTypes', Later(w)', \A v \in Recoverers : v # w => recoverer'[v] = recoverer[v]
      PROVE  RoutingInv'
  <2>1. Local(o) /\ OperationTypes'
    BY <1>0, <1>a DEF Local, OperationTypes
  <2>2. OperationInv(o) /\ routeLease[o].token \in Nat /\ routeLease'[o].token \in Nat
    BY <1>0, <1>a DEF RoutingInv, OperationTypes, LeaseType
  <2>3. Early(o)'
    BY <1>0, <1>a, <2>2 DEF OperationInv, Early
  <2>4. Pinned(o)'
    BY <1>0, <1>a, <2>2 DEF OperationInv, Pinned, Unsettled, Active, Terminal
  <2>5. Held(o)'
    BY <1>0, <1>a, <2>2 DEF OperationInv, Held, Terminal
  <2>6. Overtaken(o)'
    BY <1>0, <1>a, <2>2 DEF OperationInv, Overtaken, Terminal
  <2>7. \A v \in Recoverers : Later(v)'
    BY <1>a DEF RoutingInv, Later
  <2> QED BY <1>a, <2>1, <2>3, <2>4, <2>5, <2>6, <2>7, LocalStep DEF OperationInv
<1>b. ASSUME Idle(w)
      PROVE  RecovererTypes' /\ Later(w)' /\ \A v \in Recoverers : v # w => recoverer'[v] = recoverer[v]
  BY <1>0, <1>b DEF Idle, RecovererTypes, RecovererType, Later
<1>c. ASSUME NEW o \in Operations, Settles(o, routeLease[o].token)
      PROVE  /\ routeLease' \in [Operations -> LeaseType]
             /\ \A p \in Operations : p # o => routeLease'[p] = routeLease[p]
             /\ ~Unsettled(o)' /\ journal[o].state \in Terminal
             /\ routeLease'[o].state # "none" /\ routeLease[o].state # "none"
             /\ routeLease'[o].token = routeLease[o].token
  <2>1. /\ journal[o].state \in Terminal /\ routeLease[o] \in LeaseType
        /\ \E st \in {"committed", "aborted"} : routeLease' = [routeLease EXCEPT ![o].state = st]
    BY <1>0, <1>c DEF Settles, OperationTypes
  <2>2. PICK st \in {"committed", "aborted"} : routeLease' = [routeLease EXCEPT ![o].state = st]
    BY <2>1
  <2>3. /\ routeLease' \in [Operations -> LeaseType] /\ routeLease'[o].state = st
        /\ \A p \in Operations : p # o => routeLease'[p] = routeLease[p]
        /\ routeLease'[o].token = routeLease[o].token
    BY <1>0, <2>1, <2>2 DEF OperationTypes, LeaseType
  <2>4. routeLease[o].state # "none"
    BY <2>1 DEF RoutingInv, OperationInv, Pinned, Terminal
  <2> QED BY <2>1, <2>2, <2>3, <2>4 DEF Unsettled
<1>d. \A o \in Operations : routeLease[o] \in LeaseType /\ routeLease[o].token \in Nat /\ journal[o] \in RowType
  BY <1>0 DEF OperationTypes, LeaseType
<1>1. ASSUME NEW o \in Operations, SettleTerminal(w, o)
      PROVE  RoutingInv'
  <2>1. Settles(o, routeLease[o].token) /\ UNCHANGED <<journal, recoverer>>
    BY <1>1 DEF SettleTerminal, Settles
  <2>2. RecovererTypes' /\ Later(w)' /\ \A v \in Recoverers : v # w => recoverer'[v] = recoverer[v]
    BY <1>0, <2>1 DEF RoutingInv, RecovererTypes, Later
  <2> QED BY <1>0, <1>a, <1>c, <1>d, <2>1, <2>2 DEF OperationTypes
<1>2. ASSUME NEW o \in Operations, Claim(w, o)
      PROVE  RoutingInv'
  <2>1. /\ UNCHANGED routeLease /\ journal' = [journal EXCEPT ![o].claim = w]
        /\ recoverer' = [recoverer EXCEPT ![w] = [pc |-> "claimed", op |-> o, token |-> 0]]
    BY <1>2 DEF Claim
  <2>2. /\ journal' \in [Operations -> RowType] /\ \A p \in Operations : p # o => journal'[p] = journal[p]
        /\ journal'[o].state = journal[o].state
    BY <1>0, <1>d, <2>1 DEF OperationTypes, RowType
  <2>3. RecovererTypes' /\ Later(w)' /\ \A v \in Recoverers : v # w => recoverer'[v] = recoverer[v]
    BY <1>0, <2>1 DEF RecovererTypes, RecovererType, Later
  <2>4. Unsettled(o)' <=> Unsettled(o)
    BY <2>1 DEF Unsettled
  <2> QED BY <1>0, <1>a, <1>d, <2>1, <2>2, <2>3, <2>4 DEF OperationTypes
<1>3. ASSUME RecoverLease(w)
      PROVE  RoutingInv'
  <2>0. recoverer[w].op \in Operations
    BY <1>0, <1>3 DEF RecoverLease, RecovererTypes
  <2>o. PICK o \in Operations : o = recoverer[w].op
    BY <2>0
  <2>t. PICK t \in Nat : t = routeLease[o].token + 1
    BY <1>d
  <2>1. CASE /\ routeLease[o].state = "lapsed"
             /\ routeLease' = [routeLease EXCEPT ![o] = [state |-> "live", token |-> t]]
             /\ journal' = [journal EXCEPT ![o].token = t]
             /\ recoverer' = [recoverer EXCEPT ![w] = [@ EXCEPT !.pc = "leased", !.token = t]]
    <3>1. t \in Nat /\ t >= 2 /\ routeLease[o].token \in Nat /\ t = routeLease[o].token + 1
      BY <1>d, <2>t, <2>1 DEF RoutingInv, OperationInv, Pinned
    <3>2. /\ routeLease' \in [Operations -> LeaseType] /\ \A p \in Operations : p # o => routeLease'[p] = routeLease[p]
          /\ routeLease'[o].state = "live" /\ routeLease'[o].token = t
      BY <1>0, <2>0, <2>1, <3>1 DEF OperationTypes, LeaseType
    <3>3. /\ journal' \in [Operations -> RowType] /\ \A p \in Operations : p # o => journal'[p] = journal[p]
          /\ journal'[o].state = journal[o].state
      BY <1>0, <1>d, <2>0, <2>1, <3>1 DEF OperationTypes, RowType
    <3>4. /\ recoverer' \in [Recoverers -> RecovererType] /\ \A v \in Recoverers : v # w => recoverer'[v] = recoverer[v]
          /\ recoverer'[w].token = t /\ recoverer'[w].op \in Operations
      BY <1>0, <2>o, <2>1, <3>1 DEF RecovererType
    <3>5. RecovererTypes' /\ Later(w)'
      BY <1>0, <3>1, <3>4 DEF RecovererTypes, Later
    <3>6. Unsettled(o)' /\ Unsettled(o) /\ routeLease'[o].token >= routeLease[o].token
      BY <2>1, <3>1, <3>2 DEF Unsettled
    <3> QED BY <1>a, <2>0, <2>1, <3>2, <3>3, <3>4, <3>5, <3>6
  <2>2. CASE UNCHANGED <<routeLease, journal>> /\ Idle(w)
    <3>1. Unsettled(o)' <=> Unsettled(o)
      BY <2>2 DEF Unsettled
    <3> QED BY <1>0, <1>a, <1>b, <1>d, <2>0, <2>2, <3>1 DEF OperationTypes
  <2> QED BY <1>3, <2>o, <2>t, <2>1, <2>2 DEF RecoverLease
<1>4. ASSUME ResolveHistorical(w)
      PROVE  RoutingInv'
  <2>0. recoverer[w].op \in Operations /\ UNCHANGED <<routeLease, journal>> /\ recoverer[w].pc = "leased"
    BY <1>0, <1>4 DEF ResolveHistorical, RecovererTypes
  <2>1. RecovererTypes' /\ Later(w)' /\ \A v \in Recoverers : v # w => recoverer'[v] = recoverer[v]
    <3>1. CASE recoverer' = [recoverer EXCEPT ![w].pc = "reconcile"]
      <4>1. /\ recoverer' \in [Recoverers -> RecovererType] /\ \A v \in Recoverers : v # w => recoverer'[v] = recoverer[v]
            /\ recoverer'[w].op = recoverer[w].op /\ recoverer'[w].token = recoverer[w].token
        BY <1>0, <3>1 DEF RecovererType
      <4> QED BY <1>0, <2>0, <4>1 DEF RoutingInv, RecovererTypes, Later
    <3> QED BY <1>4, <1>b, <3>1 DEF ResolveHistorical
  <2>2. PICK o \in Operations : o = recoverer[w].op
    BY <2>0
  <2>3. Unsettled(o)' <=> Unsettled(o)
    BY <2>0 DEF Unsettled
  <2> QED BY <1>0, <1>a, <1>d, <2>0, <2>1, <2>3 DEF OperationTypes
<1>5. ASSUME Reconcile(w)
      PROVE  RoutingInv'
  <2>0. recoverer[w].op \in Operations /\ UNCHANGED routeLease /\ recoverer[w].pc = "reconcile"
    BY <1>0, <1>5 DEF Reconcile, RecovererTypes
  <2>1. PICK o \in Operations : o = recoverer[w].op
    BY <2>0
  <2>2. Unsettled(o)' <=> Unsettled(o)
    BY <2>0 DEF Unsettled
  <2>3. CASE Idle(w) /\ UNCHANGED journal
    BY <1>0, <1>a, <1>b, <1>d, <2>0, <2>2, <2>3 DEF OperationTypes
  <2>4. CASE ~(Idle(w) /\ UNCHANGED journal)
    <3>1. /\ Current(o, recoverer[w].token) /\ bucket[o].pending = 0 /\ journal[o].state \notin Terminal
          /\ recoverer' = [recoverer EXCEPT ![w].pc = "release"]
          /\ \E st \in Terminal : journal' = [journal EXCEPT ![o].state = st, ![o].claim = Nobody]
      BY <1>5, <2>1, <2>4 DEF Reconcile, Terminal
    <3>2. PICK st \in Terminal : journal' = [journal EXCEPT ![o].state = st, ![o].claim = Nobody]
      BY <3>1
    <3>3. /\ journal' \in [Operations -> RowType] /\ \A p \in Operations : p # o => journal'[p] = journal[p]
          /\ journal'[o].state = st
      <4> DEFINE now == [journal[o] EXCEPT !.state = st, !.claim = Nobody]
      <4>1. journal \in [Operations -> RowType] /\ journal[o] \in RowType
        BY <1>0 DEF OperationTypes
      <4>2. now \in RowType /\ now.state = st
        BY <3>2, <4>1 DEF RowType, Terminal
      <4>3. journal' = [journal EXCEPT ![o] = now]
        BY <3>2, <4>1
      <4> HIDE DEF now
      <4> QED BY <4>1, <4>2, <4>3
    <3>4. routeLease[o].token >= 2 /\ routeLease[o].state = "live"
      <4>1. routeLease[o].token = recoverer[w].token /\ routeLease[o].state = "live"
        BY <3>1 DEF Current
      <4> QED BY <2>0, <4>1 DEF RoutingInv, Later
    <3>5. journal[o].state \in {"INTENT", "OPEN"}
      BY <1>d, <3>1, <3>4 DEF RowType, Terminal, RoutingInv, OperationInv, Pinned
    <3>6. RecovererTypes' /\ Later(w)' /\ \A v \in Recoverers : v # w => recoverer'[v] = recoverer[v]
      <4>1. /\ recoverer' \in [Recoverers -> RecovererType] /\ \A v \in Recoverers : v # w => recoverer'[v] = recoverer[v]
            /\ recoverer'[w].op = recoverer[w].op /\ recoverer'[w].pc = "release"
        BY <1>0, <3>1 DEF RecovererType
      <4> QED BY <1>0, <2>0, <4>1 DEF RecovererTypes, Later
    <3> QED BY <1>0, <1>a, <1>d, <2>0, <2>2, <3>1, <3>3, <3>4, <3>5, <3>6 DEF OperationTypes
  <2> QED BY <2>3, <2>4
<1>6. ASSUME ReleaseRecovered(w)
      PROVE  RoutingInv'
  <2>0. recoverer[w].op \in Operations /\ UNCHANGED journal /\ Idle(w)
    BY <1>0, <1>6 DEF ReleaseRecovered, RecovererTypes
  <2>1. PICK o \in Operations : o = recoverer[w].op
    BY <2>0
  <2>2. CASE Settles(o, recoverer[w].token)
    <3>1. Settles(o, routeLease[o].token)
      BY <2>2 DEF Settles
    <3> QED BY <1>0, <1>a, <1>b, <1>c, <1>d, <2>0, <3>1 DEF OperationTypes
  <2>3. CASE UNCHANGED routeLease
    <3>1. Unsettled(o)' <=> Unsettled(o)
      BY <2>3 DEF Unsettled
    <3> QED BY <1>0, <1>a, <1>b, <1>d, <2>0, <2>3, <3>1 DEF OperationTypes
  <2> QED BY <1>6, <2>1, <2>2, <2>3 DEF ReleaseRecovered
<1> QED BY <1>1, <1>2, <1>3, <1>4, <1>5, <1>6 DEF Recovery

\* The invariant, initially and across every step.
LEMMA RoutingStarts == RoutingInit => RoutingInv
<1> SUFFICES ASSUME RoutingInit
             PROVE  RoutingInv
  OBVIOUS
<1>1. ConfigTypes
  BY DeploymentsAssumption DEF RoutingInit, ConfigTypes
<1>2. /\ request \in [Operations -> RequestType]
      /\ \A o \in Operations : request[o].pc = "start" /\ request[o].binding = NoBinding
  <2>1. request \in [Operations -> [pc : {"start"}, header : Headers, backend : {"none"},
                                    binding : {NoBinding}, token : {0}, stopped : {FALSE}]]
    BY DEF RoutingInit
  <2>2. NoBinding \in [version : Nat, epoch : Nat]
    BY DEF NoBinding
  <2>3. ASSUME NEW o \in Operations
        PROVE  request[o] \in RequestType /\ request[o].pc = "start" /\ request[o].binding = NoBinding
    <3>1. request[o] \in [pc : {"start"}, header : Headers, backend : {"none"},
                          binding : {NoBinding}, token : {0}, stopped : {FALSE}]
      BY <2>1
    <3>2. /\ request[o].header \in Headers
          /\ request[o] = [pc |-> "start", header |-> request[o].header, backend |-> "none",
                           binding |-> NoBinding, token |-> 0, stopped |-> FALSE]
      BY <3>1
    <3>3. /\ request[o].pc = "start" /\ request[o].backend \in Places /\ request[o].binding = NoBinding
          /\ request[o].token \in Nat /\ request[o].stopped \in BOOLEAN
      <4>1. request[o].pc = "start" /\ request[o].backend = "none"
        BY <3>1
      <4>2. request[o].binding = NoBinding
        BY <3>1
      <4>3. request[o].token = 0
        BY <3>1
      <4>4. request[o].stopped \in {FALSE}
        BY <3>1
      <4>5. request[o].stopped \in BOOLEAN
        BY <4>4, Zenon
      <4> QED BY <4>1, <4>2, <4>3, <4>5 DEF Places
    <3> QED BY <2>2, <3>2, <3>3 DEF RequestType
  <2> QED BY <2>1, <2>3
<1>3. routeLease \in [Operations -> LeaseType] /\ \A o \in Operations : routeLease[o].state = "none"
  BY DEF RoutingInit, LeaseType
<1>4. journal \in [Operations -> RowType] /\ \A o \in Operations : journal[o].state = "none"
  BY DEF RoutingInit, RowType
<1>5. bucket \in [Operations -> BucketType] /\ \A o \in Operations : bucket[o].pending = 0 /\ bucket[o].holds = 0
  BY DEF RoutingInit, BucketType
<1>6. recoverer \in [Recoverers -> RecovererType] /\ \A w \in Recoverers : recoverer[w].pc = "idle"
  BY DEF RoutingInit, RecovererType
<1> QED BY <1>1, <1>2, <1>3, <1>4, <1>5, <1>6
        DEF RoutingInv, OperationTypes, RecovererTypes, OperationInv, Early, Pinned, Held, Overtaken, Sending,
            Unsettled, Later

\* Every step keeps leases, rows and routing together.
LEMMA RoutingStep == RoutingInv /\ [RoutingNext]_routingVars => RoutingInv'
<1> SUFFICES ASSUME RoutingInv, [RoutingNext]_routingVars
             PROVE  RoutingInv'
  OBVIOUS
<1>1. ASSUME NEW o \in Operations, RequestStep(o) \/ Lapse(o) \/ Lands(o) \/ ClaimExpires(o)
      PROVE  RoutingInv'
  BY <1>1, ResolutionKeeps, AdmissionKeeps, FenceKeeps, SinkKeeps, OutcomeKeeps DEF RequestStep
<1>2. CASE UNCHANGED routingVars
  BY <1>2 DEF routingVars, RoutingInv, ConfigTypes, OperationTypes, RecovererTypes, OperationInv, Early, Pinned,
              Held, Overtaken, Unsettled, Active, Later
<1> QED BY <1>1, <1>2, RoutingMoves, RecoveryKeeps DEF RoutingNext

\* A request holds the first token of its lease, a recoverer a later one, and an
\* unsettled lease pins the routing its operation was admitted under.
THEOREM LeasesPinRouting == RoutingSpec => []RoutingInv
BY RoutingStarts, RoutingStep, PTL DEF RoutingSpec

\* A provider call that can still take effect goes to the bucket of the configuration
\* the workspace is routed to, for every number of operations, recoverers,
\* configuration versions, fencing tokens and stalls.
THEOREM CallsStayRouted == RoutingSpec => []CallsFollowRouting
<1>1. RoutingInv => CallsFollowRouting
  BY DEF RoutingInv, OperationInv, Held, Pinned, CallsFollowRouting
<1> QED BY <1>1, LeasesPinRouting, PTL

-----------------------------------------------------------------------------
(* The reservations of requests                                            *)
(*                                                                         *)
(* The argument: a handler hands its reservation back from one place, at   *)
(* the end of a path on which the operation has had no effect, or one the  *)
(* journal proved aborted, and does nothing afterwards.                    *)

HandlerSteps == {"start", "gate", "run", "record", "release", "settle", "body", "again", "acquired",
                 "publish", "answered"}
HandlerType == [kind : Kinds, op : Requests, pc : HandlerSteps]
Effects == {"none", "unknown", "done", "aborted"}
Grants == {"none", "held", "released"}
BodyType == [first : BOOLEAN, settling : Nat, disclosed : BOOLEAN, owned : BOOLEAN]

MeteringTypes ==
  /\ handler \in [Requests -> HandlerType] /\ effect \in [Requests -> Effects]
  /\ reservation \in [Requests -> Grants] /\ body \in [Requests -> BodyType]

\* Steps before the operation can have an effect, and effects that are not billable.
Untouched == {"start", "gate", "run", "acquired", "publish"}
Free == {"none", "aborted"}

\* What a handler at step pc says of the effect e and the reservation v of its operation,
\* given whether its body went out.
Consistent(pc, e, v, disclosed) ==
  /\ pc \in Untouched => e = "none"
  /\ pc = "body" => disclosed \/ e = "none"
  /\ pc = "release" => e \in Free
  /\ v = "released" => pc = "answered" /\ e \in Free

Owning(r) ==
  Op(r) = r /\ Consistent(Pc(r), effect[r], reservation[r], body[r].disclosed)

\* The inductive invariant.
MeteringInv == MeteringTypes /\ \A r \in Requests : Owning(r)

\* One request moves, with its own effect, reservation and body.
LEMMA RequestMoves ==
    ASSUME MeteringInv, NEW r \in Requests, NEW pc \in HandlerSteps, NEW e \in Effects, NEW v \in Grants,
           NEW b \in BodyType,
           Goto(r, pc), effect' = [effect EXCEPT ![r] = e],
           reservation' = [reservation EXCEPT ![r] = v], body' = [body EXCEPT ![r] = b],
           Consistent(pc, e, v, b.disclosed)
    PROVE  MeteringInv'
<1>1. /\ handler \in [Requests -> HandlerType] /\ effect \in [Requests -> Effects]
      /\ reservation \in [Requests -> Grants] /\ body \in [Requests -> BodyType]
  BY DEF MeteringInv, MeteringTypes
<1> DEFINE now == [handler[r] EXCEPT !.pc = pc]
<1>2. now \in HandlerType /\ now.pc = pc /\ now.op = handler[r].op
  BY <1>1 DEF HandlerType
<1>3. handler' = [handler EXCEPT ![r] = now]
  BY <1>1 DEF Goto
<1> HIDE DEF now
<1>4. handler' \in [Requests -> HandlerType] /\ handler'[r] = now /\ \A x \in Requests : x # r => handler'[x] = handler[x]
  BY <1>1, <1>2, <1>3
<1>5. /\ effect' \in [Requests -> Effects] /\ effect'[r] = e /\ \A x \in Requests : x # r => effect'[x] = effect[x]
      /\ reservation' \in [Requests -> Grants] /\ reservation'[r] = v
      /\ \A x \in Requests : x # r => reservation'[x] = reservation[x]
      /\ body' \in [Requests -> BodyType] /\ body'[r] = b /\ \A x \in Requests : x # r => body'[x] = body[x]
  BY <1>1
<1>6. MeteringTypes'
  BY <1>4, <1>5 DEF MeteringTypes
<1>7. Owning(r)'
  BY <1>2, <1>4, <1>5 DEF Owning, Op, Pc, MeteringInv
<1>8. ASSUME NEW x \in Requests, x # r PROVE Owning(x)'
  BY <1>4, <1>5, <1>8 DEF Owning, Op, Pc, MeteringInv
<1> QED BY <1>6, <1>7, <1>8 DEF MeteringInv

\* The parts of the state a request owns.
LEMMA RequestParts ==
    ASSUME MeteringInv, NEW r \in Requests
    PROVE  /\ Op(r) = r /\ Pc(r) \in HandlerSteps /\ effect[r] \in Effects /\ reservation[r] \in Grants
           /\ body[r] \in BodyType /\ Consistent(Pc(r), effect[r], reservation[r], body[r].disclosed)
           /\ effect = [effect EXCEPT ![r] = effect[r]]
           /\ reservation = [reservation EXCEPT ![r] = reservation[r]]
           /\ body = [body EXCEPT ![r] = body[r]]
           /\ handler = [handler EXCEPT ![r].pc = Pc(r)]
<1>1. MeteringTypes /\ Owning(r)
  BY DEF MeteringInv
<1>2. handler[r] \in HandlerType /\ handler[r] = [handler[r] EXCEPT !.pc = handler[r].pc]
  BY <1>1 DEF MeteringTypes, HandlerType
<1>3. handler = [handler EXCEPT ![r].pc = Pc(r)]
  BY <1>1, <1>2 DEF MeteringTypes, Pc
<1> QED BY <1>1, <1>2, <1>3 DEF Owning, MeteringTypes, Pc, HandlerType

\* A handler moves on, and effect, reservation and body stay.
LEMMA OnlyMoves ==
    ASSUME MeteringInv, NEW r \in Requests, NEW pc \in HandlerSteps,
           Goto(r, pc), UNCHANGED <<effect, reservation, body>>, Pc(r) # "answered",
           pc \in {"answered", "record", "settle", "again"} \/ (Pc(r) \in Untouched /\ pc # "body")
    PROVE  MeteringInv'
<1> USE RequestParts
<1>1. Consistent(pc, effect[r], reservation[r], body[r].disclosed)
  BY DEF Consistent, Untouched, Free
<1> QED BY <1>1, RequestMoves

\* Storage reports an outcome.
LEMMA ReportKeeps ==
    ASSUME MeteringInv, NEW r \in Requests, Pc(r) # "answered", NEW e \in {"done", "none", "unknown"},
           Outcome(r, e), UNCHANGED <<reservation, body>>
    PROVE  MeteringInv'
<1> USE RequestParts
<1>1. effect' = [effect EXCEPT ![r] = e] /\ e \in Effects
  BY DEF Outcome, Effects
<1>2. PICK pc \in {"record", "release", "answered"} : Goto(r, pc) /\ (pc = "release" => e = "none")
  BY DEF Outcome
<1>3. Consistent(pc, e, reservation[r], body[r].disclosed)
  BY <1>2 DEF Consistent, Untouched, Free
<1>4. /\ pc \in HandlerSteps /\ reservation' = [reservation EXCEPT ![r] = reservation[r]]
      /\ body' = [body EXCEPT ![r] = body[r]]
  BY <1>2 DEF HandlerSteps
<1> QED BY <1>1, <1>2, <1>3, <1>4, RequestMoves

\* Authorization, admission and the end of a request.
LEMMA GrantKeeps ==
    ASSUME MeteringInv, NEW r \in Requests,
           Reject(r) \/ AuthorizeRequest(r) \/ EnforcePolicy(r) \/ OpenFails(r) \/ MeteredReadResponse(r)
             \/ MarkSettled(r) \/ Crash(r) \/ AcquireCompletion(r)
    PROVE  MeteringInv'
<1> USE RequestParts
<1>1. CASE AuthorizeRequest(r)
  <2>1. PICK v \in {"none", "held", reservation[r]} : reservation' = [reservation EXCEPT ![r] = v] /\ v # "released"
    BY <1>1 DEF AuthorizeRequest, Reserve, Consistent, MeteringInv, MeteringTypes, Grants
  <2>2. PICK pc \in {"gate", "answered"} : Goto(r, pc)
    BY <1>1 DEF AuthorizeRequest
  <2>5. v \in Grants /\ pc \in HandlerSteps
    BY <2>1, <2>2 DEF HandlerSteps, Grants
  <2>3. effect[r] = "none" /\ UNCHANGED <<effect, body>>
    BY <1>1 DEF AuthorizeRequest, Consistent, Untouched
  <2>4. Consistent(pc, effect[r], v, body[r].disclosed)
    BY <2>1, <2>2, <2>3 DEF Consistent
  <2>6. effect' = [effect EXCEPT ![r] = effect[r]] /\ body' = [body EXCEPT ![r] = body[r]]
    BY <2>3
  <2> QED BY <2>1, <2>2, <2>4, <2>5, <2>6, RequestMoves
<1>2. CASE Reject(r) \/ EnforcePolicy(r) \/ OpenFails(r) \/ MeteredReadResponse(r)
  <2>1. PICK pc \in {"answered", "run", "release", "record"} : Goto(r, pc)
    BY <1>2 DEF Reject, EnforcePolicy, OpenFails, MeteredReadResponse
  <2>2. Pc(r) \in {"start", "gate", "run"} /\ UNCHANGED <<effect, reservation, body>>
    BY <1>2 DEF Reject, EnforcePolicy, OpenFails, MeteredReadResponse
  <2> QED BY <2>1, <2>2, OnlyMoves DEF HandlerSteps, Untouched
<1>3. CASE MarkSettled(r) \/ Crash(r)
  <2>1. Goto(r, "answered") /\ Pc(r) # "answered" /\ UNCHANGED <<effect, reservation, body>>
    BY <1>3 DEF MarkSettled, Crash
  <2> QED BY <2>1, OnlyMoves DEF HandlerSteps
<1>4. CASE AcquireCompletion(r)
  <2>1. PICK pc \in {"answered", "acquired", "release", "record"} : Goto(r, pc)
    BY <1>4 DEF AcquireCompletion
  <2>2. Pc(r) = "run" /\ UNCHANGED <<effect, reservation, body>>
    BY <1>4 DEF AcquireCompletion
  <2> QED BY <2>1, <2>2, OnlyMoves DEF HandlerSteps, Untouched
<1> QED BY <1>1, <1>2, <1>3, <1>4

\* The usage is recorded, or the reservation handed back.
LEMMA ReceiptKeeps ==
    ASSUME MeteringInv, NEW r \in Requests, RecordUsage(r) \/ ReleaseFailure(r)
    PROVE  MeteringInv'
<1> USE RequestParts
<1>1. CASE RecordUsage(r)
  <2>1. PICK pc \in {"settle", "answered"} : Goto(r, pc)
    BY <1>1 DEF RecordUsage
  <2>2. PICK e \in {"done", effect[r]} : effect' = [effect EXCEPT ![r] = e]
    BY <1>1 DEF RecordUsage
  <2>3. Pc(r) = "record" /\ UNCHANGED <<reservation, body>> /\ e \in Effects
    BY <1>1, <2>2 DEF RecordUsage, Effects
  <2>4. Consistent(pc, e, reservation[r], body[r].disclosed)
    BY <2>1, <2>3 DEF Consistent, Untouched
  <2>5. /\ pc \in HandlerSteps /\ reservation' = [reservation EXCEPT ![r] = reservation[r]]
        /\ body' = [body EXCEPT ![r] = body[r]]
    BY <2>1, <2>3 DEF HandlerSteps
  <2> QED BY <2>1, <2>2, <2>3, <2>4, <2>5, RequestMoves
<1>2. CASE ReleaseFailure(r)
  <2>1. PICK v \in {"released", reservation[r]} : reservation' = [reservation EXCEPT ![r] = v]
    BY <1>2 DEF ReleaseFailure, Unreserve
  <2>2. Pc(r) = "release" /\ Goto(r, "answered") /\ UNCHANGED <<effect, body>> /\ v \in Grants
    BY <1>2, <2>1 DEF ReleaseFailure, Grants
  <2>3. Consistent("answered", effect[r], v, body[r].disclosed)
    BY <2>2 DEF Consistent, Untouched
  <2>4. "answered" \in HandlerSteps /\ effect' = [effect EXCEPT ![r] = effect[r]] /\ body' = [body EXCEPT ![r] = body[r]]
    BY <2>2 DEF HandlerSteps
  <2> QED BY <2>1, <2>2, <2>3, <2>4, RequestMoves
<1> QED BY <1>1, <1>2

\* The body of a direct read: nothing disclosed, nothing to bill.
LEMMA BodyKeeps ==
    ASSUME MeteringInv, NEW r \in Requests, TransformedReadResponse(r) \/ BodyStep(r)
    PROVE  MeteringInv'
<1> USE RequestParts
<1>0. body \in [Requests -> BodyType] /\ body[r] \in BodyType
  BY DEF MeteringInv, MeteringTypes
<1>1. CASE TransformedReadResponse(r)
  <2>1. PICK first \in BOOLEAN : body' = [body EXCEPT ![r] = [first |-> first, settling |-> IF first THEN 0 ELSE 3,
                                                              disclosed |-> FALSE, owned |-> TRUE]]
    BY <1>1 DEF TransformedReadResponse
  <2> DEFINE b == [first |-> first, settling |-> IF first THEN 0 ELSE 3, disclosed |-> FALSE, owned |-> TRUE]
  <2>2. b \in BodyType /\ body' = [body EXCEPT ![r] = b]
    BY <2>1 DEF BodyType
  <2> HIDE DEF b
  <2>3. Pc(r) = "run" /\ Goto(r, "body") /\ UNCHANGED <<effect, reservation>>
    BY <1>1 DEF TransformedReadResponse
  <2>4. Consistent("body", effect[r], reservation[r], b.disclosed)
    BY <2>3 DEF Consistent, Untouched
  <2> QED BY <2>2, <2>3, <2>4, RequestMoves DEF HandlerSteps
<1>2. CASE PollData(r)
  <2> DEFINE b == [body[r] EXCEPT !.first = FALSE, !.disclosed = TRUE]
  <2>1. b \in BodyType /\ b.disclosed = TRUE
    BY <1>0 DEF BodyType
  <2>2. body' = [body EXCEPT ![r] = b]
    BY <1>0, <1>2 DEF PollData
  <2> HIDE DEF b
  <2>3. Pc(r) = "body" /\ Goto(r, "body") /\ effect' = [effect EXCEPT ![r] = "done"] /\ UNCHANGED reservation
    BY <1>2 DEF PollData, Goto
  <2>4. Consistent("body", "done", reservation[r], b.disclosed)
    BY <2>1, <2>3 DEF Consistent, Untouched
  <2> QED BY <2>1, <2>2, <2>3, <2>4, RequestMoves DEF HandlerSteps, Effects
<1>3. CASE PollFailed(r) \/ PollDone(r) \/ PollSettlement(r) \/ DropBody(r)
  <2>1. PICK b \in BodyType : body' = [body EXCEPT ![r] = b] /\ b.disclosed = body[r].disclosed
    <3> DEFINE lost1 == [body[r] EXCEPT !.owned = FALSE]
               done == [body[r] EXCEPT !.settling = 3]
               told == [body[r] EXCEPT !.settling = 0, !.owned = FALSE]
               less == [body[r] EXCEPT !.settling = body[r].settling - 1]
    <3>1. CASE PollFailed(r) \/ DropBody(r)
      <4>1. lost1 \in BodyType /\ lost1.disclosed = body[r].disclosed
        BY <1>0 DEF BodyType
      <4>2. body' = [body EXCEPT ![r] = lost1]
        BY <1>0, <3>1 DEF PollFailed, DropBody
      <4> QED BY <4>1, <4>2
    <3>2. CASE PollDone(r)
      <4>1. done \in BodyType /\ done.disclosed = body[r].disclosed
        BY <1>0 DEF BodyType
      <4>2. body' = [body EXCEPT ![r] = done]
        BY <1>0, <3>2 DEF PollDone
      <4> QED BY <4>1, <4>2
    <3>3. CASE PollSettlement(r)
      <4>0. body[r].settling - 1 \in Nat
        BY <1>0, <3>3 DEF BodyType, PollSettlement
      <4>1. /\ told \in BodyType /\ told.disclosed = body[r].disclosed
            /\ less \in BodyType /\ less.disclosed = body[r].disclosed
        BY <1>0, <4>0 DEF BodyType
      <4>2. body' = [body EXCEPT ![r] = told] \/ body' = [body EXCEPT ![r] = less]
        BY <1>0, <3>3 DEF PollSettlement
      <4> QED BY <4>1, <4>2
    <3> QED BY <1>3, <3>1, <3>2, <3>3
  <2>2. PICK pc \in {"answered", "release", "body"} : Goto(r, pc) /\ (pc = "release" => ~body[r].disclosed)
    BY <1>3 DEF PollFailed, PollDone, PollSettlement, DropBody, Goto
  <2>3. Pc(r) = "body" /\ UNCHANGED <<effect, reservation>>
    BY <1>3 DEF PollFailed, PollDone, PollSettlement, DropBody
  <2>4. Consistent(pc, effect[r], reservation[r], b.disclosed)
    BY <2>1, <2>2, <2>3 DEF Consistent, Untouched, Free
  <2>5. /\ pc \in HandlerSteps /\ reservation' = [reservation EXCEPT ![r] = reservation[r]]
        /\ effect' = [effect EXCEPT ![r] = effect[r]]
    BY <2>2, <2>3 DEF HandlerSteps
  <2> QED BY <2>1, <2>2, <2>3, <2>4, <2>5, RequestMoves
<1> QED BY <1>1, <1>2, <1>3 DEF BodyStep

\* A write through a sink, or a delete: only an outcome without effect is released.
LEMMA WritesKeep ==
    ASSUME MeteringInv, NEW r \in Requests, PutThroughSink(r) \/ DeleteKey(r) \/ AbortUpload(r)
    PROVE  MeteringInv'
<1>1. Pc(r) = "run" /\ UNCHANGED <<reservation, body>>
  BY DEF PutThroughSink, DeleteKey, AbortUpload
<1>2. \/ Outcome(r, "done") \/ Outcome(r, "none") \/ Outcome(r, "unknown")
      \/ (Goto(r, "answered") \/ Goto(r, "record")) /\ UNCHANGED effect
  BY DEF PutThroughSink, DeleteKey, AbortUpload
<1>3. CASE \/ Outcome(r, "done") \/ Outcome(r, "none") \/ Outcome(r, "unknown")
  BY <1>1, <1>3, ReportKeeps
<1>4. CASE (Goto(r, "answered") \/ Goto(r, "record")) /\ UNCHANGED effect
  BY <1>1, <1>4, OnlyMoves DEF HandlerSteps
<1> QED BY <1>2, <1>3, <1>4

\* A managed delete, entered once more when its commit is unknown.
LEMMA TombstoneKeeps ==
    ASSUME MeteringInv, NEW r \in Requests, DeleteAuthoritative(r)
    PROVE  MeteringInv'
<1> USE RequestParts
<1>1. Pc(r) \in {"run", "again"} /\ UNCHANGED <<reservation, body>>
  BY DEF DeleteAuthoritative
<1>2. \/ Outcome(r, "done")
      \/ effect' = [effect EXCEPT ![r] = "done"] /\ (Goto(r, "again") \/ Goto(r, "answered"))
      \/ UNCHANGED effect /\ (Goto(r, "again") \/ Goto(r, "answered") \/ (Pc(r) = "run" /\ Goto(r, "release")))
  BY DEF DeleteAuthoritative
<1>3. CASE Outcome(r, "done")
  BY <1>1, <1>3, ReportKeeps
<1>4. ASSUME NEW pc \in {"again", "answered"}, effect' = [effect EXCEPT ![r] = "done"], Goto(r, pc)
      PROVE  MeteringInv'
  <2>1. /\ pc \in HandlerSteps /\ "done" \in Effects /\ reservation' = [reservation EXCEPT ![r] = reservation[r]]
        /\ body' = [body EXCEPT ![r] = body[r]]
    BY <1>1, <1>4 DEF HandlerSteps, Effects
  <2>2. Consistent(pc, "done", reservation[r], body[r].disclosed)
    BY <1>1, <1>4 DEF Consistent, Untouched
  <2> QED BY <1>4, <2>1, <2>2, RequestMoves
<1>5. CASE UNCHANGED effect /\ (Goto(r, "again") \/ Goto(r, "answered") \/ (Pc(r) = "run" /\ Goto(r, "release")))
  BY <1>1, <1>5, OnlyMoves DEF HandlerSteps, Untouched
<1> QED BY <1>2, <1>3, <1>4, <1>5

\* A completion that acquired the lease.
LEMMA CompletionKeeps ==
    ASSUME MeteringInv, NEW r \in Requests, ExistingCompletion(r) \/ CompleteStagedMultipart(r)
    PROVE  MeteringInv'
<1> USE RequestParts
<1>1. Pc(r) \in {"acquired", "publish"} /\ UNCHANGED <<reservation, body>>
  BY DEF ExistingCompletion, CompleteStagedMultipart
<1>2. effect[r] = "none"
  BY <1>1 DEF Consistent, Untouched
<1>3. \/ Outcome(r, "done") \/ Outcome(r, "unknown")
      \/ UNCHANGED effect /\ (Goto(r, "publish") \/ Goto(r, "release"))
  BY <1>2 DEF ExistingCompletion, CompleteStagedMultipart
<1>4. CASE Outcome(r, "done") \/ Outcome(r, "unknown")
  BY <1>1, <1>4, ReportKeeps
<1>5. CASE UNCHANGED effect /\ (Goto(r, "publish") \/ Goto(r, "release"))
  BY <1>1, <1>5, OnlyMoves DEF HandlerSteps, Untouched
<1> QED BY <1>3, <1>4, <1>5

\* The journal settles what a handler left unknown, which was not released.
LEMMA ResolvedKeeps ==
    ASSUME MeteringInv, NEW o \in Requests, ReconcileOperation(o)
    PROVE  MeteringInv'
<1> USE RequestParts
<1>1. PICK e \in {"done", "aborted"} : effect' = [effect EXCEPT ![o] = e]
  BY DEF ReconcileOperation
<1>2. effect[o] = "unknown" /\ UNCHANGED <<handler, reservation, body>>
  BY DEF ReconcileOperation
<1>3. Consistent(Pc(o), e, reservation[o], body[o].disclosed)
  BY <1>2 DEF Consistent, Free
<1>4. /\ e \in Effects /\ reservation' = [reservation EXCEPT ![o] = reservation[o]]
      /\ body' = [body EXCEPT ![o] = body[o]] /\ Goto(o, Pc(o))
  BY <1>2 DEF Effects, Goto
<1> QED BY <1>1, <1>3, <1>4, RequestMoves

\* With one CompleteMultipartUpload at most, every request has an operation of its own.
LEMMA MeteringStarts ==
    ASSUME IsFiniteSet(Requests), MaxCompletions \in {0, 1}, MeteringInit
    PROVE  MeteringInv
<1> DEFINE completions == {r \in Requests : handler[r].kind = "complete"}
<1>1. /\ handler \in [Requests -> [kind : Kinds, op : Requests, pc : {"start"}]]
      /\ \A r \in Requests : handler[r].kind # "complete" => handler[r].op = r
      /\ \A r \in completions : handler[r].op \in completions
      /\ Cardinality(completions) <= MaxCompletions
  BY DEF MeteringInit
<1>2. \A r, s \in completions : r = s
  <2>1. IsFiniteSet(completions)
    BY FS_Subset
  <2>2. Cardinality(completions) \in Nat
    BY <2>1, FS_CardinalityType
  <2> HIDE DEF completions
  <2>3. completions = {} \/ \E x : completions = {x}
    BY <1>1, <2>1, <2>2, FS_EmptySet, FS_Singleton
  <2> QED BY <2>3
<1>3. ASSUME NEW r \in Requests PROVE Op(r) = r /\ Pc(r) = "start"
  BY <1>1, <1>2 DEF Op, Pc
<1>4. MeteringTypes
  BY <1>1 DEF MeteringInit, MeteringTypes, HandlerType, HandlerSteps, Effects, Grants, BodyType, NoBody
<1>5. ASSUME NEW r \in Requests PROVE Owning(r)
  BY <1>3 DEF MeteringInit, Owning, Consistent, NoBody
<1> QED BY <1>4, <1>5 DEF MeteringInv

\* Every step of requests, journal and settlement worker keeps the invariant.
LEMMA MeteringSteps == MeteringInv /\ [MeteringNext]_meteringVars => MeteringInv'
<1> SUFFICES ASSUME MeteringInv, [MeteringNext]_meteringVars PROVE MeteringInv'
  OBVIOUS
<1>1. ASSUME NEW r \in Requests,
             \/ Reject(r) \/ AuthorizeRequest(r) \/ EnforcePolicy(r) \/ OpenFails(r)
             \/ MeteredReadResponse(r) \/ MarkSettled(r) \/ Crash(r) \/ AcquireCompletion(r)
      PROVE  MeteringInv'
  BY <1>1, GrantKeeps
<1>2. ASSUME NEW r \in Requests,
             \/ TransformedReadResponse(r) \/ BodyStep(r) \/ RecordUsage(r) \/ ReleaseFailure(r)
      PROVE  MeteringInv'
  BY <1>2, BodyKeeps, ReceiptKeeps
<1>3. ASSUME NEW r \in Requests,
             \/ PutThroughSink(r) \/ DeleteKey(r) \/ DeleteAuthoritative(r) \/ AbortUpload(r)
             \/ ExistingCompletion(r) \/ CompleteStagedMultipart(r) \/ ReconcileOperation(r)
      PROVE  MeteringInv'
  BY <1>3, WritesKeep, TombstoneKeeps, CompletionKeeps, ResolvedKeeps
<1>4. ASSUME UNCHANGED <<handler, reservation, effect, body>> PROVE MeteringInv'
  BY <1>4 DEF MeteringInv, MeteringTypes, Owning, Op, Pc
<1>5. ASSUME NEW o \in Requests, ReconcileDeleteSettlement(o) PROVE MeteringInv'
  BY <1>4, <1>5 DEF ReconcileDeleteSettlement
<1>6. CASE LeaseLapses
  BY <1>4, <1>6 DEF LeaseLapses
<1>7. CASE UNCHANGED meteringVars
  BY <1>4, <1>7 DEF meteringVars
<1>8. ASSUME NEW r \in Requests,
             \/ GetObject(r) \/ HeadObject(r) \/ ListObjects(r) \/ SpooledRead(r) \/ AvroRead(r) \/ LanceRead(r)
             \/ StreamingSinglePut(r) \/ AvroSinglePut(r) \/ LanceSinglePut(r)
      PROVE  MeteringInv'
  BY <1>1, <1>3, <1>8 DEF GetObject, HeadObject, ListObjects, SpooledRead, AvroRead, LanceRead,
                          StreamingSinglePut, AvroSinglePut, LanceSinglePut
<1> QED BY <1>1, <1>2, <1>3, <1>5, <1>6, <1>7, <1>8 DEF MeteringNext

\* A handler that may still hand its reservation back, or did, had no billable effect, for any
\* number of requests, failures and kinds, where no two requests share an operation.
THEOREM ReservationsOwned ==
    ASSUME IsFiniteSet(Requests), MaxCompletions \in {0, 1}
    PROVE  MeteringSpec => []MeteringInv
BY MeteringStarts, MeteringSteps, PTL DEF MeteringSpec

\* What was disclosed or stored, or has an unknown outcome, keeps its reservation
\* (release in control.rs), where no two requests share an operation: with exact retries of one
\* CompleteMultipartUpload it fails.
THEOREM EffectsStayReserved ==
    ASSUME IsFiniteSet(Requests), MaxCompletions \in {0, 1}
    PROVE  MeteringSpec => []EffectReserved
<1>1. MeteringInv => EffectReserved
  BY DEF MeteringInv, Owning, Consistent, Free, EffectReserved
<1> QED BY <1>1, ReservationsOwned, PTL

-----------------------------------------------------------------------------
(* Repairs                                                                 *)
(*                                                                         *)
(* The argument: the cleanup of a location that reads rely on is never     *)
(* leased.  It is not claimed while the authority serves its target, and a *)
(* copy is not published where a cleanup is leased.  A running worker      *)
(* keeps its lease, so what it deletes is not served.  A copy the          *)
(* authority leaves behind has a repair row, which is done only when the   *)
(* ledger has none of the copy's rows left; the exception is a backend     *)
(* that a placement returned to after its cleanup (Revisited).             *)

\* Shapes of the records.
Located == Backends \cup {NoBackend}
Copies == Backends \X Nat \X (0..MaxCopies)
VersionIds == Copies \cup {<<>>}
CopyStatus == {"READY", "ABSENT", "PENDING"}
AuthorityType ==
  [generation : Nat, primary : Located, replica : Located, primaryStatus : CopyStatus,
   replicaStatus : CopyStatus, version : Nat, cas : Nat, live : BOOLEAN, vid : VersionIds]
RepairType ==
  [kind : {"REPLICA", "PLACEMENT", "DELETE"}, generation : Nat, target : Backends,
   source : Located, role : {"primary", "replica", "cleanup"}, cas : Nat, version : Nat,
   plan : Placement, state : {"PENDING", "WAITING", "LEASED", "DONE", "DEAD"}, attempts : Nat,
   token : Workers \cup {NoBackend}, expired : BOOLEAN]
ClaimType ==
  [at : {"claimed", "read", "checked", "deleting", "executed"}, repair : RepairType,
   targets : SUBSET Copies, ok : BOOLEAN]

\* A live authority has a primary, and a replica where it calls one READY.
Named(a) ==
  /\ a.live => a.primary \in Backends
  /\ a.replicaStatus = "READY" => a.replica \in Backends

\* Reads of generation g rely on backend b.
Serving(a, g, b) == a.live /\ a.generation = g /\ b \in Locations(a)

\* A repair is never ahead of the authority, and a replica repair that is level
\* with it aims at the location the authority has for the repair's role.
Behind(a, r) ==
  /\ r.generation <= a.generation /\ r.cas <= a.cas
  /\ r.kind = "REPLICA" /\ r.generation = a.generation /\ r.cas = a.cas /\ a.live =>
       r.target = IF r.role = "primary" THEN a.primary ELSE a.replica

\* The repair rows, each under its key and behind the authority.
Sound(a, table) ==
  /\ table \in [DOMAIN table -> RepairType]
  /\ \A k \in DOMAIN table : Key(table[k]) = k /\ Behind(a, table[k])

\* No cleanup of a location that reads rely on is leased, and where there is one
\* at all a placement brought the reads there.
Spared(a, table) ==
  \A k \in DOMAIN table :
    k[1] = "DELETE" /\ Serving(a, k[2], k[3]) =>
      table[k].state # "LEASED" /\ <<"PLACEMENT", k[2], k[3]>> \in DOMAIN table

\* What worker w runs is leased to it and is what the kind of repair allows.
Claimed(a, table, w, claim) ==
  \/ claim = NoClaim
  \/ LET r == claim.repair
         k == Key(r)
     IN  /\ claim \in ClaimType
         /\ k \in DOMAIN table /\ table[k].state = "LEASED" /\ table[k].token = w /\ ~table[k].expired
         /\ r.token = w
         /\ Behind(a, r)
         /\ claim.at = "read" => r.kind # "DELETE"
         /\ claim.at \in {"checked", "deleting"} => r.kind = "DELETE"
         /\ \A c \in claim.targets : c[1] = r.target /\ c[2] = r.generation

\* ReadyHolds and StrayCovered, as predicates of what they depend on.
Ready(a, copies) ==
  a.live =>
    /\ a.primaryStatus = "READY" => At(copies, a.primary, a.generation) # {}
    /\ a.replicaStatus = "READY" => At(copies, a.replica, a.generation) # {}
Covered(table, c) ==
  \/ \E k \in DOMAIN table : k[2] = c[2] /\ k[3] = c[1] /\ table[k].state # "DONE"
  \/ {<<"DELETE", c[2], c[1]>>, <<"PLACEMENT", c[2], c[1]>>} \subseteq DOMAIN table
Accounted(a, table, copies) == \A c \in copies : Serving(a, c[2], c[1]) \/ Covered(table, c)

RepairInv ==
  /\ scenario \in Scenarios /\ placed \in DOMAIN Plan
  /\ auth \in AuthorityType /\ Named(auth)
  /\ stored \subseteq Copies /\ rows = stored
  /\ Sound(auth, repairs) /\ Spared(auth, repairs)
  /\ DOMAIN worker = Workers
  /\ \A w \in Workers : Claimed(auth, repairs, w, worker[w])
  /\ Ready(auth, stored) /\ Accounted(auth, repairs, rows)

\* Repairs that are about to be inserted.
Fresh(a, new) ==
  \A r \in new : r \in RepairType /\ r.state \in {"PENDING", "WAITING"} /\ Behind(a, r)

\* What the lease and the covering of a repair row survive: rows stay, an
\* unfinished row stays unfinished, a leased one as it is, and none is leased.
Kept(old, new) ==
  /\ DOMAIN old \subseteq DOMAIN new
  /\ \A k \in DOMAIN old : old[k].state # "DONE" => new[k].state # "DONE"
  /\ \A k \in DOMAIN old : old[k].state = "LEASED" => new[k] = old[k]
  /\ \A k \in DOMAIN new : new[k].state = "LEASED" => k \in DOMAIN old /\ old[k].state = "LEASED"

\* Inserting repairs (insert_repair) adds the rows that are missing, revives the
\* finished ones with the new fields and leaves every other row alone.
LEMMA InsertKeeps ==
  ASSUME NEW a, NEW table, NEW new, Sound(a, table), Fresh(a, new)
  PROVE  LET out == InsertRepairs(table, new) IN
         /\ DOMAIN out = DOMAIN table \cup {Key(r) : r \in new}
         /\ Sound(a, out) /\ Kept(table, out)
         /\ \A r \in new : Key(r) \in DOMAIN out /\ out[Key(r)].state # "DONE"
<1> DEFINE named == {Key(r) : r \in new}
           Row(k) == CHOOSE r \in new : Key(r) = k
           out == [k \in DOMAIN table \cup named |->
                     IF k \notin DOMAIN table THEN Row(k)
                     ELSE IF k \in named /\ table[k].state = "DONE"
                       THEN [Row(k) EXCEPT !.attempts = table[k].attempts]
                       ELSE table[k]]
<1>1. InsertRepairs(table, new) = out
  BY DEF InsertRepairs
<1>2. DOMAIN out = DOMAIN table \cup named
  OBVIOUS
<1>3. ASSUME NEW k \in named
      PROVE  Row(k) \in new /\ Key(Row(k)) = k
  BY <1>3
<1>4. ASSUME NEW k \in DOMAIN out
      PROVE  /\ out[k] \in RepairType /\ Key(out[k]) = k /\ Behind(a, out[k])
             /\ out[k] = table[k] \/ out[k].state \in {"PENDING", "WAITING"}
             /\ k \in named \/ (k \in DOMAIN table /\ out[k] = table[k])
             /\ k \in DOMAIN table /\ table[k].state # "DONE" => out[k] = table[k]
             /\ k \in named => out[k].state # "DONE"
             /\ k \notin DOMAIN table => out[k].state \in {"PENDING", "WAITING"}
  <2>1. CASE k \notin DOMAIN table
    <3>1. k \in named /\ out[k] = Row(k)
      BY <1>2, <2>1
    <3> HIDE DEF Row, out, named
    <3> QED BY <1>3, <2>1, <3>1 DEF Fresh
  <2>2. CASE k \in DOMAIN table /\ k \in named /\ table[k].state = "DONE"
    <3> DEFINE row == Row(k)
    <3>1. out[k] = [row EXCEPT !.attempts = table[k].attempts]
      BY <1>2, <2>2
    <3>2. row \in new /\ Key(row) = k
      BY <1>3, <2>2
    <3> HIDE DEF row, out, named
    <3>3. row \in RepairType /\ row.state \in {"PENDING", "WAITING"} /\ Behind(a, row)
      BY <3>2 DEF Fresh
    <3>4. table[k].attempts \in Nat
      BY <2>2 DEF Sound, RepairType
    <3>5. /\ out[k] \in RepairType
          /\ out[k].state = row.state /\ out[k].kind = row.kind /\ out[k].generation = row.generation
          /\ out[k].target = row.target /\ out[k].cas = row.cas /\ out[k].role = row.role
      BY <3>1, <3>3, <3>4 DEF RepairType
    <3> QED BY <2>2, <3>2, <3>3, <3>5 DEF Key, Behind
  <2>3. CASE k \in DOMAIN table /\ ~(k \in named /\ table[k].state = "DONE")
    <3>1. out[k] = table[k]
      BY <1>2, <2>3
    <3> HIDE DEF out, named
    <3> QED BY <2>3, <3>1 DEF Sound
  <2> QED BY <2>1, <2>2, <2>3
<1> HIDE DEF out
<1>5. out \in [DOMAIN out -> RepairType]
  <2>1. out = [k \in DOMAIN out |-> out[k]]
    BY DEF out
  <2> QED BY <1>4, <2>1
<1>6. Sound(a, out)
  BY <1>4, <1>5 DEF Sound
<1>7. Kept(table, out)
  BY <1>2, <1>4 DEF Kept
<1>8. \A r \in new : Key(r) \in DOMAIN out /\ out[Key(r)].state # "DONE"
  BY <1>2, <1>4
<1> QED BY <1>1, <1>2, <1>6, <1>7, <1>8

\* The cleanups of a cutover (insert_waiting_placement_cleanup) are added where
\* there is none yet; every row that is there stays as it is.
LEMMA WaitingKeeps ==
  ASSUME NEW a, NEW table, NEW new, Sound(a, table), Fresh(a, new)
  PROVE  LET out == InsertWaiting(table, new) IN
         /\ DOMAIN out = DOMAIN table \cup {Key(r) : r \in new}
         /\ Sound(a, out) /\ Kept(table, out)
         /\ \A r \in new : Key(r) \in DOMAIN table \/ out[Key(r)].state # "DONE"
<1> DEFINE fresh == {r \in new : Key(r) \notin DOMAIN table}
           held == {[r EXCEPT !.state = "WAITING"] : r \in fresh}
           out == InsertRepairs(table, held)
<1>1. InsertWaiting(table, new) = out
  BY DEF InsertWaiting
<1>2. ASSUME NEW r \in fresh
      PROVE  LET h == [r EXCEPT !.state = "WAITING"] IN
             /\ h \in RepairType /\ h.state = "WAITING" /\ Key(h) = Key(r) /\ Behind(a, h)
  <2> DEFINE h == [r EXCEPT !.state = "WAITING"]
  <2>1. r \in RepairType /\ Behind(a, r)
    BY DEF Fresh
  <2>2. /\ h \in RepairType /\ h.state = "WAITING" /\ h.kind = r.kind
        /\ h.generation = r.generation /\ h.target = r.target /\ h.cas = r.cas /\ h.role = r.role
    BY <2>1 DEF RepairType
  <2> HIDE DEF h
  <2>3. Key(h) = Key(r) /\ Behind(a, h)
    BY <2>1, <2>2 DEF Key, Behind
  <2> QED BY <2>2, <2>3 DEF h
<1>3. Fresh(a, held)
  <2> HIDE DEF fresh
  <2> QED BY <1>2 DEF Fresh
<1>4. {Key(r) : r \in held} = {Key(r) : r \in fresh}
  <2> HIDE DEF fresh
  <2> QED BY <1>2
<1>5. /\ DOMAIN out = DOMAIN table \cup {Key(r) : r \in held}
      /\ Sound(a, out) /\ Kept(table, out)
      /\ \A r \in held : Key(r) \in DOMAIN out /\ out[Key(r)].state # "DONE"
  <2> HIDE DEF held
  <2> QED BY <1>3, InsertKeeps
<1> HIDE DEF held, out
<1>6. DOMAIN out = DOMAIN table \cup {Key(r) : r \in new}
  BY <1>4, <1>5
<1>7. ASSUME NEW r \in new, Key(r) \notin DOMAIN table
      PROVE  out[Key(r)].state # "DONE"
  <2>1. Key(r) \in {Key(s) : s \in held}
    BY <1>4, <1>7
  <2> QED BY <1>5, <2>1
<1> QED BY <1>1, <1>5, <1>6, <1>7

\* Reaching a placement version (complete_repair) only makes waiting rows due.
LEMMA ActivateKeeps ==
  ASSUME NEW a, NEW table, NEW g, NEW version, Sound(a, table)
  PROVE  LET out == Activate(table, g, version) IN
         DOMAIN out = DOMAIN table /\ Sound(a, out) /\ Kept(table, out)
<1> DEFINE out == [k \in DOMAIN table |->
                     IF table[k].state = "WAITING" /\ table[k].generation = g /\ table[k].version = version
                       THEN [table[k] EXCEPT !.state = "PENDING"] ELSE table[k]]
<1>1. Activate(table, g, version) = out
  BY DEF Activate
<1>2. ASSUME NEW k \in DOMAIN table
      PROVE  /\ out[k] \in RepairType /\ Key(out[k]) = k /\ Behind(a, out[k])
             /\ out[k] = table[k] \/ (table[k].state = "WAITING" /\ out[k].state = "PENDING")
  <2> DEFINE row == table[k]
             due == [row EXCEPT !.state = "PENDING"]
  <2>1. out[k] = row \/ (row.state = "WAITING" /\ out[k] = due)
    OBVIOUS
  <2>2. row \in RepairType /\ Key(row) = k /\ Behind(a, row)
    BY DEF Sound
  <2> HIDE DEF row, out
  <2>3. /\ due \in RepairType /\ due.state = "PENDING" /\ due.kind = row.kind /\ due.role = row.role
        /\ due.generation = row.generation /\ due.target = row.target /\ due.cas = row.cas
    BY <2>2 DEF RepairType
  <2> HIDE DEF due
  <2>4. Key(due) = k /\ Behind(a, due)
    BY <2>2, <2>3 DEF Key, Behind
  <2> QED BY <2>1, <2>2, <2>3, <2>4 DEF row
<1>3. DOMAIN out = DOMAIN table
  OBVIOUS
<1>4. out \in [DOMAIN out -> RepairType]
  BY <1>2, <1>3
<1> HIDE DEF out
<1>5. Sound(a, out) /\ Kept(table, out)
  BY <1>2, <1>3, <1>4 DEF Sound, Kept
<1> QED BY <1>1, <1>3, <1>5

\* Two insertions in a row keep what each of them keeps.
LEMMA KeptTwice ==
  ASSUME NEW x, NEW y, NEW z, Kept(x, y), Kept(y, z)
  PROVE  Kept(x, z)
BY DEF Kept

\* Every repair that was behind the authority stays behind it when the authority
\* moves on (a higher CAS version) or stays where it is.
LEMMA BehindMoves ==
  ASSUME NEW a \in AuthorityType, NEW b \in AuthorityType, NEW r \in RepairType, Behind(a, r),
         a.generation <= b.generation, a.cas <= b.cas,
         a.cas < b.cas \/ (b.primary = a.primary /\ b.replica = a.replica
                             /\ b.generation = a.generation /\ (b.live => a.live))
  PROVE  Behind(b, r)
BY DEF Behind, AuthorityType, RepairType

\* A worker keeps its claim as long as its row and its being behind are kept.
LEMMA ClaimStays ==
  ASSUME NEW a, NEW b, NEW table, NEW out, NEW w, NEW claim, Claimed(a, table, w, claim),
         \A r \in RepairType : Behind(a, r) => Behind(b, r),
         LET k == Key(claim.repair) IN
           claim # NoClaim => k \in DOMAIN out /\ out[k] = table[k]
  PROVE  Claimed(b, out, w, claim)
<1>1. CASE claim = NoClaim
  BY <1>1 DEF Claimed
<1>2. CASE claim # NoClaim
  <2>1. claim.repair \in RepairType
    BY <1>2 DEF Claimed, ClaimType
  <2> QED BY <1>2, <2>1 DEF Claimed
<1> QED BY <1>1, <1>2

\* Insertions into the table take no worker's claim away.
LEMMA ClaimsKept ==
  ASSUME NEW a, NEW b, NEW table, NEW out, NEW w, NEW claim, Claimed(a, table, w, claim),
         \A r \in RepairType : Behind(a, r) => Behind(b, r), Kept(table, out)
  PROVE  Claimed(b, out, w, claim)
<1>1. LET k == Key(claim.repair) IN claim # NoClaim => k \in DOMAIN out /\ out[k] = table[k]
  BY DEF Claimed, Kept
<1> QED BY <1>1, ClaimStays

\* Insertions into the table leave every copy accounted for that was.
LEMMA CoveredKept ==
  ASSUME NEW table, NEW out, NEW c, Covered(table, c), Kept(table, out)
  PROVE  Covered(out, c)
BY DEF Covered, Kept

\* The backends an authority or a placement names.
LEMMA PlacedAt ==
  ASSUME RepairInv
  PROVE  /\ Plan[placed] \in Placement /\ Plan[1] \in Placement /\ placed \in Nat
         /\ Locations(auth) \subseteq Backends
         /\ Plan[placed].primary \in Backends /\ Plan[placed].replica \in Located
<1>1. scenario.placements \in Seq(Placement) /\ scenario.placements # <<>>
  BY RepairAssumption DEF RepairInv
<1>2. placed \in 1..Len(scenario.placements) /\ 1 \in 1..Len(scenario.placements)
  BY <1>1 DEF RepairInv, Plan
<1>3. Plan[placed] \in Placement /\ Plan[1] \in Placement
  BY <1>1, <1>2 DEF Plan
<1>4. Locations(auth) \subseteq Backends
  BY DEF RepairInv, AuthorityType, Locations, Located
<1> QED BY <1>2, <1>3, <1>4 DEF Placement, Located

\* A repair recorded for the current authority is well formed.
LEMMA CopyTyped ==
  ASSUME auth \in AuthorityType, NEW kind \in {"REPLICA", "PLACEMENT", "DELETE"},
         NEW source \in Located, NEW target \in Backends,
         NEW role \in {"primary", "replica", "cleanup"}, NEW version \in Nat, NEW plan \in Placement
  PROVE  /\ CopyOf(kind, source, target, role, version, plan) \in RepairType
         /\ CopyOf(kind, source, target, role, version, plan).state = "PENDING"
         /\ CopyOf(kind, source, target, role, version, plan).kind = kind
         /\ CopyOf(kind, source, target, role, version, plan).target = target
         /\ CopyOf(kind, source, target, role, version, plan).role = role
         /\ CopyOf(kind, source, target, role, version, plan).generation = auth.generation
         /\ CopyOf(kind, source, target, role, version, plan).cas = auth.cas
BY DEF CopyOf, RepairType, AuthorityType, Located

\* A placement repair recorded for the current authority is behind it.
LEMMA PlacementTyped ==
  ASSUME auth \in AuthorityType, NEW source \in Located, NEW target \in Backends,
         NEW role \in {"primary", "replica"}, NEW version \in Nat, NEW plan \in Placement
  PROVE  LET new == CopyOf("PLACEMENT", source, target, role, version, plan) IN
         /\ new \in RepairType /\ new.state = "PENDING" /\ new.kind = "PLACEMENT"
         /\ Behind(auth, new)
<1> DEFINE new == CopyOf("PLACEMENT", source, target, role, version, plan)
<1>1. /\ new \in RepairType /\ new.state = "PENDING" /\ new.kind = "PLACEMENT"
      /\ new.generation = auth.generation /\ new.cas = auth.cas
  BY CopyTyped
<1> HIDE DEF new
<1>2. Behind(auth, new)
  BY <1>1 DEF Behind, AuthorityType
<1> QED BY <1>1, <1>2 DEF new

\* A read or a reconciliation records a copy repair (enqueue): the invariant holds on.
LEMMA EnqueueKeeps ==
  ASSUME RepairInv, NEW r, r \in RepairType, r.state = "PENDING", r.kind # "DELETE", Behind(auth, r),
         repairs' = InsertRepairs(repairs, {r}), placed' = placed,
         auth' = auth, stored' = stored, rows' = rows, scenario' = scenario, worker' = worker
  PROVE  RepairInv'
<1> DEFINE out == InsertRepairs(repairs, {r})
<1>1. /\ DOMAIN out = DOMAIN repairs \cup {Key(s) : s \in {r}}
      /\ Sound(auth, out) /\ Kept(repairs, out)
  BY InsertKeeps DEF RepairInv, Fresh
<1> HIDE DEF out
<1>2. Spared(auth, out)
  <2>1. \A k \in DOMAIN out : k[1] = "DELETE" => k \in DOMAIN repairs
    BY <1>1 DEF Key
  <2> QED BY <1>1, <2>1 DEF RepairInv, Spared, Kept
<1>3. \A w \in Workers : Claimed(auth, out, w, worker[w])
  BY <1>1, ClaimsKept DEF RepairInv
<1>4. Accounted(auth, out, rows)
  BY <1>1, CoveredKept DEF RepairInv, Accounted
<1> QED BY <1>1, <1>2, <1>3, <1>4 DEF RepairInv, out, Plan

\* The repairs a read asks for (enqueue_read_repairs) keep the invariant.
LEMMA ReadRepairKeeps ==
  ASSUME RepairInv, auth.live, NEW source \in Located, NEW failed, EnqueueReadRepairs(source, failed),
         UNCHANGED <<scenario, versioned, made, auth, placed, stored, rows, worker, faults>>
  PROVE  RepairInv'
<1> DEFINE plan == Plan[placed]
           copied == CopyOf("REPLICA", source, auth.primary, "primary", auth.version, Plan[1])
           first == CopyOf("PLACEMENT", source, plan.primary, "primary", placed, plan)
           second == CopyOf("PLACEMENT", source, plan.replica, "replica", placed, plan)
<1>1. /\ plan \in Placement /\ Plan[1] \in Placement /\ placed \in Nat
      /\ plan.primary \in Backends /\ plan.replica \in Located
  BY PlacedAt
<1>2. auth \in AuthorityType /\ auth.primary \in Backends /\ auth.version \in Nat
  BY DEF RepairInv, Named, AuthorityType
<1>3. CASE Enqueue(copied)
  <2>1. /\ copied \in RepairType /\ copied.state = "PENDING" /\ copied.kind = "REPLICA"
        /\ copied.target = auth.primary /\ copied.role = "primary"
        /\ copied.generation = auth.generation /\ copied.cas = auth.cas
    <3> HIDE DEF plan
    <3> QED BY <1>1, <1>2, CopyTyped
  <2> HIDE DEF copied
  <2>2. Behind(auth, copied)
    BY <1>2, <2>1 DEF Behind, AuthorityType
  <2> QED BY <1>3, <2>1, <2>2, EnqueueKeeps DEF Enqueue
<1>4. CASE Enqueue(first)
  <2>1. /\ first \in RepairType /\ first.state = "PENDING" /\ first.kind = "PLACEMENT"
        /\ Behind(auth, first)
    <3> HIDE DEF plan
    <3> QED BY <1>1, <1>2, PlacementTyped
  <2> HIDE DEF first
  <2> QED BY <1>4, <2>1, EnqueueKeeps DEF Enqueue
<1>5. CASE plan.replica # NoBackend /\ Enqueue(second)
  <2>1. /\ second \in RepairType /\ second.state = "PENDING" /\ second.kind = "PLACEMENT"
        /\ Behind(auth, second)
    <3>1. plan.replica \in Backends
      BY <1>1, <1>5 DEF Located
    <3> HIDE DEF plan
    <3> QED BY <1>1, <1>2, <3>1, PlacementTyped
  <2> HIDE DEF second
  <2> QED BY <1>5, <2>1, EnqueueKeeps DEF Enqueue
<1> QED BY <1>3, <1>4, <1>5 DEF EnqueueReadRepairs

\* An authoritative read keeps the invariant.
LEMMA OpenKeeps == RepairInv /\ OpenAuthoritative => RepairInv'
<1> SUFFICES ASSUME RepairInv, OpenAuthoritative
             PROVE  RepairInv'
  OBVIOUS
<1>1. auth.primary \in Located /\ auth.replica \in Located
  BY DEF RepairInv, AuthorityType
<1>2. Locations(Plan[placed]) \subseteq Located
  BY PlacedAt DEF Locations, Located
<1>3. PICK source \in Located, failed \in {TRUE, FALSE} : EnqueueReadRepairs(source, failed)
  BY <1>1, <1>2 DEF OpenAuthoritative
<1> QED BY <1>3, ReadRepairKeeps DEF OpenAuthoritative

\* The authority at a higher placement version is an authority.
LEMMA AdvancedTyped ==
  ASSUME NEW a \in AuthorityType, NEW version \in Nat, NEW cas \in Nat
  PROVE  [a EXCEPT !.version = version, !.cas = cas] \in AuthorityType
BY DEF AuthorityType

\* A bare advance of the placement version moves no copy.
LEMMA AdvanceKeeps ==
  ASSUME RepairInv, AdvancePlacementVersion,
         UNCHANGED <<scenario, versioned, made, placed, stored, rows, worker, faults>>
  PROVE  RepairInv'
<1> DEFINE new == [auth EXCEPT !.version = placed, !.cas = @ + 1]
<1>1. auth \in AuthorityType /\ placed \in Nat
  BY PlacedAt DEF RepairInv
<1>2. /\ new \in AuthorityType /\ new.cas = auth.cas + 1 /\ new.generation = auth.generation
      /\ new.primary = auth.primary /\ new.replica = auth.replica /\ new.live = auth.live
      /\ new.primaryStatus = auth.primaryStatus /\ new.replicaStatus = auth.replicaStatus
  <2>1. new.cas = auth.cas + 1 /\ new.version = placed
    BY <1>1 DEF AuthorityType
  <2>2. /\ new.generation = auth.generation
        /\ new.primary = auth.primary /\ new.replica = auth.replica /\ new.live = auth.live
        /\ new.primaryStatus = auth.primaryStatus /\ new.replicaStatus = auth.replicaStatus
    BY <1>1 DEF AuthorityType
  <2>3. auth.cas + 1 \in Nat
    BY <1>1 DEF AuthorityType
  <2>4. new \in AuthorityType
    BY <1>1, <2>3, AdvancedTyped
  <2> QED BY <2>1, <2>2, <2>4
<1>3. auth' = new /\ repairs' = repairs
  BY DEF AdvancePlacementVersion
<1> HIDE DEF new
<1>4. \A r \in RepairType : Behind(auth, r) => Behind(new, r)
  <2>1. new.cas \in Nat /\ auth.cas \in Nat /\ new.generation \in Nat
    BY <1>1, <1>2 DEF AuthorityType
  <2> QED BY <1>1, <1>2, <2>1, BehindMoves
<1>5. \A g, b : Serving(new, g, b) <=> Serving(auth, g, b)
  BY <1>2 DEF Serving, Locations
<1>6. Sound(new, repairs)
  BY <1>4 DEF RepairInv, Sound
<1>7. Spared(new, repairs)
  BY <1>5 DEF RepairInv, Spared
<1>8. \A w \in Workers : Claimed(new, repairs, w, worker[w])
  <2> SUFFICES ASSUME NEW w \in Workers
               PROVE  Claimed(new, repairs, w, worker[w])
    OBVIOUS
  <2>1. LET k == Key(worker[w].repair) IN worker[w] # NoClaim => k \in DOMAIN repairs /\ repairs[k] = repairs[k]
    BY DEF RepairInv, Claimed
  <2> QED BY <1>4, <2>1, ClaimStays DEF RepairInv
<1>9. Accounted(new, repairs, rows)
  BY <1>5 DEF RepairInv, Accounted
<1>10. Ready(new, stored) /\ Named(new)
  BY <1>2 DEF RepairInv, Ready, Named
<1> QED BY <1>2, <1>3, <1>6, <1>7, <1>8, <1>9, <1>10 DEF RepairInv, Plan

\* A reconciliation of the placement keeps the invariant.
LEMMA ReconcileKeeps == RepairInv /\ ReconcileAuthorityPlacement => RepairInv'
<1> SUFFICES ASSUME RepairInv, ReconcileAuthorityPlacement
             PROVE  RepairInv'
  OBVIOUS
<1> DEFINE plan == Plan[placed]
           first == CopyOf("PLACEMENT", auth.primary, plan.primary, "primary", placed, plan)
           second == CopyOf("PLACEMENT", auth.primary, plan.replica, "replica", placed, plan)
<1>1. /\ plan \in Placement /\ placed \in Nat
      /\ plan.primary \in Backends /\ plan.replica \in Located
  BY PlacedAt
<1>2. auth \in AuthorityType /\ auth.primary \in Located
  BY DEF RepairInv, AuthorityType
<1>3. UNCHANGED <<scenario, versioned, made, placed, stored, rows, worker, faults>>
  BY DEF ReconcileAuthorityPlacement
<1>4. CASE AdvancePlacementVersion
  BY <1>3, <1>4, AdvanceKeeps
<1>5. CASE Enqueue(first) /\ auth' = auth
  <2>1. /\ first \in RepairType /\ first.state = "PENDING" /\ first.kind = "PLACEMENT"
        /\ Behind(auth, first)
    <3> HIDE DEF plan
    <3> QED BY <1>1, <1>2, PlacementTyped
  <2> HIDE DEF first
  <2> QED BY <1>3, <1>5, <2>1, EnqueueKeeps DEF Enqueue
<1>6. CASE plan.replica # NoBackend /\ Enqueue(second) /\ auth' = auth
  <2>1. /\ second \in RepairType /\ second.state = "PENDING" /\ second.kind = "PLACEMENT"
        /\ Behind(auth, second)
    <3>1. plan.replica \in Backends
      BY <1>1, <1>6 DEF Located
    <3> HIDE DEF plan
    <3> QED BY <1>1, <1>2, <3>1, PlacementTyped
  <2> HIDE DEF second
  <2> QED BY <1>3, <1>6, <2>1, EnqueueKeeps DEF Enqueue
<1> QED BY <1>4, <1>5, <1>6 DEF ReconcileAuthorityPlacement

\* A new placement policy touches no object.
LEMMA PolicyKeeps == RepairInv /\ RecordPlacementPolicy => RepairInv'
BY DEF RepairInv, RecordPlacementPolicy, Plan

\* The cleanups of a superseded authority name each of its locations.
LEMMA CleanupFresh ==
  ASSUME RepairInv, NEW a \in AuthorityType, auth.generation <= a.generation, auth.cas <= a.cas
  PROVE  /\ Fresh(a, CleanupRepairs(auth))
         /\ \A r \in CleanupRepairs(auth) : r.kind = "DELETE" /\ Key(r) \in {<<"DELETE", auth.generation, b>> : b \in Locations(auth)}
         /\ \A b \in Locations(auth) : \E r \in CleanupRepairs(auth) : Key(r) = <<"DELETE", auth.generation, b>>
<1> DEFINE Cleanup(b) == [CopyOf("DELETE", NoBackend, b, "cleanup", auth.version, Plan[1])
                            EXCEPT !.generation = auth.generation, !.cas = auth.cas]
<1>1. ASSUME NEW b \in Locations(auth)
      PROVE  /\ Cleanup(b) \in RepairType /\ Cleanup(b).state = "PENDING"
             /\ Cleanup(b).kind = "DELETE" /\ Cleanup(b).target = b
             /\ Cleanup(b).generation = auth.generation /\ Cleanup(b).cas = auth.cas
  <2>1. b \in Backends /\ Plan[1] \in Placement /\ auth \in AuthorityType
    BY PlacedAt DEF RepairInv
  <2>2. NoBackend \in Located /\ auth.version \in Nat /\ auth.generation \in Nat /\ auth.cas \in Nat
    BY <2>1 DEF Located, AuthorityType
  <2> DEFINE copy == CopyOf("DELETE", NoBackend, b, "cleanup", auth.version, Plan[1])
  <2>3. /\ copy \in RepairType /\ copy.state = "PENDING" /\ copy.kind = "DELETE"
        /\ copy.target = b
    BY <2>1, <2>2, CopyTyped
  <2> HIDE DEF copy
  <2>4. LET other == [copy EXCEPT !.generation = auth.generation, !.cas = auth.cas] IN
        /\ other \in RepairType /\ other.state = copy.state /\ other.kind = copy.kind
        /\ other.target = copy.target /\ other.role = copy.role
        /\ other.generation = auth.generation /\ other.cas = auth.cas
    BY <2>2, <2>3 DEF RepairType
  <2> QED BY <2>3, <2>4 DEF copy
<1>2. CleanupRepairs(auth) = {Cleanup(b) : b \in Locations(auth)}
  BY DEF CleanupRepairs
<1> HIDE DEF Cleanup
<1>3. \A b \in Locations(auth) : Key(Cleanup(b)) = <<"DELETE", auth.generation, b>>
  BY <1>1 DEF Key
<1>4. \A b \in Locations(auth) : Behind(a, Cleanup(b))
  BY <1>1 DEF Behind
<1> QED BY <1>1, <1>2, <1>3, <1>4 DEF Fresh

\* A tombstoned authority is an authority.
LEMMA TombstoneTyped ==
  ASSUME NEW a \in AuthorityType, NEW cas \in Nat
  PROVE  LET new == [a EXCEPT !.live = FALSE, !.cas = cas, !.vid = <<>>] IN
         /\ new \in AuthorityType /\ new.cas = cas /\ ~new.live
         /\ new.generation = a.generation /\ new.replica = a.replica
         /\ new.replicaStatus = a.replicaStatus
<1>1. <<>> \in VersionIds
  BY DEF VersionIds
<1> QED BY <1>1 DEF AuthorityType

\* A deleted object's copies are each left to a cleanup.
LEMMA TombstoneKeepsCopies == RepairInv /\ Tombstone => RepairInv'
<1> SUFFICES ASSUME RepairInv, Tombstone
             PROVE  RepairInv'
  OBVIOUS
<1> DEFINE cas == auth.cas + 1
           new == [auth EXCEPT !.live = FALSE, !.cas = cas, !.vid = <<>>]
           out == InsertRepairs(repairs, CleanupRepairs(auth))
<1>1. auth \in AuthorityType /\ auth.cas \in Nat /\ cas \in Nat /\ auth.generation \in Nat
  BY DEF RepairInv, AuthorityType
<1>2. auth' = new /\ repairs' = out
  BY DEF Tombstone
<1>3. /\ new \in AuthorityType /\ new.cas = cas /\ ~new.live
      /\ new.generation = auth.generation /\ new.replica = auth.replica
      /\ new.replicaStatus = auth.replicaStatus
  <2> HIDE DEF cas
  <2> QED BY <1>1, TombstoneTyped
<1> HIDE DEF new
<1>4. \A r \in RepairType : Behind(auth, r) => Behind(new, r)
  BY <1>1, <1>3, BehindMoves
<1>5. Sound(new, repairs)
  BY <1>4 DEF RepairInv, Sound
<1>6. /\ Fresh(new, CleanupRepairs(auth))
      /\ \A b \in Locations(auth) :
           \E r \in CleanupRepairs(auth) : Key(r) = <<"DELETE", auth.generation, b>>
  BY <1>1, <1>3, CleanupFresh
<1>7. /\ Sound(new, out) /\ Kept(repairs, out)
      /\ \A r \in CleanupRepairs(auth) : Key(r) \in DOMAIN out /\ out[Key(r)].state # "DONE"
  <2> DEFINE added == CleanupRepairs(auth)
  <2> HIDE DEF added
  <2>1. Fresh(new, added)
    BY <1>6 DEF added
  <2>2. LET o == InsertRepairs(repairs, added) IN
        /\ Sound(new, o) /\ Kept(repairs, o)
        /\ \A r \in added : Key(r) \in DOMAIN o /\ o[Key(r)].state # "DONE"
    BY <1>5, <2>1, InsertKeeps
  <2> QED BY <2>2 DEF added
<1> HIDE DEF out
<1>8. Spared(new, out) /\ Ready(new, stored) /\ Named(new)
  BY <1>3 DEF Spared, Serving, Ready, Named, RepairInv
<1>9. \A w \in Workers : Claimed(new, out, w, worker[w])
  BY <1>4, <1>7, ClaimsKept DEF RepairInv
<1>10. ASSUME NEW c \in rows
       PROVE  Covered(out, c)
  <2>1. CASE Serving(auth, c[2], c[1])
    <3>1. PICK r \in CleanupRepairs(auth) : Key(r) = <<"DELETE", c[2], c[1]>>
      BY <1>6, <2>1 DEF Serving
    <3> QED BY <1>7, <3>1 DEF Covered
  <2>2. CASE Covered(repairs, c)
    BY <1>7, <2>2, CoveredKept
  <2> QED BY <2>1, <2>2 DEF RepairInv, Accounted
<1>11. Accounted(new, out, rows)
  BY <1>10 DEF Accounted
<1> QED BY <1>2, <1>3, <1>7, <1>8, <1>9, <1>11 DEF RepairInv, Tombstone, Plan

\* The replica of a new generation is left to a repair that aims at it.
LEMMA PublicationFresh ==
  ASSUME RepairInv, NEW a \in AuthorityType, a.primary \in Backends, a.replicaStatus = "PENDING" => a.replica \in Backends
  PROVE  Fresh(a, PublicationRepairs(a)) /\ \A r \in PublicationRepairs(a) : Key(r)[1] = "REPLICA"
<1>1. CASE a.replicaStatus # "PENDING"
  BY <1>1 DEF PublicationRepairs, Fresh
<1>2. CASE a.replicaStatus = "PENDING"
  <2> DEFINE copy == CopyOf("REPLICA", a.primary, a.replica, "replica", a.version, Plan[1])
             new == [copy EXCEPT !.generation = a.generation, !.cas = a.cas]
  <2>1. a.generation \in Nat /\ a.cas \in Nat /\ a.version \in Nat /\ a.primary \in Located
    BY DEF AuthorityType
  <2>2. Plan[1] \in Placement /\ auth \in AuthorityType /\ a.replica \in Backends
    BY <1>2, PlacedAt DEF RepairInv
  <2>3. /\ copy \in RepairType /\ copy.state = "PENDING" /\ copy.kind = "REPLICA"
        /\ copy.target = a.replica /\ copy.role = "replica"
    BY <2>1, <2>2, CopyTyped
  <2>4. PublicationRepairs(a) = {new}
    BY <1>2 DEF PublicationRepairs
  <2> HIDE DEF copy
  <2>5. /\ new \in RepairType /\ new.state = "PENDING" /\ new.kind = "REPLICA"
        /\ new.target = a.replica /\ new.role = "replica" /\ new.generation = a.generation
        /\ new.cas = a.cas
    BY <2>1, <2>3 DEF RepairType
  <2> HIDE DEF new
  <2>6. Behind(a, new) /\ Key(new)[1] = "REPLICA"
    BY <2>1, <2>5 DEF Behind, Key
  <2> QED BY <2>4, <2>5, <2>6 DEF Fresh
<1> QED BY <1>1, <1>2

\* A published authority, field by field.
LEMMA PublishedTyped ==
  ASSUME NEW g \in Nat, NEW p \in Backends, NEW q \in Located, NEW s \in CopyStatus, NEW v \in Nat,
         NEW cas \in Nat, NEW id \in VersionIds
  PROVE  [generation |-> g, primary |-> p, replica |-> q, primaryStatus |-> "READY",
          replicaStatus |-> s, version |-> v, cas |-> cas, live |-> TRUE, vid |-> id] \in AuthorityType
BY DEF AuthorityType, Located, CopyStatus

\* A published generation is stored at its primary, and the copies it replaces
\* are each left to a cleanup.
LEMMA PublishKeeps == RepairInv /\ Publish => RepairInv'
<1> SUFFICES ASSUME RepairInv, Publish
             PROVE  RepairInv'
  OBVIOUS
<1> DEFINE p == Plan[placed].primary
           q == Plan[placed].replica
           g == auth.generation + 1
           waits == IF q = NoBackend THEN "ABSENT" ELSE "PENDING"
           New(d) == [generation |-> g, primary |-> d[1], replica |-> q, primaryStatus |-> "READY",
                      replicaStatus |-> waits, version |-> placed, cas |-> auth.cas + 1,
                      live |-> TRUE, vid |-> IF versioned THEN d ELSE <<>>]
           Added(a) == PublicationRepairs(a) \cup (IF auth.live THEN CleanupRepairs(auth) ELSE {})
<1>1. PICK c \in {<<p, g, v>> : v \in 0..MaxCopies} :
        /\ Stores(c[1], c[2], c)
        /\ auth' = New(c)
        /\ repairs' = InsertRepairs(repairs, Added(New(c)))
  BY DEF Publish
<1> DEFINE new == New(c)
           out == InsertRepairs(repairs, Added(new))
<1>2. UNCHANGED <<scenario, versioned, placed, worker, faults>>
  BY DEF Publish
<1>3. /\ auth \in AuthorityType /\ auth.cas \in Nat /\ auth.generation \in Nat
      /\ p \in Backends /\ q \in Located /\ placed \in Nat
      /\ g \in Nat /\ auth.cas + 1 \in Nat
  BY PlacedAt DEF RepairInv, AuthorityType
<1>4. c \in Copies /\ c[1] = p /\ c[2] = g
  <2>1. PICK v \in 0..MaxCopies : c = <<p, g, v>>
    OBVIOUS
  <2> QED BY <1>3, <2>1 DEF Copies
<1>5. /\ new \in AuthorityType /\ new.cas = auth.cas + 1 /\ new.generation = g /\ new.live
      /\ new.primary = p /\ new.replica = q /\ new.replicaStatus = waits
  <2>1. (IF versioned THEN c ELSE <<>>) \in VersionIds
    BY <1>4 DEF VersionIds
  <2>2. waits \in CopyStatus
    BY DEF CopyStatus
  <2>3. new \in AuthorityType
    <3> HIDE DEF p, q, g, waits
    <3> QED BY <1>3, <1>4, <2>1, <2>2, PublishedTyped
  <2> QED BY <1>4, <2>3
<1>6. waits # "READY" /\ (waits = "PENDING" => q \in Backends)
  BY <1>3 DEF Located
<1> HIDE DEF New, p, q, waits
<1>7. \A r \in RepairType : Behind(auth, r) => Behind(new, r)
  BY <1>3, <1>5, BehindMoves
<1>8. Sound(new, repairs)
  BY <1>7 DEF RepairInv, Sound
<1>9. /\ Fresh(new, CleanupRepairs(auth))
      /\ \A r \in CleanupRepairs(auth) :
           Key(r) \in {<<"DELETE", auth.generation, b>> : b \in Locations(auth)}
      /\ \A b \in Locations(auth) :
           \E r \in CleanupRepairs(auth) : Key(r) = <<"DELETE", auth.generation, b>>
  BY <1>3, <1>5, CleanupFresh
<1>10. Fresh(new, PublicationRepairs(new)) /\ \A r \in PublicationRepairs(new) : Key(r)[1] = "REPLICA"
  BY <1>3, <1>5, <1>6, PublicationFresh
<1> HIDE DEF new
<1>11. Fresh(new, Added(new))
  BY <1>9, <1>10 DEF Fresh
<1>12. /\ DOMAIN out = DOMAIN repairs \cup {Key(r) : r \in Added(new)}
       /\ Sound(new, out) /\ Kept(repairs, out)
       /\ \A r \in Added(new) : Key(r) \in DOMAIN out /\ out[Key(r)].state # "DONE"
  <2> HIDE DEF Added
  <2> QED BY <1>8, <1>11, InsertKeeps
<1> HIDE DEF out
<1>13. Spared(new, out)
  <2> SUFFICES ASSUME NEW k \in DOMAIN out, k[1] = "DELETE"
               PROVE  k[2] # g
    BY <1>5 DEF Spared, Serving
  <2>1. CASE k \in DOMAIN repairs
    <3>1. /\ repairs[k] \in RepairType /\ Key(repairs[k]) = k
          /\ repairs[k].generation <= auth.generation
      BY <2>1 DEF RepairInv, Sound, Behind
    <3>2. k[2] = repairs[k].generation
      BY <3>1 DEF Key
    <3>3. repairs[k].generation \in Nat
      BY <3>1 DEF RepairType
    <3> QED BY <1>3, <3>1, <3>2, <3>3
  <2>2. CASE k \notin DOMAIN repairs
    <3>1. PICK r \in Added(new) : k = Key(r)
      BY <1>12, <2>2
    <3>2. r \in CleanupRepairs(auth)
      BY <1>10, <3>1
    <3>3. k[2] = auth.generation
      BY <1>9, <3>1, <3>2
    <3> QED BY <1>3, <3>3
  <2> QED BY <2>1, <2>2
<1>14. \A w \in Workers : Claimed(new, out, w, worker[w])
  BY <1>7, <1>12, ClaimsKept DEF RepairInv
<1>15. Ready(new, stored \cup {c}) /\ Named(new)
  <2>1. c \in At(stored \cup {c}, p, g)
    BY <1>4 DEF At
  <2> QED BY <1>3, <1>5, <1>6, <2>1 DEF Ready, Named
<1>16. ASSUME NEW d \in rows
       PROVE  Covered(out, d)
  <2>1. CASE Serving(auth, d[2], d[1])
    <3>1. auth.live /\ d[1] \in Locations(auth) /\ auth.generation = d[2]
      BY <2>1 DEF Serving
    <3>2. PICK r \in CleanupRepairs(auth) : Key(r) = <<"DELETE", d[2], d[1]>>
      BY <1>9, <3>1
    <3>3. r \in Added(new)
      BY <3>1, <3>2
    <3> QED BY <1>12, <3>2, <3>3 DEF Covered
  <2>2. CASE Covered(repairs, d)
    BY <1>12, <2>2, CoveredKept
  <2> QED BY <2>1, <2>2 DEF RepairInv, Accounted
<1>17. Serving(new, c[2], c[1])
  <2>1. c[1] = p /\ c[2] = g /\ p # NoBackend
    BY <1>3, <1>4, RepairAssumption
  <2> QED BY <1>5, <2>1 DEF Serving, Locations
<1>18. Accounted(new, out, rows \cup {c})
  BY <1>16, <1>17 DEF Accounted
<1>19. stored' = stored \cup {c} /\ rows' = rows \cup {c} /\ auth' = new /\ repairs' = out
  BY <1>1 DEF new, out, Stores
<1> QED BY <1>2, <1>4, <1>5, <1>12, <1>13, <1>14, <1>15, <1>18, <1>19 DEF RepairInv, Plan

\* A worker that moves on within its claim, everything else as it was.
LEMMA WorkerMoves ==
  ASSUME RepairInv, NEW w \in Workers, NEW claim, worker' = [worker EXCEPT ![w] = claim],
         Claimed(auth, repairs, w, claim), auth' = auth, repairs' = repairs, stored' = stored,
         rows' = rows, scenario' = scenario, placed' = placed
  PROVE  RepairInv'
<1>1. DOMAIN worker' = Workers
  BY DEF RepairInv
<1>2. \A v \in Workers : Claimed(auth', repairs', v, worker'[v])
  BY DEF RepairInv
<1> QED BY <1>1, <1>2 DEF RepairInv, Plan

\* The next step of a claim is a claim when it is one its kind of repair takes.
LEMMA ClaimMoves ==
  ASSUME NEW a, NEW table, NEW w, NEW claim, claim # NoClaim, Claimed(a, table, w, claim),
         NEW next \in ClaimType, next.repair = claim.repair,
         next.at = "read" => claim.repair.kind # "DELETE",
         next.at \in {"checked", "deleting"} => claim.repair.kind = "DELETE",
         \A c \in next.targets : c[1] = claim.repair.target /\ c[2] = claim.repair.generation
  PROVE  Claimed(a, table, w, next)
BY DEF Claimed

\* A running worker has a claim, with the facts of Claimed.
LEMMA Running ==
  ASSUME RepairInv, NEW w \in Workers, worker[w] # NoClaim
  PROVE  /\ worker[w] \in ClaimType /\ worker[w].repair \in RepairType
         /\ Claimed(auth, repairs, w, worker[w])
         /\ Key(worker[w].repair) \in DOMAIN repairs
         /\ repairs[Key(worker[w].repair)].state = "LEASED"
         /\ repairs[Key(worker[w].repair)].token = w
         /\ ~repairs[Key(worker[w].repair)].expired
         /\ worker[w].repair.token = w /\ Behind(auth, worker[w].repair)
BY DEF RepairInv, Claimed, ClaimType

\* The targets a claim already has are the repair's.
LEMMA TargetsStay ==
  ASSUME NEW a, NEW table, NEW w, NEW claim, claim # NoClaim, Claimed(a, table, w, claim)
  PROVE  \A c \in claim.targets : c[1] = claim.repair.target /\ c[2] = claim.repair.generation
BY DEF Claimed

\* A step to another point of the execution (Moves) that the kind of repair takes.
LEMMA MovesKeeps ==
  ASSUME RepairInv, NEW w \in Workers, worker[w] # NoClaim,
         NEW at \in {"claimed", "read", "checked", "deleting", "executed"}, Moves(w, at),
         at = "read" => worker[w].repair.kind # "DELETE",
         at \in {"checked", "deleting"} => worker[w].repair.kind = "DELETE",
         auth' = auth, repairs' = repairs, stored' = stored, rows' = rows, scenario' = scenario,
         placed' = placed
  PROVE  RepairInv'
<1> DEFINE claim == worker[w]
           next == [claim EXCEPT !.at = at]
<1>1. claim \in ClaimType /\ Claimed(auth, repairs, w, claim)
  BY Running
<1>2. worker' = [worker EXCEPT ![w] = next]
  BY DEF Moves
<1> HIDE DEF claim
<1>3. next \in ClaimType /\ next.repair = claim.repair /\ next.at = at /\ next.targets = claim.targets
  BY <1>1 DEF ClaimType
<1>4. claim # NoClaim /\ (at = "read" => claim.repair.kind # "DELETE")
      /\ (at \in {"checked", "deleting"} => claim.repair.kind = "DELETE")
  BY DEF claim
<1> HIDE DEF next
<1>5. Claimed(auth, repairs, w, next)
  BY <1>1, <1>3, <1>4, ClaimMoves, TargetsStay
<1> QED BY <1>2, <1>5, WorkerMoves

\* A failed execution (Fails) is left for fail_repair.
LEMMA FailsKeeps ==
  ASSUME RepairInv, NEW w \in Workers, worker[w] # NoClaim, Fails(w),
         auth' = auth, repairs' = repairs, stored' = stored, rows' = rows, scenario' = scenario,
         placed' = placed
  PROVE  RepairInv'
<1> DEFINE claim == worker[w]
           next == [claim EXCEPT !.at = "executed", !.ok = FALSE]
<1>1. claim \in ClaimType /\ Claimed(auth, repairs, w, claim)
  BY Running
<1>2. worker' = [worker EXCEPT ![w] = next]
  BY DEF Fails
<1>3. claim # NoClaim
  OBVIOUS
<1> HIDE DEF claim
<1>4. next \in ClaimType /\ next.repair = claim.repair /\ next.at = "executed" /\ next.targets = claim.targets
  BY <1>1 DEF ClaimType
<1> HIDE DEF next
<1>5. Claimed(auth, repairs, w, next)
  BY <1>1, <1>3, <1>4, ClaimMoves, TargetsStay
<1> QED BY <1>2, <1>5, WorkerMoves

\* Reading the source, the check before a cleanup, the listing of the versions
\* and a failing execution keep the invariant.
LEMMA ReadKeeps == ASSUME RepairInv, NEW w \in Workers, ReadSource(w) PROVE RepairInv'
<1>1. worker[w] # NoClaim
  BY DEF ReadSource, NoClaim
<1>2. CASE Moves(w, "read")
  BY <1>1, <1>2, MovesKeeps DEF ReadSource
<1>3. CASE Fails(w)
  BY <1>1, <1>3, FailsKeeps DEF ReadSource
<1> QED BY <1>2, <1>3 DEF ReadSource

\* The check that a cleanup's target is not authoritative.
LEMMA CheckKeeps == ASSUME RepairInv, NEW w \in Workers, CheckCleanup(w) PROVE RepairInv'
<1>1. worker[w] # NoClaim
  BY DEF CheckCleanup, NoClaim
<1>2. CASE Moves(w, "checked")
  BY <1>1, <1>2, MovesKeeps DEF CheckCleanup
<1>3. CASE Fails(w)
  BY <1>1, <1>3, FailsKeeps DEF CheckCleanup
<1> QED BY <1>2, <1>3 DEF CheckCleanup

\* An execution that fails.
LEMMA ExecuteFailsKeeps == ASSUME RepairInv, NEW w \in Workers, ExecuteFails(w) PROVE RepairInv'
<1>1. worker[w] # NoClaim
  BY DEF ExecuteFails, NoClaim
<1> QED BY <1>1, FailsKeeps DEF ExecuteFails

\* The listing names versions of the repair's target and generation only.
LEMMA ListKeeps == ASSUME RepairInv, NEW w \in Workers, ListPhysicalVersions(w) PROVE RepairInv'
<1> DEFINE claim == worker[w]
           listed == At(rows, claim.repair.target, claim.repair.generation)
           at == IF listed = {} THEN "executed" ELSE "deleting"
           ok == listed # {}
           next == [claim EXCEPT !.targets = listed, !.at = at, !.ok = ok]
<1>1. claim # NoClaim /\ claim.at = "checked"
  <2>1. worker[w].at = "checked"
    BY DEF ListPhysicalVersions
  <2> QED BY <2>1 DEF NoClaim
<1>2. claim \in ClaimType /\ Claimed(auth, repairs, w, claim)
  BY <1>1, Running
<1>3. worker' = [worker EXCEPT ![w] = next]
  BY DEF ListPhysicalVersions
<1>4. at \in {"claimed", "read", "checked", "deleting", "executed"} /\ at # "read" /\ ok \in BOOLEAN
  OBVIOUS
<1>5. listed \in SUBSET Copies /\ \A c \in listed : c[1] = claim.repair.target /\ c[2] = claim.repair.generation
  BY DEF RepairInv, At
<1> HIDE DEF claim, listed, at, ok
<1>6. next \in ClaimType /\ next.repair = claim.repair /\ next.at = at /\ next.targets = listed
  BY <1>2, <1>4, <1>5 DEF ClaimType
<1>7. claim.repair.kind = "DELETE"
  BY <1>1, <1>2 DEF Claimed
<1> HIDE DEF next
<1>8. Claimed(auth, repairs, w, next)
  BY <1>1, <1>2, <1>4, <1>5, <1>6, <1>7, ClaimMoves
<1> QED BY <1>3, <1>8, WorkerMoves DEF ListPhysicalVersions

\* A worker that dies leaves its lease in the table.
LEMMA DiesKeeps == ASSUME RepairInv, NEW w \in Workers, WorkerDies(w) PROVE RepairInv'
<1>1. Claimed(auth, repairs, w, NoClaim)
  BY DEF Claimed
<1> QED BY <1>1, WorkerMoves DEF WorkerDies

\* A copy written for a leased repair is covered by that repair.
LEMMA WriteKeeps == ASSUME RepairInv, NEW w \in Workers, WriteTarget(w) PROVE RepairInv'
<1> DEFINE r == worker[w].repair
           next == [worker[w] EXCEPT !.at = "executed"]
<1>1. PICK v \in 0..MaxCopies : Stores(r.target, r.generation, <<r.target, r.generation, v>>)
  BY DEF WriteTarget
<1> DEFINE c == <<r.target, r.generation, v>>
<1>2. worker[w] # NoClaim
  BY DEF WriteTarget, NoClaim
<1>3. /\ worker[w] \in ClaimType /\ r \in RepairType /\ Claimed(auth, repairs, w, worker[w])
      /\ Key(r) \in DOMAIN repairs /\ repairs[Key(r)].state = "LEASED"
  BY <1>2, Running
<1>4. /\ stored' = stored \cup {c} /\ rows' = rows \cup {c}
      /\ worker' = [worker EXCEPT ![w] = next]
      /\ auth' = auth /\ repairs' = repairs /\ scenario' = scenario /\ placed' = placed
  BY <1>1 DEF WriteTarget, Stores, Moves
<1>5. c \in Copies /\ Covered(repairs, c)
  <2>1. c \in Copies
    BY <1>3 DEF Copies, RepairType
  <2>2. Key(r)[2] = c[2] /\ Key(r)[3] = c[1]
    BY DEF Key
  <2> HIDE DEF c, r
  <2>3. Covered(repairs, c)
    BY <1>3, <2>2 DEF Covered
  <2> QED BY <2>1, <2>3
<1>6. Claimed(auth, repairs, w, next)
  <2>1. next \in ClaimType /\ next.repair = r /\ next.at = "executed" /\ next.targets = worker[w].targets
    BY <1>3 DEF ClaimType
  <2> HIDE DEF next
  <2> QED BY <1>2, <1>3, <2>1, ClaimMoves, TargetsStay
<1> HIDE DEF c, next, r
<1>7. Accounted(auth, repairs, rows \cup {c})
  BY <1>5 DEF RepairInv, Accounted
<1>8. Ready(auth, stored \cup {c})
  BY DEF RepairInv, Ready, At
<1>9. DOMAIN worker' = Workers /\ \A x \in Workers : Claimed(auth, repairs, x, worker'[x])
  BY <1>4, <1>6 DEF RepairInv
<1> QED BY <1>4, <1>5, <1>7, <1>8, <1>9 DEF RepairInv, Plan

\* A cleanup deletes copies of a location no read relies on.
LEMMA DeleteKeeps == ASSUME RepairInv, NEW w \in Workers, DeleteGeneration(w) PROVE RepairInv'
<1> DEFINE claim == worker[w]
           r == claim.repair
<1>1. PICK c \in claim.targets :
        /\ stored' = stored \ {c} /\ rows' = rows \ {c}
        /\ worker' = [worker EXCEPT
                        ![w].targets = @ \ {c},
                        ![w].at = IF worker[w].targets = {c} THEN "executed" ELSE "deleting"]
  BY DEF DeleteGeneration
<1> DEFINE left == claim.targets \ {c}
           at == IF claim.targets = {c} THEN "executed" ELSE "deleting"
           next == [claim EXCEPT !.targets = left, !.at = at]
<1>2. worker' = [worker EXCEPT ![w] = next]
  BY <1>1
<1>3. claim # NoClaim /\ claim.at = "deleting"
  BY DEF DeleteGeneration, NoClaim
<1>4. /\ claim \in ClaimType /\ r \in RepairType /\ Claimed(auth, repairs, w, claim)
      /\ Key(r) \in DOMAIN repairs /\ repairs[Key(r)].state = "LEASED"
  BY <1>3, Running
<1>5. /\ r.kind = "DELETE" /\ \A d \in claim.targets : d[1] = r.target /\ d[2] = r.generation
  BY <1>3, <1>4 DEF Claimed
<1>6. ~Serving(auth, c[2], c[1])
  <2>1. Key(r)[1] = "DELETE" /\ Key(r)[2] = c[2] /\ Key(r)[3] = c[1]
    BY <1>5 DEF Key
  <2> HIDE DEF r
  <2> QED BY <1>4, <2>1 DEF RepairInv, Spared
<1>7. Claimed(auth, repairs, w, next)
  <2>1. left \in SUBSET Copies /\ \A d \in left : d[1] = r.target /\ d[2] = r.generation
    BY <1>4, <1>5 DEF ClaimType
  <2>2. at \in {"claimed", "read", "checked", "deleting", "executed"} /\ at # "read"
    OBVIOUS
  <2> HIDE DEF claim, left, at
  <2>3. next \in ClaimType /\ next.repair = r /\ next.at = at /\ next.targets = left
    BY <1>4, <2>1, <2>2 DEF ClaimType
  <2> HIDE DEF next
  <2> QED BY <1>3, <1>4, <1>5, <2>1, <2>2, <2>3, ClaimMoves
<1> HIDE DEF next
<1>8. Ready(auth, stored \ {c})
  <2> SUFFICES ASSUME auth.live, NEW b \in Backends, b \in {auth.primary, auth.replica},
                      At(stored, b, auth.generation) # {}
               PROVE  At(stored \ {c}, b, auth.generation) # {}
    BY DEF RepairInv, Ready, Named
  <2>1. ~(c[1] = b /\ c[2] = auth.generation)
    BY <1>6, RepairAssumption DEF Serving, Locations
  <2> QED BY <2>1 DEF At
<1>9. Accounted(auth, repairs, rows \ {c})
  BY DEF RepairInv, Accounted
<1>10. DOMAIN worker' = Workers /\ \A x \in Workers : Claimed(auth, repairs, x, worker'[x])
  BY <1>2, <1>7 DEF RepairInv
<1> QED BY <1>1, <1>8, <1>9, <1>10 DEF RepairInv, DeleteGeneration, Plan

\* A row that changes without changing what it is a repair of.
LEMMA RowMoves ==
  ASSUME NEW a, NEW table, Sound(a, table), NEW k \in DOMAIN table, NEW row \in RepairType,
         row.kind = table[k].kind, row.generation = table[k].generation, row.role = table[k].role,
         row.target = table[k].target, row.cas = table[k].cas
  PROVE  LET out == [table EXCEPT ![k] = row] IN
         /\ DOMAIN out = DOMAIN table /\ Sound(a, out) /\ out[k] = row
         /\ \A j \in DOMAIN table : j # k => out[j] = table[j]
<1> DEFINE out == [table EXCEPT ![k] = row]
<1>1. /\ DOMAIN out = DOMAIN table /\ out[k] = row
      /\ \A j \in DOMAIN table : j # k => out[j] = table[j]
  BY DEF Sound
<1>2. out \in [DOMAIN out -> RepairType]
  BY DEF Sound
<1>3. Key(row) = Key(table[k]) /\ (Behind(a, table[k]) => Behind(a, row))
  BY DEF Key, Behind
<1> HIDE DEF out
<1>4. Sound(a, out)
  BY <1>1, <1>2, <1>3 DEF Sound
<1> QED BY <1>1, <1>4 DEF out

\* The keys of a table's rows are triples of kind, generation and target.
LEMMA KeyParts ==
  ASSUME NEW a, NEW table, Sound(a, table), NEW k \in DOMAIN table
  PROVE  /\ table[k] \in RepairType /\ k = <<table[k].kind, table[k].generation, table[k].target>>
         /\ k[1] = table[k].kind /\ k[2] = table[k].generation /\ k[3] = table[k].target
         /\ k = <<k[1], k[2], k[3]>>
<1>1. table[k] \in RepairType /\ k = Key(table[k])
  BY DEF Sound
<1>2. k = <<table[k].kind, table[k].generation, table[k].target>>
  BY <1>1 DEF Key
<1> QED BY <1>1, <1>2

\* A row that ends no lease, or ends it with its worker, takes no other claim away.
LEMMA OthersHold ==
  ASSUME RepairInv, NEW b, NEW out, NEW k, NEW v \in Workers,
         \A r \in RepairType : Behind(auth, r) => Behind(b, r),
         \A j \in DOMAIN repairs : j # k /\ repairs[j].state = "LEASED" => j \in DOMAIN out /\ out[j] = repairs[j],
         k \in DOMAIN repairs => repairs[k].state # "LEASED" \/ repairs[k].expired \/ repairs[k].token # v
  PROVE  Claimed(b, out, v, worker[v])
<1>1. Claimed(auth, repairs, v, worker[v])
  BY DEF RepairInv
<1>2. LET j == Key(worker[v].repair) IN worker[v] # NoClaim => j \in DOMAIN out /\ out[j] = repairs[j]
  BY Running
<1> QED BY <1>1, <1>2, ClaimStays

\* The row and the claim of a claim.
LEMMA ClaimRowTyped ==
  ASSUME NEW r \in RepairType, NEW w \in Workers
  PROVE  LET row == [r EXCEPT !.state = "LEASED", !.token = w, !.expired = FALSE]
             held == [r EXCEPT !.token = w]
         IN  /\ row \in RepairType /\ row.kind = r.kind /\ row.generation = r.generation
             /\ row.role = r.role /\ row.target = r.target /\ row.cas = r.cas
             /\ row.state = "LEASED" /\ row.token = w /\ row.expired = FALSE
             /\ held \in RepairType /\ held.kind = r.kind /\ held.generation = r.generation
             /\ held.role = r.role /\ held.target = r.target /\ held.cas = r.cas /\ held.token = w
BY DEF RepairType

\* A claim leases the row to its worker: a cleanup is only claimed when no read
\* relies on its target.
LEMMA ClaimKeeps ==
  ASSUME RepairInv, NEW w \in Workers, NEW k \in DOMAIN repairs, ClaimRepair(w, k)
  PROVE  RepairInv'
<1> DEFINE r == repairs[k]
           row == [r EXCEPT !.state = "LEASED", !.token = w, !.expired = FALSE]
           held == [r EXCEPT !.token = w]
           claim == [at |-> "claimed", repair |-> held, targets |-> {}, ok |-> TRUE]
           out == [repairs EXCEPT ![k] = row]
<1>1. /\ repairs' = out /\ worker' = [worker EXCEPT ![w] = claim]
      /\ scenario' = scenario /\ auth' = auth /\ placed' = placed /\ stored' = stored /\ rows' = rows
  BY DEF ClaimRepair
<1>2. /\ r.state = "PENDING" \/ (r.state = "LEASED" /\ r.expired)
      /\ r.kind = "DELETE" => ~Serving(auth, r.generation, r.target)
  BY DEF ClaimRepair, IsAuthoritative, Serving
<1>3. /\ r \in RepairType /\ k = Key(r) /\ Behind(auth, r)
      /\ k[1] = r.kind /\ k[2] = r.generation /\ k[3] = r.target
  BY KeyParts DEF RepairInv, Sound
<1> HIDE DEF r
<1>4. /\ row \in RepairType /\ row.kind = r.kind /\ row.generation = r.generation
      /\ row.role = r.role /\ row.target = r.target /\ row.cas = r.cas
      /\ row.state = "LEASED" /\ row.token = w /\ row.expired = FALSE
      /\ held \in RepairType /\ held.kind = r.kind /\ held.generation = r.generation
      /\ held.role = r.role /\ held.target = r.target /\ held.cas = r.cas /\ held.token = w
  BY <1>3, ClaimRowTyped
<1> HIDE DEF row, held
<1>5. /\ DOMAIN out = DOMAIN repairs /\ Sound(auth, out) /\ out[k] = row
      /\ \A j \in DOMAIN repairs : j # k => out[j] = repairs[j]
  BY <1>4, RowMoves DEF RepairInv, r
<1> HIDE DEF out
<1>6. Spared(auth, out)
  BY <1>2, <1>3, <1>5 DEF RepairInv, Spared
<1>7. Accounted(auth, out, rows)
  <2>1. ASSUME NEW c, Covered(repairs, c) PROVE Covered(out, c)
    BY <1>4, <1>5, <2>1 DEF Covered
  <2> QED BY <2>1 DEF RepairInv, Accounted
<1>8. Claimed(auth, out, w, claim)
  <2>1. Key(held) = k /\ Behind(auth, held)
    BY <1>3, <1>4 DEF Key, Behind
  <2>2. /\ claim \in ClaimType /\ claim.repair = held /\ claim.targets = {} /\ claim.at = "claimed"
    BY <1>4 DEF ClaimType
  <2> HIDE DEF claim
  <2> QED BY <1>4, <1>5, <2>1, <2>2 DEF Claimed
<1>9. ASSUME NEW v \in Workers
      PROVE  Claimed(auth, out, v, worker'[v])
  <2>1. CASE v = w
    BY <1>1, <1>8, <2>1 DEF RepairInv
  <2>2. CASE v # w
    <3>1. worker'[v] = worker[v]
      BY <1>1, <2>2 DEF RepairInv
    <3>2. Claimed(auth, out, v, worker[v])
      BY <1>2, <1>5, OthersHold DEF r
    <3> QED BY <3>1, <3>2
  <2> QED BY <2>1, <2>2
<1>10. DOMAIN worker' = Workers
  BY <1>1 DEF RepairInv
<1> QED BY <1>1, <1>5, <1>6, <1>7, <1>9, <1>10 DEF RepairInv, Plan

\* A repair that ends releases its worker and no other.
LEMMA Finishes ==
  ASSUME RepairInv, NEW w \in Workers, worker[w] # NoClaim, NEW b, b \in AuthorityType, Named(b),
         Ready(b, stored), NEW out, Sound(b, out), Spared(b, out), Accounted(b, out, rows),
         \A r \in RepairType : Behind(auth, r) => Behind(b, r),
         \A j \in DOMAIN repairs :
           j # Key(worker[w].repair) /\ repairs[j].state = "LEASED" => j \in DOMAIN out /\ out[j] = repairs[j],
         auth' = b, repairs' = out, worker' = [worker EXCEPT ![w] = NoClaim],
         stored' = stored, rows' = rows, scenario' = scenario, placed' = placed
  PROVE  RepairInv'
<1> DEFINE k == Key(worker[w].repair)
<1>1. k \in DOMAIN repairs /\ repairs[k].token = w
  BY Running
<1> HIDE DEF k
<1>2. ASSUME NEW v \in Workers
      PROVE  Claimed(b, out, v, worker'[v])
  <2>1. CASE v = w
    BY <2>1 DEF RepairInv, Claimed
  <2>2. CASE v # w
    <3>1. worker'[v] = worker[v]
      BY <2>2 DEF RepairInv
    <3>2. Claimed(b, out, v, worker[v])
      BY <1>1, <2>2, OthersHold DEF k
    <3> QED BY <3>1, <3>2
  <2> QED BY <2>1, <2>2
<1>3. DOMAIN worker' = Workers
  BY DEF RepairInv
<1> QED BY <1>2, <1>3 DEF RepairInv, Plan

\* A row may become DONE when nothing is left at its target or reads rely on it.
LEMMA ReleaseKeeps ==
  ASSUME RepairInv, NEW w \in Workers, worker[w] # NoClaim, NEW row \in RepairType,
         LET r == worker[w].repair
             k == Key(r)
         IN  /\ row.kind = repairs[k].kind /\ row.generation = repairs[k].generation
             /\ row.role = repairs[k].role /\ row.target = repairs[k].target
             /\ row.cas = repairs[k].cas /\ row.state # "LEASED"
             /\ row.state = "DONE" => At(rows, r.target, r.generation) = {}
                                       \/ Serving(auth, r.generation, r.target)
             /\ repairs' = [repairs EXCEPT ![k] = row],
         auth' = auth, worker' = [worker EXCEPT ![w] = NoClaim],
         stored' = stored, rows' = rows, scenario' = scenario, placed' = placed
  PROVE  RepairInv'
<1> DEFINE r == worker[w].repair
           k == Key(r)
           out == [repairs EXCEPT ![k] = row]
<1>1. k \in DOMAIN repairs /\ k[2] = r.generation /\ k[3] = r.target
  BY Running DEF Key
<1> HIDE DEF k
<1>2. /\ DOMAIN out = DOMAIN repairs /\ Sound(auth, out) /\ out[k] = row
      /\ \A j \in DOMAIN repairs : j # k => out[j] = repairs[j]
  BY <1>1, RowMoves DEF RepairInv, k
<1>3. /\ repairs' = out /\ row.state # "LEASED"
      /\ row.state = "DONE" => At(rows, r.target, r.generation) = {}
                                 \/ Serving(auth, r.generation, r.target)
  BY DEF k
<1> HIDE DEF out, r
<1>4. Spared(auth, out)
  BY <1>2, <1>3 DEF RepairInv, Spared
<1>5. ASSUME NEW c \in rows
      PROVE  Serving(auth, c[2], c[1]) \/ Covered(out, c)
  <2>1. CASE Serving(auth, c[2], c[1])
    BY <2>1
  <2>2. CASE \E j \in DOMAIN repairs : j[2] = c[2] /\ j[3] = c[1] /\ repairs[j].state # "DONE"
    <3>1. PICK j \in DOMAIN repairs : j[2] = c[2] /\ j[3] = c[1] /\ repairs[j].state # "DONE"
      BY <2>2
    <3>2. CASE j # k
      BY <1>2, <3>1, <3>2 DEF Covered
    <3>3. CASE j = k /\ row.state # "DONE"
      BY <1>2, <3>1, <3>3 DEF Covered
    <3>4. CASE j = k /\ row.state = "DONE"
      <4>1. c \in At(rows, r.target, r.generation)
        BY <1>1, <3>1, <3>4 DEF At
      <4> QED BY <1>1, <1>3, <3>1, <3>4, <4>1
    <3> QED BY <3>2, <3>3, <3>4
  <2>3. CASE {<<"DELETE", c[2], c[1]>>, <<"PLACEMENT", c[2], c[1]>>} \subseteq DOMAIN repairs
    BY <1>2, <2>3 DEF Covered
  <2> QED BY <2>1, <2>2, <2>3 DEF RepairInv, Accounted, Covered
<1>6. Accounted(auth, out, rows)
  BY <1>5 DEF Accounted
<1> QED BY <1>2, <1>3, <1>4, <1>6, Finishes DEF RepairInv, k, r

\* A failed execution goes back to the queue or is given up.
LEMMA FailKeeps == ASSUME RepairInv, NEW w \in Workers, FailRepair(w) PROVE RepairInv'
<1> DEFINE r == worker[w].repair
           k == Key(r)
           tried == repairs[k].attempts + 1
           state == IF tried >= MaxAttempts THEN "DEAD" ELSE "PENDING"
           done == [repairs[k] EXCEPT !.state = state, !.token = NoBackend]
           row == [done EXCEPT !.attempts = tried]
<1>1. worker[w] # NoClaim
  BY DEF FailRepair, NoClaim
<1>2. /\ worker' = [worker EXCEPT ![w] = NoClaim] /\ auth' = auth
      /\ stored' = stored /\ rows' = rows /\ scenario' = scenario /\ placed' = placed
  BY DEF FailRepair
<1>3. k \in DOMAIN repairs /\ repairs[k] \in RepairType
  BY <1>1, Running DEF RepairInv, Sound
<1>4. CASE ~HoldsLease(r)
  <2>1. repairs' = repairs
    BY <1>4 DEF FailRepair
  <2>2. Claimed(auth, repairs, w, NoClaim)
    BY DEF Claimed
  <2> QED BY <1>2, <2>1, <2>2, WorkerMoves
<1>5. CASE HoldsLease(r)
  <2>1. repairs' = [Done(r, state) EXCEPT ![k].attempts = tried]
    BY <1>5 DEF FailRepair
  <2>2. repairs' = [repairs EXCEPT ![k] = row]
    BY <1>3, <2>1 DEF Done, RepairInv, Sound
  <2>3. tried \in Nat /\ state \in {"PENDING", "DONE", "DEAD"} /\ state # "LEASED" /\ state # "DONE"
    BY <1>3 DEF RepairType
  <2> DEFINE old == repairs[k]
  <2> HIDE DEF tried, state
  <2>4. /\ row \in RepairType /\ row.kind = repairs[k].kind /\ row.generation = repairs[k].generation
        /\ row.role = repairs[k].role /\ row.target = repairs[k].target
        /\ row.cas = repairs[k].cas /\ row.state = state
    <3>1. old \in RepairType /\ row = [[old EXCEPT !.state = state, !.token = NoBackend] EXCEPT !.attempts = tried]
      BY <1>3
    <3> HIDE DEF old, row
    <3>2. /\ row \in RepairType /\ row.kind = old.kind /\ row.generation = old.generation
          /\ row.role = old.role /\ row.target = old.target /\ row.cas = old.cas /\ row.state = state
      BY <2>3, <3>1 DEF RepairType
    <3> QED BY <3>2 DEF old
  <2> HIDE DEF row
  <2> QED BY <1>1, <1>2, <2>2, <2>3, <2>4, ReleaseKeeps
<1> QED BY <1>4, <1>5

\* The row a completed repair leaves.
LEMMA DoneRow ==
  ASSUME RepairInv, NEW w \in Workers, worker[w] # NoClaim, NEW state \in {"PENDING", "DONE", "DEAD"}
  PROVE  LET r == worker[w].repair
             k == Key(r)
             row == [repairs[k] EXCEPT !.state = state, !.token = NoBackend]
         IN  /\ Done(r, state) = [repairs EXCEPT ![k] = row]
             /\ row \in RepairType /\ row.kind = repairs[k].kind
             /\ row.generation = repairs[k].generation /\ row.role = repairs[k].role
             /\ row.target = repairs[k].target /\ row.cas = repairs[k].cas /\ row.state = state
<1> DEFINE r == worker[w].repair
           k == Key(r)
<1>1. k \in DOMAIN repairs /\ repairs[k] \in RepairType
  BY Running DEF RepairInv, Sound
<1>2. Done(r, state) = [repairs EXCEPT ![k] = [repairs[k] EXCEPT !.state = state, !.token = NoBackend]]
  BY <1>1 DEF Done, RepairInv, Sound
<1> HIDE DEF k
<1>4. LET row == [repairs[k] EXCEPT !.state = state, !.token = NoBackend] IN
      /\ row \in RepairType /\ row.kind = repairs[k].kind
      /\ row.generation = repairs[k].generation /\ row.role = repairs[k].role
      /\ row.target = repairs[k].target /\ row.cas = repairs[k].cas /\ row.state = state
  <2> DEFINE old == repairs[k]
             row == [old EXCEPT !.state = state, !.token = NoBackend]
  <2>1. old \in RepairType
    BY <1>1
  <2> HIDE DEF old
  <2>2. /\ row \in RepairType /\ row.kind = old.kind /\ row.generation = old.generation
        /\ row.role = old.role /\ row.target = old.target /\ row.cas = old.cas /\ row.state = state
    BY <2>1 DEF RepairType
  <2> QED BY <2>2 DEF old
<1> QED BY <1>2, <1>4 DEF k

\* A cleanup is done when the ledger has no row of its target left.
LEMMA CleanupKeeps ==
  ASSUME RepairInv, NEW w \in Workers, worker[w] # NoClaim, CompleteCleanup(worker[w].repair),
         worker' = [worker EXCEPT ![w] = NoClaim],
         stored' = stored, rows' = rows, scenario' = scenario, placed' = placed
  PROVE  RepairInv'
<1> DEFINE r == worker[w].repair
           k == Key(r)
           state == IF At(rows, r.target, r.generation) = {} THEN "DONE" ELSE "PENDING"
           row == [repairs[k] EXCEPT !.state = state, !.token = NoBackend]
<1>1. repairs' = Done(r, state) /\ auth' = auth
  BY DEF CompleteCleanup
<1>2. /\ state \in {"PENDING", "DONE", "DEAD"} /\ state # "LEASED"
      /\ state = "DONE" => At(rows, r.target, r.generation) = {}
  OBVIOUS
<1> HIDE DEF state
<1>3. /\ Done(r, state) = [repairs EXCEPT ![k] = row]
      /\ row \in RepairType /\ row.kind = repairs[k].kind
      /\ row.generation = repairs[k].generation /\ row.role = repairs[k].role
      /\ row.target = repairs[k].target /\ row.cas = repairs[k].cas /\ row.state = state
  BY <1>2, DoneRow
<1> HIDE DEF row
<1> QED BY <1>1, <1>2, <1>3, ReleaseKeeps

\* The table after a copy repair is marked DONE.
LEMMA CopyDone ==
  ASSUME RepairInv, NEW w \in Workers, worker[w] # NoClaim
  PROVE  LET r == worker[w].repair
             k == Key(r)
             done == Done(r, "DONE")
         IN  /\ DOMAIN done = DOMAIN repairs /\ Sound(auth, done)
             /\ k \in DOMAIN repairs /\ done[k].state = "DONE"
             /\ k = <<r.kind, r.generation, r.target>>
             /\ \A j \in DOMAIN repairs : j # k => done[j] = repairs[j]
<1> DEFINE r == worker[w].repair
           k == Key(r)
           row == [repairs[k] EXCEPT !.state = "DONE", !.token = NoBackend]
<1>1. /\ Done(r, "DONE") = [repairs EXCEPT ![k] = row]
      /\ row \in RepairType /\ row.kind = repairs[k].kind
      /\ row.generation = repairs[k].generation /\ row.role = repairs[k].role
      /\ row.target = repairs[k].target /\ row.cas = repairs[k].cas /\ row.state = "DONE"
  BY DoneRow
<1> HIDE DEF row
<1>2. k \in DOMAIN repairs /\ k = <<r.kind, r.generation, r.target>>
  BY Running DEF Key
<1> HIDE DEF k
<1>3. LET out == [repairs EXCEPT ![k] = row] IN
      /\ DOMAIN out = DOMAIN repairs /\ Sound(auth, out) /\ out[k] = row
      /\ \A j \in DOMAIN repairs : j # k => out[j] = repairs[j]
  BY <1>1, <1>2, RowMoves DEF RepairInv
<1> QED BY <1>1, <1>2, <1>3 DEF k

\* The cleanup of a copy that was overtaken.
LEMMA StaleTyped ==
  ASSUME RepairInv, NEW r \in RepairType, Behind(auth, r)
  PROVE  /\ Fresh(auth, {StaleRepairCleanup(r)})
         /\ Key(StaleRepairCleanup(r)) = <<"DELETE", r.generation, r.target>>
<1> DEFINE plan == Plan[1]
           new == [r EXCEPT !.kind = "DELETE", !.source = NoBackend, !.role = "cleanup", !.plan = plan,
                     !.state = "PENDING", !.attempts = 0, !.token = NoBackend, !.expired = FALSE]
<1>1. plan \in Placement
  BY PlacedAt
<1>2. StaleRepairCleanup(r) = new
  BY DEF StaleRepairCleanup
<1> HIDE DEF plan
<1>3. /\ new \in RepairType /\ new.kind = "DELETE" /\ new.state = "PENDING"
      /\ new.generation = r.generation /\ new.target = r.target /\ new.cas = r.cas
  BY <1>1 DEF RepairType, Located
<1> HIDE DEF new
<1>4. Behind(auth, new) /\ Key(new) = <<"DELETE", r.generation, r.target>>
  BY <1>3 DEF Behind, Key
<1> QED BY <1>2, <1>3, <1>4 DEF Fresh

\* A copy that was overtaken, and that no read relies on, is left to a cleanup.
LEMMA StaleKeeps ==
  ASSUME RepairInv, NEW w \in Workers, worker[w] # NoClaim,
         LET r == worker[w].repair IN
         /\ ~Serving(auth, r.generation, r.target)
         /\ repairs' = InsertRepairs(Done(r, "DONE"), {StaleRepairCleanup(r)}),
         auth' = auth, worker' = [worker EXCEPT ![w] = NoClaim],
         stored' = stored, rows' = rows, scenario' = scenario, placed' = placed
  PROVE  RepairInv'
<1> DEFINE r == worker[w].repair
           k == Key(r)
           d == <<"DELETE", r.generation, r.target>>
           done == Done(r, "DONE")
           stale == StaleRepairCleanup(r)
           added == {stale}
           out == InsertRepairs(done, added)
<1>1. /\ DOMAIN done = DOMAIN repairs /\ Sound(auth, done)
      /\ k \in DOMAIN repairs /\ done[k].state = "DONE"
      /\ k = <<r.kind, r.generation, r.target>>
      /\ \A j \in DOMAIN repairs : j # k => done[j] = repairs[j]
  BY CopyDone
<1>2. r \in RepairType /\ Behind(auth, r) /\ ~Serving(auth, r.generation, r.target) /\ repairs' = out
  BY Running
<1>3. Fresh(auth, added) /\ Key(stale) = d
  BY <1>2, StaleTyped
<1>0. added = {stale}
  OBVIOUS
<1> HIDE DEF done, stale, k, added
<1>4. /\ DOMAIN out = DOMAIN done \cup {Key(x) : x \in added}
      /\ Sound(auth, out) /\ Kept(done, out)
      /\ \A x \in added : Key(x) \in DOMAIN out /\ out[Key(x)].state # "DONE"
  <2> HIDE DEF r, d
  <2>1. Sound(auth, done) /\ Fresh(auth, added)
    BY <1>1, <1>3
  <2> QED BY ONLY <2>1, InsertKeeps
<1>5. DOMAIN out = DOMAIN repairs \cup {d} /\ d \in DOMAIN out /\ out[d].state # "DONE"
  BY <1>0, <1>1, <1>3, <1>4
<1> HIDE DEF out
<1>6. Spared(auth, out)
  <2> SUFFICES ASSUME NEW j \in DOMAIN out, j[1] = "DELETE", Serving(auth, j[2], j[3])
               PROVE  out[j].state # "LEASED" /\ <<"PLACEMENT", j[2], j[3]>> \in DOMAIN out
    BY DEF Spared
  <2>1. j # d
    BY <1>2
  <2>2. j \in DOMAIN repairs
    BY <1>5, <2>1
  <2>3. repairs[j].state # "LEASED" /\ <<"PLACEMENT", j[2], j[3]>> \in DOMAIN repairs
    BY <2>2 DEF RepairInv, Spared
  <2>4. done[j].state # "LEASED"
    BY <1>1, <2>2, <2>3
  <2> QED BY <1>1, <1>4, <1>5, <2>2, <2>3, <2>4 DEF Kept
<1>7. ASSUME NEW c \in rows, ~Serving(auth, c[2], c[1])
      PROVE  Covered(out, c)
  <2>1. Covered(repairs, c)
    BY <1>7 DEF RepairInv, Accounted
  <2>2. CASE c[2] = r.generation /\ c[1] = r.target
    <3>1. d[2] = c[2] /\ d[3] = c[1]
      BY <2>2
    <3> HIDE DEF d
    <3> QED BY <1>5, <3>1 DEF Covered
  <2>3. CASE ~(c[2] = r.generation /\ c[1] = r.target)
    <3>1. Covered(done, c)
      BY <1>1, <2>1, <2>3 DEF Covered
    <3> QED BY <1>4, <3>1, CoveredKept
  <2> QED BY <2>2, <2>3
<1>8. Accounted(auth, out, rows)
  BY <1>7 DEF Accounted
<1>9. \A j \in DOMAIN repairs :
        j # Key(worker[w].repair) /\ repairs[j].state = "LEASED" => j \in DOMAIN out /\ out[j] = repairs[j]
  BY <1>1, <1>4 DEF Kept, k, r
<1> QED BY <1>2, <1>4, <1>6, <1>8, <1>9, Finishes DEF RepairInv

\* The three ways a copy repair moves an authority, each with the fields it sets.
LEMMA MovedTyped ==
  ASSUME NEW a \in AuthorityType, NEW b \in Backends, NEW version \in Nat, NEW cas \in Nat
  PROVE  LET alone == [a EXCEPT !.primary = b, !.primaryStatus = "READY",
                                !.replica = NoBackend, !.replicaStatus = "ABSENT"]
             first == [a EXCEPT !.primary = b, !.primaryStatus = "READY"]
             second == [a EXCEPT !.replica = b, !.replicaStatus = "READY"]
         IN  /\ alone \in AuthorityType /\ first \in AuthorityType /\ second \in AuthorityType
             /\ alone.generation = a.generation /\ alone.cas = a.cas /\ alone.live = a.live
             /\ alone.primary = b /\ alone.replica = NoBackend /\ alone.replicaStatus = "ABSENT"
             /\ first.generation = a.generation /\ first.cas = a.cas /\ first.live = a.live
             /\ first.primary = b /\ first.replica = a.replica
             /\ first.replicaStatus = a.replicaStatus
             /\ second.generation = a.generation /\ second.cas = a.cas /\ second.live = a.live
             /\ second.primary = a.primary /\ second.replica = b
             /\ second.primaryStatus = a.primaryStatus
BY DEF AuthorityType, Located, CopyStatus

\* The placement version or the CAS of an authority moves no copy.
LEMMA BumpedTyped ==
  ASSUME NEW a \in AuthorityType, NEW n \in Nat
  PROVE  LET newer == [a EXCEPT !.version = n]
             bumped == [a EXCEPT !.cas = n]
         IN  /\ newer \in AuthorityType /\ bumped \in AuthorityType
             /\ newer.generation = a.generation /\ newer.cas = a.cas /\ newer.live = a.live
             /\ newer.primary = a.primary /\ newer.replica = a.replica
             /\ newer.primaryStatus = a.primaryStatus /\ newer.replicaStatus = a.replicaStatus
             /\ bumped.generation = a.generation /\ bumped.cas = n /\ bumped.live = a.live
             /\ bumped.primary = a.primary /\ bumped.replica = a.replica
             /\ bumped.primaryStatus = a.primaryStatus /\ bumped.replicaStatus = a.replicaStatus
BY DEF AuthorityType

\* What a copy repair may change of an authority it applies to: the target takes
\* one of the two places, the other place is kept or given up.
Relocated(a, b, r) ==
  /\ b \in AuthorityType /\ b.generation = a.generation /\ b.live = a.live
  /\ r.target \in {b.primary, b.replica}
  /\ b.primary \in {a.primary, r.target} /\ b.replica \in {a.replica, r.target, NoBackend}
  /\ b.primaryStatus = "READY" /\ b.primary # r.target => a.primaryStatus = "READY"
  /\ b.replicaStatus = "READY" /\ b.replica # r.target => a.replicaStatus = "READY" /\ b.replica = a.replica
  /\ r.kind # "PLACEMENT" =>
       IF r.role = "primary" THEN b.primary = r.target /\ b.replica = a.replica
                             ELSE b.primary = a.primary /\ b.replica = r.target

\* apply_repair_to_authority relocates the authority and leaves its CAS.
LEMMA ApplyRelocates ==
  ASSUME NEW a \in AuthorityType, NEW r \in RepairType
  PROVE  LET b == ApplyRepairToAuthority(a, r) IN Relocated(a, b, r) /\ b.cas = a.cas
<1> DEFINE t == r.target
           alone == [a EXCEPT !.primary = t, !.primaryStatus = "READY",
                              !.replica = NoBackend, !.replicaStatus = "ABSENT"]
           first == [a EXCEPT !.primary = t, !.primaryStatus = "READY"]
           second == [a EXCEPT !.replica = t, !.replicaStatus = "READY"]
           moved == IF r.role = "primary"
                      THEN IF r.kind = "PLACEMENT" /\ r.plan.replica = NoBackend THEN alone ELSE first
                      ELSE second
           newer == [moved EXCEPT !.version = r.version]
<1>1. t \in Backends /\ r.version \in Nat
  BY DEF RepairType
<1>2. ApplyRepairToAuthority(a, r) =
        IF r.kind = "PLACEMENT" /\ InPlace(moved, r.plan) THEN newer ELSE moved
  BY DEF ApplyRepairToAuthority
<1>3. Relocated(a, moved, r) /\ moved.cas = a.cas
  <2> HIDE DEF t
  <2>1. /\ alone \in AuthorityType /\ first \in AuthorityType /\ second \in AuthorityType
        /\ alone.generation = a.generation /\ alone.cas = a.cas /\ alone.live = a.live
        /\ alone.primary = t /\ alone.replica = NoBackend /\ alone.replicaStatus = "ABSENT"
        /\ first.generation = a.generation /\ first.cas = a.cas /\ first.live = a.live
        /\ first.primary = t /\ first.replica = a.replica
        /\ first.replicaStatus = a.replicaStatus
        /\ second.generation = a.generation /\ second.cas = a.cas /\ second.live = a.live
        /\ second.primary = a.primary /\ second.replica = t
        /\ second.primaryStatus = a.primaryStatus
    BY <1>1, MovedTyped
  <2> HIDE DEF alone, first, second
  <2>2. CASE r.role = "primary" /\ r.kind = "PLACEMENT" /\ r.plan.replica = NoBackend
    <3>1. moved = alone
      BY <2>2
    <3> QED BY <2>1, <2>2, <3>1 DEF Relocated, t
  <2>3. CASE r.role = "primary" /\ ~(r.kind = "PLACEMENT" /\ r.plan.replica = NoBackend)
    <3>1. moved = first
      BY <2>3
    <3> QED BY <2>1, <2>3, <3>1 DEF Relocated, t
  <2>4. CASE r.role # "primary"
    <3>1. moved = second
      BY <2>4
    <3> QED BY <2>1, <2>4, <3>1 DEF Relocated, t
  <2> QED BY <2>2, <2>3, <2>4
<1> HIDE DEF moved
<1>4. Relocated(a, newer, r) /\ newer.cas = a.cas
  <2>1. moved \in AuthorityType
    BY <1>3 DEF Relocated
  <2>2. /\ newer \in AuthorityType
        /\ newer.generation = moved.generation /\ newer.cas = moved.cas /\ newer.live = moved.live
        /\ newer.primary = moved.primary /\ newer.replica = moved.replica
        /\ newer.primaryStatus = moved.primaryStatus /\ newer.replicaStatus = moved.replicaStatus
    BY <1>1, <2>1, BumpedTyped
  <2> HIDE DEF newer
  <2> QED BY <1>3, <2>2 DEF Relocated
<1> QED BY <1>2, <1>3, <1>4

\* The authority a completed copy leaves: the same one, or one with a higher CAS.
LEMMA CopyRelocates ==
  ASSUME NEW a \in AuthorityType, NEW r \in RepairType
  PROVE  LET applied == ApplyRepairToAuthority(a, r)
             b == IF applied = a THEN a ELSE [applied EXCEPT !.cas = @ + 1]
         IN  /\ Relocated(a, b, r)
             /\ \A x \in RepairType : Behind(a, x) => Behind(b, x)
<1> DEFINE applied == ApplyRepairToAuthority(a, r)
           cas == applied.cas + 1
           bumped == [applied EXCEPT !.cas = cas]
<1>1. Relocated(a, applied, r) /\ applied.cas = a.cas
  BY ApplyRelocates
<1> HIDE DEF applied
<1>2. applied \in AuthorityType /\ a.cas \in Nat /\ cas \in Nat /\ applied.generation = a.generation
      /\ a.generation \in Nat
  BY <1>1 DEF Relocated, AuthorityType
<1>3. /\ bumped \in AuthorityType
      /\ bumped.generation = applied.generation /\ bumped.cas = cas /\ bumped.live = applied.live
      /\ bumped.primary = applied.primary /\ bumped.replica = applied.replica
      /\ bumped.primaryStatus = applied.primaryStatus /\ bumped.replicaStatus = applied.replicaStatus
  <2> HIDE DEF cas
  <2> QED BY <1>2, BumpedTyped
<1> HIDE DEF bumped
<1>4. Relocated(a, bumped, r)
  BY <1>1, <1>3 DEF Relocated
<1>5. \A x \in RepairType : Behind(a, x) => Behind(bumped, x)
  BY <1>1, <1>2, <1>3, BehindMoves
<1>6. CASE applied = a
  BY <1>1, <1>6 DEF applied
<1>7. CASE applied # a
  BY <1>4, <1>5, <1>7 DEF applied, bumped
<1> QED BY <1>6, <1>7

\* The locations of a relocated authority, and what it calls READY.
LEMMA RelocatedServes ==
  ASSUME RepairInv, NEW r \in RepairType, NEW b, Relocated(auth, b, r), auth.live,
         auth.generation = r.generation, At(rows, r.target, r.generation) # {}
  PROVE  /\ Named(b) /\ Ready(b, stored) /\ b.live
         /\ Serving(b, r.generation, r.target)
         /\ \A g, l : Serving(b, g, l) => l = r.target \/ Serving(auth, g, l)
         /\ \A g, l : Serving(b, g, l) => g = r.generation
<1>1. r.target \in Backends /\ r.target # NoBackend
  BY RepairAssumption DEF RepairType
<1>2. auth \in AuthorityType /\ Named(auth) /\ rows = stored /\ Ready(auth, stored)
  BY DEF RepairInv
<1>3. Named(b)
  BY <1>1, <1>2 DEF Named, Relocated
<1>4. Ready(b, stored)
  BY <1>1, <1>2 DEF Ready, Relocated
<1>5. Serving(b, r.generation, r.target)
  BY <1>1 DEF Serving, Relocated, Locations
<1>6. ASSUME NEW g, NEW l, Serving(b, g, l)
      PROVE  g = r.generation /\ (l = r.target \/ Serving(auth, g, l))
  BY <1>6 DEF Serving, Relocated, Locations
<1> QED BY <1>3, <1>4, <1>5, <1>6 DEF Relocated

\* The cleanups of a cutover name the locations it gives up.
LEMMA CutoverFresh ==
  ASSUME RepairInv, NEW b \in AuthorityType, NEW version \in Nat, auth.generation <= b.generation
  PROVE  /\ Fresh(b, PlacementCleanupRepairs(auth, b, version))
         /\ {Key(x) : x \in PlacementCleanupRepairs(auth, b, version)}
              = {<<"DELETE", b.generation, l>> : l \in Locations(auth) \ Locations(b)}
<1> DEFINE gone == Locations(auth) \ Locations(b)
           Cleanup(l) == [CopyOf("DELETE", NoBackend, l, "cleanup", version, Plan[1])
                            EXCEPT !.cas = b.cas, !.generation = b.generation]
<1>1. ASSUME NEW l \in gone
      PROVE  /\ Cleanup(l) \in RepairType /\ Cleanup(l).state = "PENDING"
             /\ Cleanup(l).kind = "DELETE" /\ Cleanup(l).target = l
             /\ Cleanup(l).generation = b.generation /\ Cleanup(l).cas = b.cas
  <2> DEFINE copy == CopyOf("DELETE", NoBackend, l, "cleanup", version, Plan[1])
             other == [copy EXCEPT !.cas = b.cas, !.generation = b.generation]
  <2>1. l \in Backends /\ Plan[1] \in Placement /\ auth \in AuthorityType
    BY PlacedAt DEF RepairInv
  <2>2. NoBackend \in Located /\ b.generation \in Nat /\ b.cas \in Nat
    BY DEF Located, AuthorityType
  <2>3. copy \in RepairType /\ copy.state = "PENDING" /\ copy.kind = "DELETE" /\ copy.target = l
    BY <2>1, <2>2, CopyTyped
  <2>4. Cleanup(l) = other
    OBVIOUS
  <2> HIDE DEF copy
  <2>5. /\ other \in RepairType /\ other.state = "PENDING" /\ other.kind = "DELETE"
        /\ other.target = l /\ other.generation = b.generation /\ other.cas = b.cas
    BY <2>2, <2>3 DEF RepairType
  <2> HIDE DEF other, Cleanup
  <2> QED BY <2>4, <2>5
<1>2. PlacementCleanupRepairs(auth, b, version) = {Cleanup(l) : l \in gone}
  BY DEF PlacementCleanupRepairs
<1> HIDE DEF Cleanup, gone
<1>3. b.generation \in Nat /\ b.cas \in Nat
  BY DEF AuthorityType
<1>4. \A l \in gone : Key(Cleanup(l)) = <<"DELETE", b.generation, l>> /\ Behind(b, Cleanup(l))
  BY <1>1, <1>3 DEF Key, Behind
<1>5. Fresh(b, {Cleanup(l) : l \in gone})
  BY <1>1, <1>4 DEF Fresh
<1>6. {Key(x) : x \in {Cleanup(l) : l \in gone}} = {<<"DELETE", b.generation, l>> : l \in gone}
  BY <1>4
<1> QED BY <1>2, <1>5, <1>6 DEF gone

\* A cutover to the target of a repair keeps the invariant, given what the table
\* has for the locations it gives up.
LEMMA CutoverKeeps ==
  ASSUME RepairInv, NEW w \in Workers, worker[w] # NoClaim, NEW b, NEW out, NEW r,
         r = worker[w].repair, Relocated(auth, b, r), auth.live, auth.generation = r.generation,
         At(rows, r.target, r.generation) # {}, ~CleanupInProgress(r), r.kind # "DELETE",
         \A x \in RepairType : Behind(auth, x) => Behind(b, x),
         Sound(b, out), Kept(Done(r, "DONE"), out), DOMAIN repairs \subseteq DOMAIN out,
         DOMAIN out \subseteq DOMAIN repairs \cup {<<"DELETE", r.generation, l>> : l \in Locations(auth) \ Locations(b)},
         \A l \in Locations(auth) \ Locations(b) :
           LET d == <<"DELETE", r.generation, l>> IN
           d \in DOMAIN repairs \/ (d \in DOMAIN out /\ out[d].state # "DONE"),
         r.kind = "PLACEMENT" \/ Locations(b) = Locations(auth),
         auth' = b, repairs' = out, worker' = [worker EXCEPT ![w] = NoClaim],
         stored' = stored, rows' = rows, scenario' = scenario, placed' = placed
  PROVE  RepairInv'
<1> DEFINE k == Key(r)
           done == Done(r, "DONE")
<1>1. /\ DOMAIN done = DOMAIN repairs
      /\ k \in DOMAIN repairs /\ done[k].state = "DONE" /\ k = <<r.kind, r.generation, r.target>>
      /\ \A j \in DOMAIN repairs : j # k => done[j] = repairs[j]
  BY CopyDone
<1>2. r \in RepairType
  BY Running
<1>3. /\ Named(b) /\ Ready(b, stored) /\ b.live
      /\ Serving(b, r.generation, r.target)
      /\ \A g, l : Serving(b, g, l) => l = r.target \/ Serving(auth, g, l)
      /\ \A g, l : Serving(b, g, l) => g = r.generation
  BY <1>2, RelocatedServes
<1>4. Kept(done, out)
  OBVIOUS
<1> HIDE DEF done, k
<1>5. ASSUME NEW j \in DOMAIN out, j[1] = "DELETE", Serving(b, j[2], j[3])
      PROVE  out[j].state # "LEASED" /\ <<"PLACEMENT", j[2], j[3]>> \in DOMAIN out
  <2>1. j \in DOMAIN repairs
    <3> SUFFICES ASSUME j \notin DOMAIN repairs
                 PROVE  FALSE
      OBVIOUS
    <3>1. PICK l \in Locations(auth) \ Locations(b) : j = <<"DELETE", r.generation, l>>
      OBVIOUS
    <3> QED BY <1>5, <3>1 DEF Serving
  <2>2. CASE Serving(auth, j[2], j[3])
    <3>1. repairs[j].state # "LEASED" /\ <<"PLACEMENT", j[2], j[3]>> \in DOMAIN repairs
      BY <1>5, <2>1, <2>2 DEF RepairInv, Spared
    <3>2. done[j].state # "LEASED"
      BY <1>1, <2>1, <3>1
    <3> QED BY <1>4, <3>1, <3>2 DEF Kept
  <2>3. CASE ~Serving(auth, j[2], j[3])
    <3>1. j[3] = r.target /\ j[2] = r.generation
      BY <1>3, <1>5, <2>3
    <3>2. j = <<"DELETE", r.generation, r.target>>
      BY <1>5, <2>1, <3>1, KeyParts DEF RepairInv
    <3>3. repairs[j].state # "LEASED"
      BY <2>1, <3>2 DEF CleanupInProgress
    <3>4. r.kind = "PLACEMENT"
      BY <1>5, <2>3, <3>1 DEF Serving
    <3>5. <<"PLACEMENT", j[2], j[3]>> \in DOMAIN repairs
      BY <1>1, <3>1, <3>4
    <3>6. done[j].state # "LEASED"
      BY <1>1, <2>1, <3>3
    <3> QED BY <1>4, <3>5, <3>6 DEF Kept
  <2> QED BY <2>2, <2>3
<1>6. Spared(b, out)
  BY <1>5 DEF Spared
<1>7. ASSUME NEW c \in rows, ~Serving(b, c[2], c[1])
      PROVE  Covered(out, c)
  <2>1. CASE Serving(auth, c[2], c[1])
    <3> DEFINE d == <<"DELETE", c[2], c[1]>>
    <3>1. c[2] = r.generation /\ c[1] \in Locations(auth) \ Locations(b) /\ r.kind = "PLACEMENT"
      BY <1>3, <1>7, <2>1 DEF Serving, Relocated
    <3>2. CASE d \in DOMAIN repairs
      <4>1. d[1] = "DELETE" /\ d[2] = c[2] /\ d[3] = c[1]
        OBVIOUS
      <4>2. <<"PLACEMENT", c[2], c[1]>> \in DOMAIN repairs
        BY <2>1, <3>2, <4>1 DEF RepairInv, Spared
      <4> QED BY <3>2, <4>2 DEF Covered
    <3>3. CASE d \in DOMAIN out /\ out[d].state # "DONE"
      <4>1. d[2] = c[2] /\ d[3] = c[1]
        OBVIOUS
      <4> HIDE DEF d
      <4> QED BY <3>3, <4>1 DEF Covered
    <3> QED BY <3>1, <3>2, <3>3
  <2>2. CASE ~Serving(auth, c[2], c[1])
    <3>1. Covered(repairs, c)
      BY <2>2 DEF RepairInv, Accounted
    <3>2. ~(c[2] = r.generation /\ c[1] = r.target)
      BY <1>3, <1>7
    <3>3. Covered(done, c)
      BY <1>1, <3>1, <3>2 DEF Covered
    <3> QED BY <1>4, <3>3, CoveredKept
  <2> QED BY <2>1, <2>2
<1>8. Accounted(b, out, rows)
  BY <1>7 DEF Accounted
<1>9. \A j \in DOMAIN repairs :
        j # Key(worker[w].repair) /\ repairs[j].state = "LEASED" => j \in DOMAIN out /\ out[j] = repairs[j]
  BY <1>1, <1>4 DEF Kept, k
<1>10. b \in AuthorityType
  BY DEF Relocated
<1> QED BY <1>3, <1>6, <1>8, <1>9, <1>10, Finishes

\* A copy repair that applies keeps the invariant, whether it completes a
\* replica, one leg of a placement or the whole of it.
LEMMA AppliedKeeps ==
  ASSUME RepairInv, NEW w \in Workers, worker[w] # NoClaim, NEW r, r = worker[w].repair,
         r.kind # "DELETE", At(rows, r.target, r.generation) # {}, Applies(r), CompleteCopy(r),
         worker' = [worker EXCEPT ![w] = NoClaim],
         stored' = stored, rows' = rows, scenario' = scenario, placed' = placed
  PROVE  RepairInv'
<1> DEFINE applied == ApplyRepairToAuthority(auth, r)
           b == IF applied = auth THEN auth ELSE [applied EXCEPT !.cas = @ + 1]
           done == Done(r, "DONE")
           cleanups == PlacementCleanupRepairs(auth, b, r.version)
           waiting == InsertWaiting(done, cleanups)
           due == Activate(waiting, r.generation, r.version)
           gone == Locations(auth) \ Locations(b)
<1>1. /\ auth' = b
      /\ \/ r.kind # "PLACEMENT" /\ repairs' = done
         \/ r.kind = "PLACEMENT" /\ repairs' \in {waiting, due}
  BY DEF CompleteCopy
<1>2. /\ ~CleanupInProgress(r) /\ auth.generation = r.generation /\ auth.cas = r.cas /\ auth.live
  BY DEF Applies
<1>3. auth \in AuthorityType /\ r \in RepairType /\ Behind(auth, r) /\ r.version \in Nat
  BY Running DEF RepairInv, RepairType
<1>4. Relocated(auth, b, r) /\ \A x \in RepairType : Behind(auth, x) => Behind(b, x)
  BY <1>3, CopyRelocates
<1>5. DOMAIN done = DOMAIN repairs /\ Sound(auth, done)
  BY CopyDone
<1> HIDE DEF b, done
<1>6. b \in AuthorityType /\ b.generation = r.generation /\ auth.generation <= b.generation
  BY <1>2, <1>3, <1>4 DEF Relocated, AuthorityType
<1>7. Sound(b, done)
  BY <1>4, <1>5 DEF Sound
<1>8. CASE r.kind # "PLACEMENT"
  <2>1. r.kind = "REPLICA"
    BY <1>3, <1>8 DEF RepairType
  <2>2. r.target = IF r.role = "primary" THEN auth.primary ELSE auth.replica
    BY <1>2, <1>3, <2>1 DEF Behind
  <2>3. Locations(b) = Locations(auth)
    BY <1>4, <2>1, <2>2 DEF Relocated, Locations
  <2>4. Kept(done, done)
    BY DEF Kept
  <2> QED BY <1>1, <1>2, <1>4, <1>5, <1>7, <1>8, <2>3, <2>4, CutoverKeeps DEF done
<1>9. CASE r.kind = "PLACEMENT"
  <2>1. Fresh(b, cleanups) /\ {Key(x) : x \in cleanups} = {<<"DELETE", r.generation, l>> : l \in gone}
    BY <1>3, <1>6, CutoverFresh
  <2> HIDE DEF cleanups
  <2>2. /\ DOMAIN waiting = DOMAIN done \cup {Key(x) : x \in cleanups}
        /\ Sound(b, waiting) /\ Kept(done, waiting)
        /\ \A x \in cleanups : Key(x) \in DOMAIN done \/ waiting[Key(x)].state # "DONE"
    BY ONLY <1>7, <2>1, WaitingKeeps
  <2> HIDE DEF waiting
  <2>3. DOMAIN due = DOMAIN waiting /\ Sound(b, due) /\ Kept(waiting, due)
    BY ONLY <2>2, ActivateKeeps
  <2> HIDE DEF due
  <2>4. PICK out \in {waiting, due} : repairs' = out
    BY <1>1, <1>9
  <2>5. Kept(done, out)
    BY <2>2, <2>3, <2>4, KeptTwice
  <2>6. DOMAIN out = DOMAIN repairs \cup {<<"DELETE", r.generation, l>> : l \in gone} /\ Sound(b, out)
    BY <1>5, <2>1, <2>2, <2>3, <2>4
  <2>7. ASSUME NEW l \in gone
        PROVE  LET d == <<"DELETE", r.generation, l>> IN
               d \in DOMAIN repairs \/ (d \in DOMAIN out /\ out[d].state # "DONE")
    <3> DEFINE d == <<"DELETE", r.generation, l>>
    <3>1. d \in {Key(x) : x \in cleanups}
      BY <2>1
    <3>2. d \in DOMAIN done \/ (d \in DOMAIN waiting /\ waiting[d].state # "DONE")
      BY <2>2, <3>1
    <3>3. d \in DOMAIN done \/ (d \in DOMAIN due /\ due[d].state # "DONE")
      BY <2>3, <3>2 DEF Kept
    <3> HIDE DEF d
    <3>4. d \in DOMAIN repairs \/ (d \in DOMAIN out /\ out[d].state # "DONE")
      BY <1>5, <2>4, <3>2, <3>3
    <3> QED BY <3>4 DEF d
  <2> QED BY <1>1, <1>2, <1>4, <1>9, <2>4, <2>5, <2>6, <2>7, CutoverKeeps DEF done
<1> QED BY <1>8, <1>9

\* A copy to a backend that serves its generation already is only marked DONE.
LEMMA ServedKeeps ==
  ASSUME RepairInv, NEW w \in Workers, worker[w] # NoClaim,
         Serving(auth, worker[w].repair.generation, worker[w].repair.target),
         repairs' = Done(worker[w].repair, "DONE"), auth' = auth,
         worker' = [worker EXCEPT ![w] = NoClaim],
         stored' = stored, rows' = rows, scenario' = scenario, placed' = placed
  PROVE  RepairInv'
<1> DEFINE r == worker[w].repair
           k == Key(r)
           row == [repairs[k] EXCEPT !.state = "DONE", !.token = NoBackend]
<1>1. /\ Done(r, "DONE") = [repairs EXCEPT ![k] = row]
      /\ row \in RepairType /\ row.kind = repairs[k].kind
      /\ row.generation = repairs[k].generation /\ row.role = repairs[k].role
      /\ row.target = repairs[k].target /\ row.cas = repairs[k].cas /\ row.state = "DONE"
  BY DoneRow
<1> HIDE DEF row
<1> QED BY <1>1, ReleaseKeeps

\* The end of an execution keeps the invariant.
LEMMA CompleteKeeps == ASSUME RepairInv, NEW w \in Workers, CompleteRepair(w) PROVE RepairInv'
<1>1. worker[w] # NoClaim
  <2>1. worker[w].at = "executed"
    BY DEF CompleteRepair
  <2> QED BY <2>1 DEF NoClaim
<1>2. PICK r : r = worker[w].repair
  OBVIOUS
<1>3. /\ worker' = [worker EXCEPT ![w] = NoClaim]
      /\ stored' = stored /\ rows' = rows /\ scenario' = scenario /\ placed' = placed
  BY DEF CompleteRepair
<1>4. CASE HoldsLease(r) /\ r.kind = "DELETE" /\ CompleteCleanup(r)
  BY <1>1, <1>2, <1>3, <1>4, CleanupKeeps
<1>5. CASE HoldsLease(r) /\ r.kind # "DELETE" /\ CompleteCopy(r)
  <2>1. At(rows, r.target, r.generation) # {}
    BY <1>5 DEF CompleteCopy
  <2>2. CASE Applies(r)
    BY <1>1, <1>2, <1>3, <1>5, <2>1, <2>2, AppliedKeeps
  <2>3. CASE ~Applies(r) /\ Serving(auth, r.generation, r.target)
    <3>1. repairs' = Done(r, "DONE") /\ auth' = auth
      BY <1>5, <2>3 DEF CompleteCopy, IsAuthoritative, Serving
    <3> QED BY <1>1, <1>2, <1>3, <2>3, <3>1, ServedKeeps
  <2>4. CASE ~Applies(r) /\ ~Serving(auth, r.generation, r.target)
    <3>1. repairs' = InsertRepairs(Done(r, "DONE"), {StaleRepairCleanup(r)}) /\ auth' = auth
      BY <1>5, <2>4 DEF CompleteCopy, IsAuthoritative, Serving
    <3> QED BY <1>1, <1>2, <1>3, <2>4, <3>1, StaleKeeps
  <2> QED BY <2>2, <2>3, <2>4
<1>6. CASE auth' = auth /\ repairs' = repairs
  <2>1. Claimed(auth, repairs, w, NoClaim)
    BY DEF Claimed
  <2> QED BY <1>3, <1>6, <2>1, WorkerMoves
<1> QED BY <1>2, <1>4, <1>5, <1>6 DEF CompleteRepair

\* A lease that no kind of lapse takes from a running worker only expires when
\* nobody runs it.
LEMMA ExpireKeeps ==
  ASSUME RepairInv, LapseKinds = {}, NEW k \in DOMAIN repairs, Expire(k)
  PROVE  RepairInv'
<1> DEFINE r == repairs[k]
           row == [r EXCEPT !.expired = TRUE]
           out == [repairs EXCEPT ![k] = row]
<1>1. /\ repairs' = out /\ worker' = worker /\ auth' = auth
      /\ stored' = stored /\ rows' = rows /\ scenario' = scenario /\ placed' = placed
  BY DEF Expire
<1>2. /\ r.state = "LEASED" /\ \A v \in Workers : worker[v] # NoClaim => worker[v].repair.token # r.token
  BY DEF Expire
<1>3. r \in RepairType
  BY DEF RepairInv, Sound
<1> HIDE DEF r
<1>4. /\ row \in RepairType /\ row.kind = r.kind /\ row.generation = r.generation
      /\ row.role = r.role /\ row.target = r.target /\ row.cas = r.cas /\ row.state = r.state
  BY <1>3 DEF RepairType
<1> HIDE DEF row
<1>5. /\ DOMAIN out = DOMAIN repairs /\ Sound(auth, out) /\ out[k] = row
      /\ \A j \in DOMAIN repairs : j # k => out[j] = repairs[j]
  BY <1>4, RowMoves DEF RepairInv, r
<1> HIDE DEF out
<1>6. Spared(auth, out)
  BY <1>4, <1>5 DEF RepairInv, Spared, r
<1>7. Accounted(auth, out, rows)
  <2>1. ASSUME NEW c, Covered(repairs, c) PROVE Covered(out, c)
    BY <1>2, <1>4, <1>5, <2>1 DEF Covered, r
  <2> QED BY <2>1 DEF RepairInv, Accounted
<1>8. ASSUME NEW v \in Workers
      PROVE  Claimed(auth, out, v, worker[v])
  <2>1. Claimed(auth, repairs, v, worker[v])
    BY DEF RepairInv
  <2>2. LET j == Key(worker[v].repair) IN worker[v] # NoClaim => j \in DOMAIN out /\ out[j] = repairs[j]
    BY <1>2, <1>5, Running DEF r
  <2> QED BY <2>1, <2>2, ClaimStays
<1> QED BY <1>1, <1>5, <1>6, <1>7, <1>8 DEF RepairInv, Plan

\* The first state of the key satisfies the invariant.
LEMMA RepairStarts == RepairInit => RepairInv
<1> SUFFICES ASSUME RepairInit
             PROVE  RepairInv
  OBVIOUS
<1>1. scenario \in Scenarios /\ placed \in DOMAIN Plan
  <2>1. scenario.placements \in Seq(Placement) /\ scenario.placements # <<>>
    BY RepairAssumption DEF RepairInit
  <2> QED BY <2>1 DEF RepairInit, Plan
<1>2. auth \in AuthorityType /\ ~auth.live /\ auth.replicaStatus = "ABSENT"
  <2>1. <<>> \in VersionIds
    BY DEF VersionIds
  <2> QED BY <2>1 DEF RepairInit, AuthorityType, Located, CopyStatus
<1>3. Sound(auth, repairs) /\ Spared(auth, repairs)
  BY DEF RepairInit, Sound, Spared
<1>4. DOMAIN worker = Workers /\ \A w \in Workers : Claimed(auth, repairs, w, worker[w])
  BY DEF RepairInit, Claimed
<1>5. stored = {} /\ rows = {}
  BY DEF RepairInit
<1> QED BY <1>1, <1>2, <1>3, <1>4, <1>5 DEF RepairInv, Named, Ready, Accounted

\* Every step of writers, readers and repair workers keeps the invariant.
LEMMA RepairSteps == LapseKinds = {} /\ RepairInv /\ [RepairNext]_repairVars => RepairInv'
<1> SUFFICES ASSUME LapseKinds = {}, RepairInv, [RepairNext]_repairVars
             PROVE  RepairInv'
  OBVIOUS
<1>1. CASE UNCHANGED repairVars
  BY <1>1 DEF repairVars, RepairInv, Plan
<1>2. CASE Publish \/ Tombstone \/ RecordPlacementPolicy
  BY <1>2, PublishKeeps, TombstoneKeepsCopies, PolicyKeeps
<1>3. CASE OpenAuthoritative \/ ReconcileAuthorityPlacement
  BY <1>3, OpenKeeps, ReconcileKeeps
<1>4. ASSUME NEW w \in Workers, WorkerStep(w)
      PROVE  RepairInv'
  BY <1>4, ClaimKeeps, ReadKeeps, WriteKeeps, CheckKeeps, ListKeeps, DeleteKeeps,
     ExecuteFailsKeeps, CompleteKeeps, FailKeeps, DiesKeeps DEF WorkerStep
<1>5. ASSUME NEW k \in DOMAIN repairs, Expire(k)
      PROVE  RepairInv'
  BY <1>5, ExpireKeeps
<1> QED BY <1>1, <1>2, <1>3, <1>4, <1>5 DEF RepairNext

\* A lease, a row and an authority agree in every reachable state: what a worker
\* runs is leased to it, no cleanup of a location that reads rely on is leased,
\* and every repair is behind the authority it was recorded for.
THEOREM LeasesSpareReads ==
  ASSUME LapseKinds = {}
  PROVE  RepairSpec => []RepairInv
BY RepairStarts, RepairSteps, PTL DEF RepairSpec

\* READY locations hold the authoritative generation and stray copies are named
\* by a repair (claim_repairs, complete_repair, delete_generation), for every
\* number of backends, workers, placements and PUTs.
THEOREM RepairsStaySound ==
  ASSUME LapseKinds = {}
  PROVE  RepairSpec => []RepairsSound
<1>1. RepairInv => RepairsSound
  BY DEF RepairInv, RepairsSound, ReadyHolds, StrayCovered, Ready, Accounted, Covered, Serving,
         IsAuthoritative, Revisited
<1> QED BY <1>1, LeasesSpareReads, PTL

=============================================================================
