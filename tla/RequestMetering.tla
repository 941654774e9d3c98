-------------------------- MODULE RequestMetering --------------------------
(***************************************************************************)
(* The metering of the S3 request handlers: a request reserves usage at    *)
(* the control plane before its operation runs, and afterwards records the *)
(* usage, releases the reservation, or keeps it because nobody knows what  *)
(* happened (server/s3_objects.rs, s3_upload.rs, s3_batch_delete.rs,       *)
(* server/auth.rs, control.rs), with the settlement of managed deletes by  *)
(* the background worker (service_storage/core.rs).                        *)
(*                                                                         *)
(* A request's kind is the path its handler takes:                         *)
(*   get        GET under an explicit passthrough pipeline                 *)
(*   head, list HeadObject, ListObjects and ListMultipartUploads           *)
(*   spool      transformed GET staged in the encrypted spool              *)
(*   avro, lance  transformed GET of an Avro or Lance object               *)
(*   direct     transformed GET streamed while it is produced              *)
(*   put, put_avro, put_lance  PutObject                                   *)
(*   delete     DeleteObject, or one key of DeleteObjects, not managed     *)
(*   managed    the same in managed enforce mode                           *)
(*   abort      AbortMultipartUpload                                       *)
(*   complete   CompleteMultipartUpload                                    *)
(* Sizes are abstracted: a response's size is acceptable or it is not.     *)
(***************************************************************************)
EXTENDS Naturals, FiniteSets

CONSTANTS
  Requests,        \* concurrent requests
  Kinds,           \* the kinds of request that occur
  MaxCompletions,  \* bound: exact retries of one CompleteMultipartUpload
  MaxFaults,       \* bound: failures of the control plane or of the storage
  NoRequest           \* no completion lease

VARIABLES
  handler,      \* request -> its kind, operation identity and next step
  reservation,  \* operation -> "none", "held" or "released" at the control plane
  recorded,     \* operations whose usage event the control plane holds
  effect,       \* operation -> what storage or client saw: "none", "unknown",
                \*   "done" or, proven by the journal, "aborted"
  settlement,   \* operation -> "none", "pending" or "settled": durable delete row
  body,         \* request -> the DirectReadBody of a direct read
  lease,        \* holder of the upload's completion lease
  completed,    \* the upload has a durable completion result
  lost,         \* operations for which the control plane failed to answer
  requestFaults \* failures so far

meteringVars == <<handler, reservation, recorded, effect, settlement, body, lease,
                  completed, lost, requestFaults>>

Op(r) == handler[r].op

Pc(r) == handler[r].pc
Goto(r, pc) == handler' = [handler EXCEPT ![r].pc = pc]

\* The body starts with the first chunk or, for an empty projection, with its
\* settlement already under way.
NoBody == [first |-> FALSE, settling |-> 0, disclosed |-> FALSE, owned |-> FALSE]

MeteringInit ==
  /\ handler \in [Requests -> [kind : Kinds, op : Requests, pc : {"start"}]]
  /\ \A r \in Requests :
       handler[r].kind # "complete" => handler[r].op = r
  /\ \A r, s \in {q \in Requests : handler[q].kind = "complete"} :
       handler[r].op = handler[s].op /\ handler[handler[r].op].kind = "complete"
  /\ Cardinality({r \in Requests : handler[r].kind = "complete"}) <= MaxCompletions
  /\ reservation = [o \in Requests |-> "none"]
  /\ recorded = {}
  /\ effect = [o \in Requests |-> "none"]
  /\ settlement = [o \in Requests |-> "none"]
  /\ body = [r \in Requests |-> NoBody]
  /\ lease = NoRequest /\ completed = FALSE
  /\ lost = {} /\ requestFaults = 0

Binary == {"avro", "lance"}
Buffered == {"get", "head", "list", "spool"} \cup Binary

Fault == requestFaults < MaxFaults /\ requestFaults' = requestFaults + 1

----------------------------------------------------------------------------
(* The control plane, external: a call may be lost before or after it      *)
(* took effect, and an exact replay of a record is accepted.               *)

Reserve(o) == reservation' = [reservation EXCEPT ![o] = IF @ = "none" THEN "held" ELSE @]
Unreserve(o) == reservation' = [reservation EXCEPT ![o] = "released"]

\* Authentication, a client-supplied metering id or the pipeline resolution
\* fails: nothing was reserved yet.
Reject(r) ==
  /\ Pc(r) = "start"
  /\ Goto(r, "answered")
  /\ UNCHANGED <<reservation, recorded, effect, settlement, body, lease, completed, lost,
                 requestFaults>>

AuthorizeRequest(r) ==
  /\ Pc(r) = "start"
  /\ \/ /\ Reserve(Op(r)) /\ Goto(r, "gate")
        /\ UNCHANGED <<lost, requestFaults>>
     \/ /\ Fault /\ Goto(r, "answered")
        /\ lost' = lost \cup {Op(r)}
        /\ Reserve(Op(r)) \/ UNCHANGED reservation
  /\ UNCHANGED <<recorded, effect, settlement, body, lease, completed>>

\* A failure with the reservation handed back; when the control plane does not
\* answer the reservation stays as it is.
ReleaseFailure(r) ==
  /\ Pc(r) = "release"
  /\ \/ Unreserve(Op(r)) /\ UNCHANGED <<lost, requestFaults>>
     \/ /\ Fault /\ lost' = lost \cup {Op(r)}
        /\ Unreserve(Op(r)) \/ UNCHANGED reservation
  /\ Goto(r, "answered")
  /\ UNCHANGED <<recorded, effect, settlement, body, lease, completed>>

\* The usage of a finished operation. Buffered reads deliver their body only
\* once the record is acknowledged; a managed delete is then acknowledged in
\* the ledger, which it survives not reaching.
RecordUsage(r) ==
  LET managed == handler[r].kind = "managed"
      read == handler[r].kind \in Buffered
  IN
  /\ Pc(r) = "record"
  /\ \/ /\ recorded' = recorded \cup {Op(r)}
        /\ Goto(r, IF managed THEN "settle" ELSE "answered")
        /\ effect' = IF read THEN [effect EXCEPT ![Op(r)] = "done"] ELSE effect
        /\ UNCHANGED <<lost, requestFaults>>
     \/ /\ Fault /\ lost' = lost \cup {Op(r)}
        /\ recorded' = recorded \cup {Op(r)} \/ UNCHANGED recorded
        /\ Goto(r, "answered")
        /\ UNCHANGED effect
  /\ UNCHANGED <<reservation, settlement, body, lease, completed>>

\* The committed delete's row goes from PENDING to SETTLED, and a repetition
\* finds it settled.
MarkLogicalOperationSettled(o) ==
  /\ settlement[o] # "none"
  /\ settlement' = [settlement EXCEPT ![o] = "settled"]

MarkSettled(r) ==
  /\ Pc(r) = "settle"
  /\ \/ MarkLogicalOperationSettled(Op(r)) /\ UNCHANGED requestFaults
     \/ UNCHANGED settlement /\ Fault
  /\ Goto(r, "answered")
  /\ UNCHANGED <<reservation, recorded, effect, body, lease, completed, lost>>

----------------------------------------------------------------------------
(* Admission after the grant, and the reads.                               *)

\* Pipeline snapshot, backend resolution, placement freeze, policy gate and
\* the consumption of its verdict; any of them may refuse.
EnforcePolicy(r) ==
  /\ Pc(r) = "gate"
  /\ Goto(r, "run") \/ (handler[r].kind # "complete" /\ Goto(r, "release"))
  /\ UNCHANGED <<reservation, recorded, effect, settlement, body, lease, completed, lost,
                 requestFaults>>

\* A refused preflight, a failed open, an unmet condition: the Avro and Lance
\* branches answer without handing the reservation back.
OpenFails(r) ==
  /\ Pc(r) = "run" /\ handler[r].kind \in Buffered \cup {"direct"}
  /\ Goto(r, IF handler[r].kind \in Binary THEN "answered" ELSE "release")
  /\ UNCHANGED <<reservation, recorded, effect, settlement, body, lease, completed, lost,
                 requestFaults>>

\* metered_read_response: an error response, an unknown or an excessive size
\* is released, anything else is recorded before it is delivered.
MeteredReadResponse(r) ==
  /\ Pc(r) = "run"
  /\ Goto(r, "record") \/ Goto(r, "release")
  /\ UNCHANGED <<reservation, recorded, effect, settlement, body, lease, completed, lost,
                 requestFaults>>

\* The reads whose representation is complete before it is delivered.
GetObject(r) == handler[r].kind = "get" /\ MeteredReadResponse(r)
HeadObject(r) == handler[r].kind = "head" /\ MeteredReadResponse(r)
ListObjects(r) == handler[r].kind = "list" /\ MeteredReadResponse(r)
SpooledRead(r) == handler[r].kind = "spool" /\ MeteredReadResponse(r)
AvroRead(r) == handler[r].kind = "avro" /\ MeteredReadResponse(r)
LanceRead(r) == handler[r].kind = "lance" /\ MeteredReadResponse(r)

\* The first event of the worker decides: a failure is released by the
\* caller, a first chunk or an immediate end becomes a streaming body.
TransformedReadResponse(r) ==
  /\ Pc(r) = "run" /\ handler[r].kind = "direct"
  /\ \E first \in BOOLEAN :
       body' = [body EXCEPT ![r] =
                  [first |-> first, settling |-> IF first THEN 0 ELSE 3,
                   disclosed |-> FALSE, owned |-> TRUE]]
  /\ Goto(r, "body")
  /\ UNCHANGED <<reservation, recorded, effect, settlement, lease, completed, lost,
                 requestFaults>>

\* The next chunk reaches the client.
PollData(r) ==
  /\ Pc(r) = "body" /\ body[r].settling = 0
  /\ body' = [body EXCEPT ![r].first = FALSE, ![r].disclosed = TRUE]
  /\ effect' = [effect EXCEPT ![Op(r)] = "done"]
  /\ UNCHANGED <<handler, reservation, recorded, settlement, lease, completed, lost,
                 requestFaults>>

\* The worker fails or disappears, or produced more than was authorized; only
\* a reported failure of an undisclosed body is released.
PollFailed(r) ==
  /\ Pc(r) = "body" /\ body[r].settling = 0 /\ ~body[r].first
  /\ Goto(r, IF body[r].disclosed THEN "answered" ELSE "release")
  /\ body' = [body EXCEPT ![r].owned = FALSE]
  /\ UNCHANGED <<reservation, recorded, effect, settlement, lease, completed, lost,
                 requestFaults>>

PollDone(r) ==
  /\ Pc(r) = "body" /\ body[r].settling = 0 /\ ~body[r].first
  /\ body' = [body EXCEPT ![r].settling = 3]
  /\ UNCHANGED <<handler, reservation, recorded, effect, settlement, lease, completed, lost,
                 requestFaults>>

\* direct_settlement_future: up to three records of the same receipt.
PollSettlement(r) ==
  /\ Pc(r) = "body" /\ body[r].settling > 0
  /\ \/ /\ recorded' = recorded \cup {Op(r)}
        /\ body' = [body EXCEPT ![r].settling = 0, ![r].owned = FALSE]
        /\ Goto(r, "answered")
        /\ UNCHANGED <<lost, requestFaults>>
     \/ /\ Fault /\ lost' = lost \cup {Op(r)}
        /\ recorded' = recorded \cup {Op(r)} \/ UNCHANGED recorded
        /\ body' = [body EXCEPT ![r].settling = @ - 1]
        /\ IF body[r].settling = 1 THEN Goto(r, "answered") ELSE UNCHANGED handler
  /\ UNCHANGED <<reservation, effect, settlement, lease, completed>>

\* Mutant: the drop forgets that bytes went out.
MutDropBody(r) ==
  /\ Pc(r) = "body"
  /\ Goto(r, IF body[r].owned THEN "release" ELSE "answered")
  /\ body' = [body EXCEPT ![r].owned = FALSE]
  /\ UNCHANGED <<reservation, recorded, effect, settlement, lease, completed, lost,
                 requestFaults>>

\* The client goes away: the body is dropped, and releases what it still owns
\* unless bytes were disclosed.
DropBody(r) ==
  /\ Pc(r) = "body"
  /\ Goto(r, IF body[r].owned /\ ~body[r].disclosed THEN "release" ELSE "answered")
  /\ body' = [body EXCEPT ![r].owned = FALSE]
  /\ UNCHANGED <<reservation, recorded, effect, settlement, lease, completed, lost,
                 requestFaults>>

----------------------------------------------------------------------------
(* The writes.                                                             *)

\* The outcome of a storage mutation for the reservation: nothing happened,
\* it happened, or nobody knows (and the journal resolves it later).
Outcome(r, e) ==
  /\ effect' = [effect EXCEPT ![Op(r)] = e]
  /\ Goto(r, CASE e = "done" -> "record" [] e = "none" -> "release" [] OTHER -> "answered")

\* A failure before the sink entered its commit aborts the sink and releases;
\* afterwards the reservation is preserved (commit_state().preserves_reservation).
PutThroughSink(r) ==
  /\ Pc(r) = "run"
  /\ \/ Outcome(r, "done") /\ UNCHANGED requestFaults
     \/ Outcome(r, "none") /\ UNCHANGED requestFaults
     \/ Outcome(r, "unknown") /\ Fault
  /\ UNCHANGED <<reservation, recorded, settlement, body, lease, completed, lost>>

StreamingSinglePut(r) == handler[r].kind = "put" /\ PutThroughSink(r)
AvroSinglePut(r) == handler[r].kind = "put_avro" /\ PutThroughSink(r)
LanceSinglePut(r) == handler[r].kind = "put_lance" /\ PutThroughSink(r)

\* A delete at a presigned URL, a bucket or the file store: only a rejected
\* presigned destination is released, any failure past that point keeps the
\* reservation, whether or not the storage is known to be untouched.
DeleteKey(r) ==
  /\ Pc(r) = "run" /\ handler[r].kind = "delete"
  /\ \/ Outcome(r, "done") /\ UNCHANGED requestFaults
     \/ Outcome(r, "none") /\ UNCHANGED requestFaults
     \/ Outcome(r, "unknown") /\ Fault
     \/ Goto(r, "answered") /\ Fault /\ UNCHANGED effect
  /\ UNCHANGED <<reservation, recorded, settlement, body, lease, completed, lost>>

\* delete_authoritative: the tombstone and its pending settlement commit in
\* one transaction; an unknown commit is entered once more.
DeleteAuthoritative(r) ==
  /\ \/ Pc(r) = "run" /\ handler[r].kind = "managed"
     \/ Pc(r) = "again"
  /\ \/ /\ settlement[Op(r)] = "none"
        /\ settlement' = [settlement EXCEPT ![Op(r)] = "pending"]
        /\ \/ Outcome(r, "done") /\ UNCHANGED requestFaults
           \/ /\ Fault
              /\ effect' = [effect EXCEPT ![Op(r)] = "done"]
              /\ Goto(r, IF Pc(r) = "run" THEN "again" ELSE "answered")
     \/ \* The first attempt committed: the replay observes it.
        /\ settlement[Op(r)] # "none" /\ Pc(r) = "again"
        /\ Outcome(r, "done") /\ UNCHANGED <<settlement, requestFaults>>
     \/ /\ Fault /\ UNCHANGED <<settlement, effect>>
        /\ Goto(r, IF Pc(r) = "run" THEN "again" ELSE "answered")
     \/ /\ settlement[Op(r)] = "none"
        /\ Goto(r, IF Pc(r) = "run" THEN "release" ELSE "answered")
        /\ UNCHANGED <<settlement, effect, requestFaults>>
  /\ UNCHANGED <<reservation, recorded, body, lease, completed, lost>>

\* Aborting an upload that is no longer open is still recorded.
AbortUpload(r) ==
  /\ Pc(r) = "run" /\ handler[r].kind = "abort"
  /\ \/ Outcome(r, "done") /\ UNCHANGED requestFaults
     \/ Goto(r, "record") /\ UNCHANGED <<effect, requestFaults>>
     \/ Outcome(r, "none") /\ UNCHANGED requestFaults
     \/ Outcome(r, "unknown") /\ Fault
  /\ UNCHANGED <<reservation, recorded, settlement, body, lease, completed, lost>>

\* The journal settles what a handler left unknown.
ReconcileOperation(o) ==
  /\ effect[o] = "unknown"
  /\ \E e \in {"done", "aborted"} : effect' = [effect EXCEPT ![o] = e]
  /\ UNCHANGED <<handler, reservation, recorded, settlement, body, lease, completed, lost,
                 requestFaults>>

----------------------------------------------------------------------------
(* CompleteMultipartUpload: exact retries share one operation identity and *)
(* therefore one reservation.                                              *)

\* A replay records again, a live lease of another worker answers SlowDown
\* and keeps the reservation, a refusal or a repository error releases it.
AcquireCompletion(r) ==
  /\ Pc(r) = "run" /\ handler[r].kind = "complete"
  /\ \/ completed /\ Goto(r, "record") /\ UNCHANGED <<lease, requestFaults>>
     \/ ~completed /\ lease # NoRequest /\ Goto(r, "answered") /\ UNCHANGED <<lease, requestFaults>>
     \/ ~completed /\ lease = NoRequest /\ lease' = r /\ Goto(r, "acquired") /\ UNCHANGED requestFaults
     \/ ~completed /\ lease = NoRequest /\ effect[Op(r)] = "none" /\ Goto(r, "release")
        /\ UNCHANGED <<lease, requestFaults>>
     \/ Fault /\ Goto(r, "release") /\ UNCHANGED lease
  /\ UNCHANGED <<reservation, recorded, effect, settlement, body, completed, lost>>

\* reconcile_existing_direct_completion: what the journal knows of an earlier
\* attempt of the same operation decides whether this one publishes.
ExistingCompletion(r) ==
  /\ Pc(r) = "acquired"
  /\ completed' = (completed \/ (lease = r /\ effect[Op(r)] = "done"))
  /\ Goto(r, CASE effect[Op(r)] = "none" -> "publish"
               [] effect[Op(r)] = "done" /\ completed' -> "record"
               [] effect[Op(r)] = "aborted" -> "release"
               [] OTHER -> "answered")
  /\ UNCHANGED <<reservation, recorded, effect, settlement, body, lease, lost, requestFaults>>

\* complete_staged_multipart up to the durable result: it publishes only with
\* its lease, an outcome past the commit preserves the reservation, and any
\* failure before it, a lost lease included, releases it.
CompleteStagedMultipart(r) ==
  /\ Pc(r) = "publish"
  /\ \/ /\ lease = r /\ completed' = TRUE /\ lease' = NoRequest
        /\ Outcome(r, "done") /\ UNCHANGED requestFaults
     \/ /\ lease = r /\ Fault /\ Outcome(r, "unknown") /\ UNCHANGED <<completed, lease>>
     \/ /\ Goto(r, "release") /\ UNCHANGED <<completed, lease, effect, requestFaults>>
  /\ UNCHANGED <<reservation, recorded, settlement, body, lost>>

\* A lease runs out once its worker is gone, or under a slow one.
LeaseLapses ==
  /\ lease # NoRequest
  /\ lease' = NoRequest
  /\ IF Pc(lease) \in {"acquired", "publish"} THEN Fault ELSE UNCHANGED requestFaults
  /\ UNCHANGED <<handler, reservation, recorded, effect, settlement, body, completed, lost>>

----------------------------------------------------------------------------
(* The handler dies with its process, and the settlement worker.           *)

Crash(r) ==
  /\ Pc(r) \notin {"start", "answered"}
  /\ Fault /\ Goto(r, "answered")
  /\ lost' = lost \cup {Op(r)}
  /\ UNCHANGED <<reservation, recorded, effect, settlement, body, lease, completed>>

PendingDeleteSettlements == {o \in Requests : settlement[o] = "pending"}

\* The row is moved to the back of the queue and stays pending.
DeferDeleteSettlement == UNCHANGED settlement /\ Fault

\* Mutant: the row is acknowledged although its usage may not be recorded.
MutReconcileDeleteSettlement(o) ==
  /\ settlement[o] = "pending"
  /\ settlement' = [settlement EXCEPT ![o] = "settled"]
  /\ \/ recorded' = recorded \cup {o} /\ UNCHANGED requestFaults
     \/ UNCHANGED recorded /\ Fault
  /\ UNCHANGED <<handler, reservation, effect, body, lease, completed, lost>>

\* reconcile_managed_delete_settlements: the row is acknowledged only after
\* its usage was recorded; on any failure it is deferred and tried again.
ReconcileDeleteSettlement(o) ==
  /\ o \in PendingDeleteSettlements
  /\ \/ /\ recorded' = recorded \cup {o}
        /\ \/ MarkLogicalOperationSettled(o) /\ UNCHANGED requestFaults
           \/ DeferDeleteSettlement
     \/ UNCHANGED recorded /\ DeferDeleteSettlement
  /\ UNCHANGED <<handler, reservation, effect, body, lease, completed, lost>>

BodyStep(r) == PollData(r) \/ PollFailed(r) \/ PollDone(r) \/ PollSettlement(r) \/ DropBody(r)

MeteringNext ==
  \/ \E r \in Requests :
       \/ Reject(r) \/ AuthorizeRequest(r) \/ EnforcePolicy(r) \/ OpenFails(r)
       \/ GetObject(r) \/ HeadObject(r) \/ ListObjects(r) \/ SpooledRead(r)
       \/ AvroRead(r) \/ LanceRead(r) \/ TransformedReadResponse(r) \/ BodyStep(r)
       \/ StreamingSinglePut(r) \/ AvroSinglePut(r) \/ LanceSinglePut(r)
       \/ DeleteKey(r) \/ DeleteAuthoritative(r) \/ AbortUpload(r)
       \/ AcquireCompletion(r) \/ ExistingCompletion(r) \/ CompleteStagedMultipart(r)
       \/ RecordUsage(r) \/ MarkSettled(r) \/ ReleaseFailure(r) \/ Crash(r)
       \/ ReconcileOperation(r) \/ ReconcileDeleteSettlement(r)
  \/ LeaseLapses

MeteringSpec == MeteringInit /\ [][MeteringNext]_meteringVars

\* The background worker repeats its settlement round for ever.
MeteringFairness == \A o \in Requests : WF_meteringVars(ReconcileDeleteSettlement(o))

----------------------------------------------------------------------------
(* Properties.                                                             *)

\* An operation whose bytes were disclosed, whose object or tombstone is
\* stored, or whose outcome nobody knows, has not had its reservation handed
\* back: release is for operations that did not become billable (release).
EffectReserved ==
  \A o \in Requests : effect[o] \in {"unknown", "done"} => reservation[o] # "released"

\* Every committed tombstone of a managed delete is billed and acknowledged,
\* whichever of handler, control plane and ledger failed in between
\* (reconcile_managed_delete_settlements).
DeletesSettle ==
  \A o \in Requests :
    settlement[o] = "pending" ~> (settlement[o] = "settled" /\ o \in recorded)

\* Once no request of an operation is running, its reservation was recorded
\* or released, unless it has to be kept because storage or the control plane
\* failed to answer (authorize, release, record).
GrantsResolved ==
  \A o \in Requests :
    (/\ reservation[o] = "held" /\ o \notin recorded /\ o \notin lost
     /\ \A r \in Requests : Op(r) = o => Pc(r) = "answered")
    => effect[o] \in {"unknown", "done"}

=============================================================================
