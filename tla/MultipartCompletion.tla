------------------------ MODULE MultipartCompletion ------------------------
(***************************************************************************)
(* CompleteMultipartUpload: identical and conflicting requests acquire a    *)
(* lease on the upload, stage the object into a sink, exchange the lease    *)
(* for a permit to publish, publish, and record the result in repository    *)
(* and journal.  Any request may fail or die at any await; a recovery       *)
(* worker settles uploads left in Publishing from the record, the journal   *)
(* or the commit proof of the file store, and retires terminal uploads.     *)
(* The destination is the file store or S3, the repository that of the      *)
(* single host.  Other writers put and delete the same key.                 *)
(***************************************************************************)
EXTENDS Integers, FiniteSets

CONSTANTS
    Requests,            \* CompleteMultipartUpload requests in flight
    Fingerprints, NoFp,  \* lists of parts a request may name, none
    Backends,            \* destinations to consider: "file", "s3"
    MaxToken,            \* bound on acquisitions
    MaxFaults            \* bound on failures and crashes

VARIABLES
    up,      \* the upload's row
    journal, \* the destination operation's row
    dest,    \* visible object, commit proof
    req,     \* requests
    rec,     \* recovery worker
    ghost    \* publications, clients told, faults

completionVars == <<up, journal, dest, req, rec, ghost>>

NoRow == [st |-> "none", absent |-> FALSE, evidence |-> FALSE]
Waiting == [pc |-> "idle", fp |-> NoFp, token |-> 0]

CompletionInit ==
    /\ up = [life |-> "Open", fp |-> NoFp, token |-> 0, lease |-> "none", permit |-> 0,
             commit |-> FALSE, expired |-> FALSE]
    /\ journal = NoRow
    /\ dest \in [backend : Backends, pointer : {"none"}, proof : {"none"}, fence : {0}]
    /\ req = [r \in Requests |-> Waiting]
    /\ rec = [pc |-> "idle", token |-> 0]
    /\ ghost = [published |-> 0, told |-> {}, faults |-> 0, unpermitted |-> FALSE]

-----------------------------------------------------------------------------
(* The repository                                                          *)

Terminal == {"Completed", "Aborted", "Expired"}

\* acquire_completion answers without a lease in these cases.
Replayed(fp) == up.life = "Completed" /\ up.fp = fp
Busy(fp) ==
    /\ up.fp = fp
    /\ up.life = "Publishing" \/ (up.life = "Completing" /\ up.lease = "live")
Refused(fp) ==
    \/ up.life \in {"Aborted", "Expired", "gone"}
    \/ up.life \in {"Completing", "Publishing", "Completed"} /\ up.fp # fp
    \/ up.life = "Open" /\ up.expired

\* A new fencing token makes every earlier holder stale.
Acquired(fp) ==
    [up EXCEPT !.life = "Completing", !.fp = fp, !.token = @ + 1, !.lease = "live"]

HoldsToken(r) == up.life = "Completing" /\ up.token = req[r].token
HoldsLease(r) == HoldsToken(r) /\ up.lease = "live"

Permitted(token) == [up EXCEPT !.life = "Publishing", !.permit = token, !.lease = "none", !.commit = FALSE]

\* permit_matches: still publishing, under this very permit.
PermitMatches(token) == up.life = "Publishing" /\ up.permit = token /\ up.token = token

MutReleased == [up EXCEPT !.life = "Open", !.permit = 0, !.lease = "none"]
Released == [up EXCEPT !.life = "Completing", !.permit = 0, !.lease = "lapsed"]
Recorded == [up EXCEPT !.commit = TRUE]
CompletedUpload == [up EXCEPT !.life = "Completed"]
ReferenceCleared == [up EXCEPT !.permit = 0, !.commit = FALSE]

-----------------------------------------------------------------------------
(* A request                                                               *)

Goto(r, pc) == req' = [req EXCEPT ![r].pc = pc]
Leave(r) == req' = [req EXCEPT ![r] = Waiting]
KeepDest == UNCHANGED <<dest, rec, ghost>>

Acquire(r) ==
    \E fp \in Fingerprints :
        /\ req[r].pc = "idle" /\ up.token < MaxToken
        /\ ~Replayed(fp) /\ ~Busy(fp) /\ ~Refused(fp)
        /\ up' = Acquired(fp)
        /\ req' = [req EXCEPT ![r] = [pc |-> "acquired", fp |-> fp, token |-> up.token + 1]]
        /\ UNCHANGED journal /\ KeepDest

Replay(r) ==
    \E fp \in Fingerprints :
        /\ req[r].pc = "idle" /\ Replayed(fp) /\ fp \notin ghost.told
        /\ ghost' = [ghost EXCEPT !.told = @ \cup {fp}]
        /\ UNCHANGED <<up, journal, dest, req, rec>>

\* reconcile_existing_direct_completion: a row left by an earlier attempt stops a
\* request to the file store; on S3 the row is settled from what the provider shows.
FirstAttempt(r) ==
    /\ req[r].pc = "acquired" /\ journal.st = "none"
    /\ Goto(r, "stage") /\ UNCHANGED <<up, journal>> /\ KeepDest

InFlight == \E r \in Requests : req[r].pc \in {"put", "answer"}

CheckExisting(r) ==
    /\ req[r].pc = "acquired" /\ journal.st # "none"
    /\ \/ /\ dest.backend = "file"
          /\ Leave(r) /\ UNCHANGED <<up, journal>>
       \/ /\ dest.backend = "s3" /\ journal.st \in {"Open", "Completing", "Unknown"} /\ ~InFlight
          /\ journal' = [journal EXCEPT !.st = IF dest.pointer = "mine" THEN "Committed" ELSE "Aborted"]
          /\ UNCHANGED <<up, req>>
       \/ /\ dest.backend = "s3" /\ journal.st # "Committed"
          /\ Leave(r) /\ UNCHANGED <<up, journal>>
       \/ /\ dest.backend = "s3" /\ journal.st = "Committed"
          /\ Goto(r, "recovered") /\ UNCHANGED <<up, journal>>
    /\ KeepDest

\* complete_recovered_journal_result: the permit for a publication that happened.
Recover(r) ==
    /\ req[r].pc = "recovered" /\ HoldsLease(r)
    /\ up' = Permitted(req[r].token)
    /\ Goto(r, "record") /\ UNCHANGED journal /\ KeepDest

\* renew_and_fence_completion, begin_streaming_sink with open_operation.
OpenSink(r) ==
    /\ req[r].pc = "stage" /\ HoldsToken(r) /\ journal.st = "none"
    /\ up' = [up EXCEPT !.lease = "live"]
    /\ \/ journal' = [NoRow EXCEPT !.st = "Open"] /\ Goto(r, "staging")
       \/ journal' = [NoRow EXCEPT !.st = "Intent"] /\ Leave(r)
    /\ KeepDest

\* While parts are read and written to the sink the lease is renewed.
Renew(r) ==
    /\ req[r].pc = "staging" /\ HoldsToken(r) /\ up.lease # "live"
    /\ up' = [up EXCEPT !.lease = "live"]
    /\ UNCHANGED <<journal, req>> /\ KeepDest

\* The output is verified; expected object, usage and result go to the journal.
AppendEvidence(r) ==
    /\ req[r].pc = "staging" /\ HoldsToken(r)
    /\ journal' = [journal EXCEPT !.evidence = TRUE]
    /\ Goto(r, "begin") /\ UNCHANGED up /\ KeepDest

BeginDestinationCommit(r) ==
    /\ req[r].pc = "begin" /\ HoldsLease(r)
    /\ up' = Permitted(req[r].token)
    /\ Goto(r, "validate") /\ UNCHANGED journal /\ KeepDest

ValidatePermit(r) ==
    /\ req[r].pc = "validate" /\ PermitMatches(req[r].token)
    /\ IF dest.backend = "file"
       THEN Goto(r, "prepare") /\ UNCHANGED journal
       ELSE Goto(r, "put") /\ journal' = [journal EXCEPT !.st = "Completing"]
    /\ UNCHANGED up /\ KeepDest

\* FileStore: a prepared proof of another fence is a mismatch.
PrepareTransaction(r) ==
    /\ req[r].pc = "prepare"
    /\ dest.proof = "none" \/ dest.fence = req[r].token
    /\ dest' = [dest EXCEPT !.proof = IF @ = "none" THEN "prepared" ELSE @, !.fence = req[r].token]
    /\ Goto(r, "revalidate") /\ UNCHANGED <<up, journal, rec, ghost>>

Revalidate(r) ==
    /\ req[r].pc = "revalidate" /\ PermitMatches(req[r].token)
    /\ Goto(r, "publish") /\ UNCHANGED <<up, journal>> /\ KeepDest

Locked == \E r \in Requests : req[r].pc = "proof"
Count == [ghost EXCEPT !.published = @ + 1, !.unpermitted = @ \/ up.life # "Publishing"]

\* publish_transaction: the digest of the staged file is checked, then under the
\* mutation lock the pointer is renamed and the proof written.
PublishTransaction(r) ==
    /\ req[r].pc = "publish" /\ ~Locked /\ dest.proof = "prepared"
    /\ dest' = [dest EXCEPT !.pointer = "mine"]
    /\ ghost' = Count
    /\ Goto(r, "proof") /\ UNCHANGED <<up, journal, rec>>

WriteProof(r) ==
    /\ req[r].pc = "proof"
    /\ dest' = [dest EXCEPT !.proof = "committed"]
    /\ Goto(r, "record") /\ UNCHANGED <<up, journal, rec, ghost>>

\* S3: the object lands, the answer arrives, or the outcome stays unknown.
PutObject(r) ==
    /\ req[r].pc = "put"
    /\ dest' = [dest EXCEPT !.pointer = "mine"]
    /\ ghost' = Count
    /\ Goto(r, "answer") /\ UNCHANGED <<up, journal, rec>>

PutAnswered(r) ==
    /\ req[r].pc = "answer" /\ journal' = [journal EXCEPT !.st = "Committed"]
    /\ Goto(r, "record") /\ UNCHANGED up /\ KeepDest

PutUnknown(r) ==
    /\ req[r].pc \in {"put", "answer"} /\ ghost.faults < MaxFaults
    /\ journal' = [journal EXCEPT !.st = "Unknown"]
    /\ ghost' = [ghost EXCEPT !.faults = @ + 1]
    /\ Leave(r) /\ UNCHANGED <<up, dest, rec>>

\* finish_committed: the record, the journal, the upload.
RecordCommit(r) ==
    /\ req[r].pc = "record" /\ PermitMatches(req[r].token)
    /\ up' = Recorded
    /\ Goto(r, "journal") /\ UNCHANGED journal /\ KeepDest

Committable == {"Intent", "Open", "Completing", "Unknown", "Committed"}

CommitJournal(r) ==
    /\ req[r].pc = "journal" /\ journal.st \in Committable
    /\ journal' = [journal EXCEPT !.st = "Committed"]
    /\ Goto(r, "finish") /\ UNCHANGED up /\ KeepDest

CompleteCompletion(r) ==
    /\ req[r].pc = "finish" /\ PermitMatches(req[r].token) /\ up.commit
    /\ up' = CompletedUpload
    /\ Goto(r, "reply") /\ UNCHANGED journal /\ KeepDest

Reply(r) ==
    /\ req[r].pc = "reply"
    /\ ghost' = [ghost EXCEPT !.told = @ \cup {req[r].fp}]
    /\ Leave(r) /\ UNCHANGED <<up, journal, dest, rec>>

\* A refused guard, an error, a timeout or a lost connection ends the request.  A
\* sink that has not completed is aborted, but only by the holder of the lease.
Fail(r) ==
    /\ req[r].pc \notin {"idle", "proof", "put", "answer"} /\ ghost.faults < MaxFaults
    /\ journal' = IF req[r].pc \in {"staging", "begin"} /\ HoldsToken(r) /\ dest.backend = "s3"
                  THEN [journal EXCEPT !.st = "Aborted"] ELSE journal
    /\ up' = IF req[r].pc \in {"staging", "begin"} /\ HoldsToken(r) THEN [up EXCEPT !.lease = "live"] ELSE up
    /\ ghost' = [ghost EXCEPT !.faults = @ + 1]
    /\ Leave(r) /\ UNCHANGED <<dest, rec>>

\* A stale request is stopped by the guard it meets.
Fenced(r) ==
    /\ \/ req[r].pc \in {"stage", "staging"} /\ ~HoldsToken(r)
       \/ req[r].pc \in {"begin", "recovered"} /\ ~HoldsLease(r)
       \/ req[r].pc \in {"validate", "revalidate", "record", "finish"} /\ ~PermitMatches(req[r].token)
       \/ req[r].pc = "stage" /\ journal.st # "none"
       \/ req[r].pc = "prepare" /\ dest.proof # "none" /\ dest.fence # req[r].token
       \/ req[r].pc = "publish" /\ dest.proof # "prepared"
       \/ req[r].pc = "journal" /\ journal.st \notin Committable
    /\ Leave(r) /\ UNCHANGED <<up, journal>> /\ KeepDest

-----------------------------------------------------------------------------
(* Recovery                                                                *)

RecGoto(pc) == rec' = [rec EXCEPT !.pc = pc]

\* publishing_uploads is read once; what follows acts on that permit.
RecoverPublishing ==
    /\ rec.pc = "idle" /\ up.life = "Publishing"
    /\ rec' = [pc |-> IF up.commit THEN "journal" ELSE "look", token |-> up.permit]
    /\ UNCHANGED <<up, journal, dest, req, ghost>>

\* Backfill: a visible object names its operation, so the proof can be completed.
BackfillProof(d) ==
    [d EXCEPT !.proof = IF d.backend = "file" /\ d.pointer = "mine" THEN "committed" ELSE @]

ProbeCommit ==
    /\ rec.pc = "look" /\ ~Locked
    /\ \/ journal.st = "Committed" /\ RecGoto("record") /\ UNCHANGED dest
       \/ journal.st # "Committed" /\ dest.backend = "s3" /\ RecGoto("idle") /\ UNCHANGED dest
       \/ /\ journal.st # "Committed" /\ dest.backend = "file"
          /\ dest' = BackfillProof(dest)
          /\ RecGoto(IF dest'.proof = "committed" THEN "record" ELSE "absent")
    /\ UNCHANGED <<up, journal, req, ghost>>

MutConfirmAbsence ==
    /\ rec.pc = "absent"
    /\ journal' = [journal EXCEPT !.absent = FALSE]
    /\ RecGoto(IF journal.absent THEN "release" ELSE "idle")
    /\ UNCHANGED <<up, dest, req, ghost>>

\* The first observation is noted, the second confirms it.
ConfirmAbsence ==
    /\ rec.pc = "absent"
    /\ journal' = [journal EXCEPT !.absent = TRUE]
    /\ RecGoto(IF journal.absent THEN "release" ELSE "idle")
    /\ UNCHANGED <<up, dest, req, ghost>>

ReleasePermit ==
    /\ rec.pc = "release"
    /\ up' = IF PermitMatches(rec.token) /\ ~up.commit THEN Released ELSE up
    /\ RecGoto("idle") /\ UNCHANGED <<journal, dest, req, ghost>>

RecRecord ==
    /\ rec.pc = "record"
    /\ IF PermitMatches(rec.token) THEN up' = Recorded /\ RecGoto("journal")
                                   ELSE RecGoto("idle") /\ UNCHANGED up
    /\ UNCHANGED <<journal, dest, req, ghost>>

RecJournal ==
    /\ rec.pc = "journal"
    /\ IF journal.st \in Committable
       THEN journal' = [journal EXCEPT !.st = "Committed"] /\ RecGoto("finish")
       ELSE RecGoto("idle") /\ UNCHANGED journal
    /\ UNCHANGED <<up, dest, req, ghost>>

RecComplete ==
    /\ rec.pc = "finish"
    /\ up' = IF PermitMatches(rec.token) /\ up.commit THEN CompletedUpload ELSE up
    /\ RecGoto("idle") /\ UNCHANGED <<journal, dest, req, ghost>>

\* retire_terminal_upload: proof, journal row, reference, upload.
RetireProof ==
    /\ rec.pc = "idle" /\ up.life \in Terminal /\ up.expired /\ ~Locked
    /\ up.permit # 0 => journal.st \in {"none", "Committed", "Aborted"}
    /\ dest' = IF up.permit # 0 /\ dest.backend = "file" THEN [dest EXCEPT !.proof = "none"] ELSE dest
    /\ RecGoto("retire") /\ UNCHANGED <<up, journal, req, ghost>>

RetireJournal ==
    /\ rec.pc = "retire"
    /\ journal' = IF up.permit # 0 THEN NoRow ELSE journal
    /\ RecGoto("clear") /\ UNCHANGED <<up, dest, req, ghost>>

RetireUpload ==
    /\ rec.pc = "clear"
    /\ up' = [ReferenceCleared EXCEPT !.life = "gone"]
    /\ RecGoto("idle") /\ UNCHANGED <<journal, dest, req, ghost>>

\* Each round first completes the proofs of visible objects.
BackfillCurrent ==
    /\ rec.pc = "idle" /\ ~Locked
    /\ dest' = BackfillProof(dest) /\ dest' # dest
    /\ UNCHANGED <<up, journal, req, rec, ghost>>

-----------------------------------------------------------------------------
(* The environment                                                         *)

LeaseLapses ==
    /\ up.lease = "live" /\ up' = [up EXCEPT !.lease = "lapsed"]
    /\ UNCHANGED <<journal, dest, req, rec, ghost>>

DeadlinePasses ==
    /\ ~up.expired /\ up' = [up EXCEPT !.expired = TRUE]
    /\ UNCHANGED <<journal, dest, req, rec, ghost>>

Abort ==
    /\ up.life = "Open" /\ up' = [up EXCEPT !.life = "Aborted"]
    /\ UNCHANGED <<journal, dest, req, rec, ghost>>

ReapExpired ==
    /\ up.life = "Open" /\ up.expired /\ up' = [up EXCEPT !.life = "Expired"]
    /\ UNCHANGED <<journal, dest, req, rec, ghost>>

\* Another PUT or DELETE of the key keeps the proof of what it replaces.
OtherWriter ==
    /\ ~Locked
    /\ \E p \in {"other", "none"} :
          /\ dest.pointer # p /\ dest' = [BackfillProof(dest) EXCEPT !.pointer = p]
    /\ UNCHANGED <<up, journal, req, rec, ghost>>

\* The process dies: requests and worker are gone, files and rows stay.
Crash ==
    /\ ghost.faults < MaxFaults
    /\ req' = [r \in Requests |-> Waiting] /\ rec' = [pc |-> "idle", token |-> 0]
    /\ ghost' = [ghost EXCEPT !.faults = @ + 1]
    /\ UNCHANGED <<up, journal, dest>>

RequestStep(r) ==
    \/ Acquire(r) \/ Replay(r) \/ FirstAttempt(r) \/ CheckExisting(r) \/ Recover(r) \/ OpenSink(r)
    \/ Renew(r) \/ AppendEvidence(r) \/ BeginDestinationCommit(r) \/ ValidatePermit(r)
    \/ PrepareTransaction(r) \/ Revalidate(r) \/ PublishTransaction(r) \/ WriteProof(r)
    \/ PutObject(r) \/ PutAnswered(r) \/ PutUnknown(r) \/ RecordCommit(r) \/ CommitJournal(r)
    \/ CompleteCompletion(r) \/ Reply(r) \/ Fail(r) \/ Fenced(r)
RecoveryStep ==
    \/ RecoverPublishing \/ ProbeCommit \/ ConfirmAbsence \/ ReleasePermit \/ RecRecord
    \/ RecJournal \/ RecComplete \/ RetireProof \/ RetireJournal \/ RetireUpload
EnvironmentStep ==
    LeaseLapses \/ DeadlinePasses \/ Abort \/ ReapExpired \/ OtherWriter \/ Crash \/ BackfillCurrent

CompletionNext == (\E r \in Requests : RequestStep(r)) \/ RecoveryStep \/ EnvironmentStep

CompletionSpec == CompletionInit /\ [][CompletionNext]_completionVars

\* The worker's rounds recur and a request past its permit goes on or fails.
CompletionFairness ==
    /\ WF_completionVars(RecoveryStep)
    /\ \A r \in Requests : WF_completionVars(WriteProof(r) \/ PutAnswered(r))

-----------------------------------------------------------------------------
(* Properties                                                              *)

\* The phase of the contract an upload is in.
Phase ==
    CASE up.life = "Open" -> "open"
      [] up.life \in {"Completing", "Publishing"} -> "claimed"
      [] up.life = "Completed" -> "completed"
      [] up.life \in {"Aborted", "Expired"} -> "closed"
      [] OTHER -> "gone"

\* The contract of an upload: see MultipartContract.
Contract == INSTANCE MultipartContract WITH
    NoFingerprint <- NoFp,
    phase <- Phase,
    claim <- up.fp,
    published <- ghost.published,
    told <- ghost.told

\* Completion with its crashes, retries, stale requests and recovery implements the
\* contract: one claim, one publication, success only after it.
ImplementsContract == Contract!ContractSpec

\* On the file store an upload left in Publishing is settled: completed when its
\* object was published, handed back when it was not.
PublishingResolves ==
    dest.backend = "file" /\ up.life = "Publishing" ~> up.life # "Publishing"

\* A sink without the current typed permit cannot publish.
PublishUnderPermit == ~ghost.unpermitted

\* An expired precommit lease becomes available to an identical retry: a request
\* that acquired the upload before anything was published is not turned away.
IdenticalRetryAvailable ==
    [][\A r \in Requests :
          req[r].pc = "acquired" /\ req'[r].pc = "idle" /\ HoldsToken(r) /\ ghost.published = 0
              => dest.backend = "s3" \/ ghost'.faults > ghost.faults]_completionVars

\* Terminal uploads are retired with their proofs, which do not come back.
ProofsCollected == up.life = "gone" => dest.proof = "none"
=============================================================================
