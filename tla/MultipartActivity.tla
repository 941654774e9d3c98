------------------------- MODULE MultipartActivity -------------------------
(* Managed multipart uploads against the purge of their namespace.         *)
(*                                                                         *)
(* The staging repository (upload rows and their artifacts) and the        *)
(* managed ledger (namespace, epoch, purge) are separate stores.  What     *)
(* ties them together is the activity row of an upload: registered before  *)
(* the upload row is created, confirmed after it, finished after the       *)
(* upload row is retired, and reconciled by the recovery worker when its   *)
(* registration expires.                                                   *)
EXTENDS Naturals, FiniteSets

CONSTANTS Uploads,
          Ledgers,       \* subset of {"postgres", "memory"}
          MaxEpoch,      \* namespace epochs explored
          MaxActivityFaults      \* handlers and workers that die

VARIABLES ledger,        \* which authority repository runs
          ns,            \* [state, epoch] of the tenant's namespace
          act,           \* activity rows: [state, epoch, late]
          row,           \* upload rows: [life, epoch, old, op]
          staged,        \* namespace epoch of the artifacts an upload holds
          create,        \* CreateMultipartUpload: [pc, epoch]
          call,          \* UploadPart or CompleteMultipartUpload: [kind, pc]
          worker,        \* the recovery worker: [pc, upload, seen, epoch]
          faults

activityVars == <<ledger, ns, act, row, staged, create, call, worker, faults>>

NoAct == [state |-> "none", epoch |-> 0, late |-> FALSE]
NoUpload == [life |-> "none", epoch |-> 0, old |-> FALSE, op |-> "none"]
Idle == [pc |-> "idle", upload |-> {}, seen |-> FALSE, epoch |-> 0]
Closed == {"COMPLETED", "ABORTED", "EXPIRED"}

Set(f, u, v) == [f EXCEPT ![u] = v]

ActivityInit ==
    /\ ledger \in Ledgers
    /\ ns = [state |-> "ACTIVE", epoch |-> 1]
    /\ act = [u \in Uploads |-> NoAct]
    /\ row = [u \in Uploads |-> NoUpload]
    /\ staged = [u \in Uploads |-> 0]
    /\ create = [u \in Uploads |-> [pc |-> "idle", epoch |-> 0]]
    /\ call = [u \in Uploads |-> [kind |-> "part", pc |-> "idle"]]
    /\ worker = Idle
    /\ faults = 0

(***************************************************************************)
(* The activity rows.                                                      *)
(***************************************************************************)

\* begin_multipart_activity: only in an active namespace.
CanBegin(u) == ns.state = "ACTIVE" /\ act[u] = NoAct

Registration == [state |-> "REGISTERING", epoch |-> ns.epoch, late |-> FALSE]

\* assert_multipart_activity.  The in-memory ledger keeps a set of confirmed
\* uploads where Postgres keeps the row's state.
AssertedPostgres(u, epoch, allowPurging) ==
    /\ ns.epoch = epoch
    /\ ns.state = "ACTIVE" \/ allowPurging
    /\ act[u].epoch = epoch /\ act[u].state = "ACTIVE"

AssertedMemory(u, epoch, allowPurging) ==
    /\ ns.epoch = epoch
    /\ ns.state = "PURGING" => allowPurging
    /\ act[u].epoch = epoch /\ act[u].state = "ACTIVE"

Asserted(u, epoch, allowPurging) ==
    IF ledger = "postgres" THEN AssertedPostgres(u, epoch, allowPurging)
    ELSE AssertedMemory(u, epoch, allowPurging)

\* confirm_multipart_activity: Postgres checks the epoch against the namespace
\* and the row, the in-memory ledger against the row alone.
ConfirmablePostgres(u, epoch) ==
    /\ ns.state = "ACTIVE" /\ ns.epoch = epoch
    /\ act[u].epoch = epoch /\ act[u].state \in {"REGISTERING", "ACTIVE"}

ConfirmableMemory(u, epoch) ==
    /\ ns.state = "ACTIVE"
    /\ act[u].epoch = epoch /\ act[u].state # "none"

Confirmable(u, epoch) ==
    IF ledger = "postgres" THEN ConfirmablePostgres(u, epoch) ELSE ConfirmableMemory(u, epoch)

\* finish_multipart_activity deletes the row of that epoch.
FinishActivity(u, epoch) ==
    act' = IF act[u].epoch = epoch THEN Set(act, u, NoAct) ELSE act

(***************************************************************************)
(* CreateMultipartUpload (s3_post).                                        *)
(***************************************************************************)
At(u, pc) == create' = [create EXCEPT ![u].pc = pc]

CreateBegin(u) ==
    /\ create[u].pc = "idle" /\ CanBegin(u)
    /\ act' = Set(act, u, Registration)
    /\ create' = Set(create, u, [pc |-> "begun", epoch |-> ns.epoch])
    /\ UNCHANGED <<ledger, ns, row, staged, call, worker, faults>>

\* repository.create succeeds, or fails (quota, persistence) and the
\* registration is taken back.
CreateUpload(u) ==
    /\ create[u].pc = "begun"
    /\ \/ /\ row' = Set(row, u, [NoUpload EXCEPT !.life = "OPEN", !.epoch = create[u].epoch])
          /\ At(u, "created")
       \/ At(u, "finishing") /\ UNCHANGED row
    /\ UNCHANGED <<ledger, ns, act, staged, call, worker, faults>>

CreateConfirm(u) ==
    /\ create[u].pc = "created"
    /\ \/ /\ Confirmable(u, create[u].epoch)
          /\ act' = [act EXCEPT ![u].state = "ACTIVE", ![u].late = FALSE]
          /\ At(u, "acknowledged")
       \/ ~Confirmable(u, create[u].epoch) /\ At(u, "aborting") /\ UNCHANGED act
    /\ UNCHANGED <<ledger, ns, row, staged, call, worker, faults>>

\* The roll-back of an unconfirmed upload: abort, delete_terminal_upload,
\* finish; each error is ignored.
CreateAbort(u) ==
    /\ create[u].pc = "aborting"
    /\ row' = IF row[u].life = "OPEN" THEN [row EXCEPT ![u].life = "ABORTED"] ELSE row
    /\ At(u, "deleting")
    /\ UNCHANGED <<ledger, ns, act, staged, call, worker, faults>>

CreateDelete(u) ==
    /\ create[u].pc = "deleting"
    /\ row' = IF /\ row[u].life \in {"ABORTED", "EXPIRED"}
                 /\ row[u].op = "none" /\ staged[u] = 0
              THEN Set(row, u, NoUpload) ELSE row
    /\ At(u, "finishing")
    /\ UNCHANGED <<ledger, ns, act, staged, call, worker, faults>>

CreateFinish(u) ==
    /\ create[u].pc = "finishing"
    /\ FinishActivity(u, create[u].epoch)
    /\ At(u, "failed")
    /\ UNCHANGED <<ledger, ns, row, staged, call, worker, faults>>

\* The request's process dies between two of its steps.
CreateLost(u) ==
    /\ create[u].pc \in {"begun", "created", "aborting", "deleting", "finishing"}
    /\ faults < MaxActivityFaults /\ faults' = faults + 1
    /\ At(u, "lost")
    /\ UNCHANGED <<ledger, ns, act, row, staged, call, worker>>

(***************************************************************************)
(* UploadPart, CompleteMultipartUpload, AbortMultipartUpload.              *)
(***************************************************************************)

\* s3_upload_part and s3_post read the upload and assert its activity...
CallAssert(u, kind) ==
    /\ call[u].pc = "idle" /\ row[u].life = "OPEN"
    /\ Asserted(u, row[u].epoch, FALSE)
    /\ call' = Set(call, u, [kind |-> kind, pc |-> "asserted"])
    /\ UNCHANGED <<ledger, ns, act, row, staged, create, worker, faults>>

\* ... and only then begin: begin_part and the completion lease look at the
\* upload row alone.
PartStage(u) ==
    /\ call[u] = [kind |-> "part", pc |-> "asserted"]
    /\ staged' = IF row[u].life = "OPEN" THEN Set(staged, u, row[u].epoch) ELSE staged
    /\ call' = [call EXCEPT ![u].pc = "idle"]
    /\ UNCHANGED <<ledger, ns, act, row, create, worker, faults>>

CompleteBegin(u) ==
    /\ call[u] = [kind |-> "complete", pc |-> "asserted"]
    /\ IF row[u].life = "OPEN"
       THEN /\ row' = [row EXCEPT ![u].life = "COMPLETING", ![u].op = "open"]
            /\ call' = [call EXCEPT ![u].pc = "publishing"]
       ELSE call' = [call EXCEPT ![u].pc = "idle"] /\ UNCHANGED row
    /\ UNCHANGED <<ledger, ns, act, staged, create, worker, faults>>

CompleteEnd(u) ==
    /\ call[u].pc = "publishing"
    /\ row' = [row EXCEPT ![u].life = "COMPLETED", ![u].op = "terminal"]
    /\ call' = [call EXCEPT ![u].pc = "idle"]
    /\ UNCHANGED <<ledger, ns, act, staged, create, worker, faults>>

\* AbortMultipartUpload is allowed while the namespace is being purged.
AbortUpload(u) ==
    /\ row[u].life = "OPEN" /\ Asserted(u, row[u].epoch, TRUE)
    /\ row' = [row EXCEPT ![u].life = "ABORTED"]
    /\ UNCHANGED <<ledger, ns, act, staged, create, call, worker, faults>>

(***************************************************************************)
(* The recovery worker, and time.                                          *)
(***************************************************************************)
ReapUpload(u) ==
    /\ row[u].life = "OPEN"
    /\ row' = [row EXCEPT ![u].life = "EXPIRED"]
    /\ UNCHANGED <<ledger, ns, act, staged, create, call, worker, faults>>

TombstoneOver(u) ==
    /\ row[u].life \in Closed /\ ~row[u].old
    /\ row' = [row EXCEPT ![u].old = TRUE]
    /\ UNCHANGED <<ledger, ns, act, staged, create, call, worker, faults>>

RegistrationLate(u) ==
    /\ act[u].state = "REGISTERING" /\ ~act[u].late
    /\ act' = [act EXCEPT ![u].late = TRUE]
    /\ UNCHANGED <<ledger, ns, row, staged, create, call, worker, faults>>

\* reconcile_staged_artifacts: artifacts of an upload that is over.
ReconcileArtifacts(u) ==
    /\ row[u].life \in Closed /\ staged[u] # 0
    /\ staged' = Set(staged, u, 0)
    /\ UNCHANGED <<ledger, ns, act, row, create, call, worker, faults>>

\* retire_terminal_upload for the upload it was called with: its artifacts are
\* gone and its operation is terminal, so its reference is cleared.
ClearReference(u) ==
    /\ row[u].life \in Closed /\ row[u].old
    /\ staged[u] = 0 /\ row[u].op = "terminal"
    /\ row' = [row EXCEPT ![u].op = "none"]
    /\ UNCHANGED <<ledger, ns, act, staged, create, call, worker, faults>>

\* Mutant: attempts are not counted before the row is deleted.
MutRetirable(u) == row[u].life \in Closed /\ row[u].old /\ row[u].op = "none"

\* retire_terminal_uploads takes any upload that is over, not only that one.
Retirable(u) ==
    /\ row[u].life \in Closed /\ row[u].old
    /\ row[u].op = "none" /\ staged[u] = 0

Retire(u) ==
    /\ worker.pc = "idle" /\ Retirable(u)
    /\ row' = Set(row, u, NoUpload)
    /\ worker' = [pc |-> "retired", upload |-> {u}, seen |-> FALSE, epoch |-> row[u].epoch]
    /\ UNCHANGED <<ledger, ns, act, staged, create, call, faults>>

FinishRetired ==
    /\ worker.pc = "retired"
    /\ \E u \in worker.upload : FinishActivity(u, worker.epoch)
    /\ worker' = Idle
    /\ UNCHANGED <<ledger, ns, row, staged, create, call, faults>>

\* reconcile_multipart_activities (Postgres): looks the upload up, then
\* updates or deletes the row if it still is a registration.
ReconcileRead(u) ==
    /\ ledger = "postgres" /\ worker.pc = "idle"
    /\ act[u].state = "REGISTERING" /\ act[u].late
    /\ worker' = [pc |-> "found", upload |-> {u}, epoch |-> act[u].epoch,
                  seen |-> row[u].life # "none" /\ row[u].epoch = act[u].epoch]
    /\ UNCHANGED <<ledger, ns, act, row, staged, create, call, faults>>

\* Mutant: the delete does not ask whether the row is still a registration.
MutReconciled(u) ==
    IF worker.seen /\ act[u].state = "REGISTERING"
    THEN [act[u] EXCEPT !.state = "ACTIVE", !.late = FALSE] ELSE NoAct

Reconciled(u) ==
    IF act[u].state # "REGISTERING" THEN act[u]
    ELSE IF worker.seen THEN [act[u] EXCEPT !.state = "ACTIVE", !.late = FALSE]
    ELSE IF act[u].late THEN NoAct
    ELSE act[u]

ReconcileWrite ==
    /\ worker.pc = "found"
    /\ \E u \in worker.upload : act' = Set(act, u, Reconciled(u))
    /\ worker' = Idle
    /\ UNCHANGED <<ledger, ns, row, staged, create, call, faults>>

\* The in-memory ledger drops every expired registration in one step.
ReconcileMemory ==
    /\ ledger = "memory"
    /\ \E u \in Uploads : act[u].late
    /\ act' = [u \in Uploads |-> IF act[u].late THEN NoAct ELSE act[u]]
    /\ UNCHANGED <<ledger, ns, row, staged, create, call, worker, faults>>

WorkerLost ==
    /\ worker.pc # "idle"
    /\ faults < MaxActivityFaults /\ faults' = faults + 1
    /\ worker' = Idle
    /\ UNCHANGED <<ledger, ns, act, row, staged, create, call>>

(***************************************************************************)
(* The purge of the namespace.                                             *)
(***************************************************************************)
PurgeNamespace ==
    /\ ns.state = "ACTIVE" /\ ns.epoch < MaxEpoch
    /\ ns' = [ns EXCEPT !.state = "PURGING"]
    /\ UNCHANGED <<ledger, act, row, staged, create, call, worker, faults>>

\* finish_purge is blocked by upload rows and activity rows (Postgres), or by
\* activity rows alone (the in-memory ledger knows no uploads).
BlockedPostgres ==
    \E u \in Uploads :
        \/ row[u].life # "none" /\ row[u].epoch <= ns.epoch
        \/ act[u].state # "none" /\ act[u].epoch <= ns.epoch

BlockedMemory == \E u \in Uploads : act[u].state # "none"

PurgeBlocked == IF ledger = "postgres" THEN BlockedPostgres ELSE BlockedMemory

FinishPurge ==
    /\ ns.state = "PURGING" /\ ~PurgeBlocked
    /\ ns' = [state |-> "ACTIVE", epoch |-> ns.epoch + 1]
    /\ UNCHANGED <<ledger, act, row, staged, create, call, worker, faults>>

ActivityNext ==
    \/ \E u \in Uploads :
          \/ CreateBegin(u) \/ CreateUpload(u) \/ CreateConfirm(u)
          \/ CreateAbort(u) \/ CreateDelete(u) \/ CreateFinish(u) \/ CreateLost(u)
          \/ CallAssert(u, "part") \/ CallAssert(u, "complete")
          \/ PartStage(u) \/ CompleteBegin(u) \/ CompleteEnd(u) \/ AbortUpload(u)
          \/ ReapUpload(u) \/ TombstoneOver(u) \/ RegistrationLate(u)
          \/ ReconcileArtifacts(u) \/ ClearReference(u) \/ Retire(u) \/ ReconcileRead(u)
    \/ FinishRetired \/ ReconcileWrite \/ ReconcileMemory \/ WorkerLost
    \/ PurgeNamespace \/ FinishPurge

ActivitySpec == ActivityInit /\ [][ActivityNext]_activityVars

(***************************************************************************)
(* Properties.                                                             *)
(***************************************************************************)

\* A purge leaves no staged artifact behind and none appears later: every
\* artifact belongs to the current namespace epoch ("Completing purge while
\* rows remain would leak those artifacts", managed/postgres.rs:329).  And an
\* upload whose creation was acknowledged stays registered while it is open,
\* so that a purge cannot pass it and its parts are accepted.
StagingRegistered ==
    \A u \in Uploads :
        /\ staged[u] # 0 => staged[u] = ns.epoch
        /\ create[u].pc = "acknowledged" /\ row[u].life \in {"OPEN", "COMPLETING"}
              => act[u].state = "ACTIVE" /\ act[u].epoch = row[u].epoch
=============================================================================
