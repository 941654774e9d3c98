--------------------------- MODULE MultipartParts ---------------------------
(***************************************************************************)
(* The parts of one client multipart upload: UploadPart requests reserve    *)
(* quota, stage an encrypted artifact and commit it; replaced, abandoned    *)
(* and terminal parts are deleted by their requests and by a worker that    *)
(* scans attempts and artifacts once a minute.  Repo chooses the PostgreSQL *)
(* repository or the file repository of a single host: both serialize each  *)
(* call and differ in artifact keys and in what a deletion may release.     *)
(***************************************************************************)
EXTENDS Integers, FiniteSets, FiniteSetsExt

CONSTANTS
    Repo,        \* "postgres" or "file"
    Clients,     \* UploadPart requests; a request's body is named after it
    Parts,       \* part numbers
    Reserve,     \* decoded content length a request reserves
    QuotaBytes,  \* limit of the staging quota
    MaxFaults    \* bound on failed deletions and crashed requests

VARIABLES
    upload,   \* lifecycle, expiry, quota counters, selected and assembled parts
    attempts, \* rows of multipart_part_attempt
    store,    \* staged artifacts
    client,   \* UploadPart requests
    clean,    \* cleanups under way: artifacts to delete, the one deleted last
    worker,   \* the recovery worker's scan
    ghost     \* begun attempts, acknowledged parts, faults, cleanup owner

partVars == <<upload, attempts, store, client, clean, worker, ghost>>

Cleaners == Clients \cup {"worker", "closer"}
Idle == [todo |-> {}, cur |-> {}]
TerminalLife == {"Completed", "Aborted", "Expired"}

PartsInit ==
    /\ upload = [life |-> "Open", expired |-> FALSE, staged |-> 0, reserved |-> 0,
                 selected |-> {}, object |-> {}]
    /\ attempts = {} /\ store = {}
    /\ client = [c \in Clients |-> [pc |-> "start", part |-> 0, num |-> 0, key |-> <<>>, size |-> 0]]
    /\ clean = [p \in Cleaners |-> Idle]
    /\ worker = [pc |-> "idle", known |-> {}]
    /\ ghost = [begun |-> 0, acked |-> {}, faults |-> 0]

-----------------------------------------------------------------------------
(* Attempts and quota                                                      *)

Of(part) == {a \in attempts : a.part = part}
Current(part) == {a \in Of(part) : a.life = "Current"}
NextAttempt(part) == 1 + Max({a.num : a \in Of(part)} \cup {0})

\* The file repository numbers the artifacts of a part, PostgreSQL draws a UUID.
ArtifactKey(part, num) ==
    IF Repo = "file" THEN <<part, num>> ELSE <<part, 100 + ghost.begun>>

MutFitsQuota(bytes) == upload.staged + bytes <= QuotaBytes
FitsQuota(bytes) == upload.staged + upload.reserved + bytes <= QuotaBytes

\* The bytes an attempt holds: its reservation until it is committed.
MutReleased(u, a) == [u EXCEPT !.staged = @ - a.size]
Released(u, a) ==
    IF a.life = "Pending" THEN [u EXCEPT !.reserved = @ - Reserve] ELSE [u EXCEPT !.staged = @ - a.size]

\* The file reducer keeps the current part of a live upload, PostgreSQL releases
\* any attempt.
Releasable(a) == Repo = "postgres" \/ a.life # "Current" \/ upload.life \in TerminalLife

\* release_artifact / ArtifactDeleted; an artifact without attempt is ignored.
ConfirmArtifactDeleted(key) ==
    LET rows == {a \in attempts : a.key = key}
    IN  IF rows # {} /\ \A a \in rows : Releasable(a)
        THEN LET row == CHOOSE a \in rows : TRUE
             IN  attempts' = attempts \ {row} /\ upload' = Released(upload, row)
        ELSE UNCHANGED <<attempts, upload>>

-----------------------------------------------------------------------------
(* UploadPart                                                              *)

BeginPart(c) ==
    \E part \in Parts, size \in 1..Reserve :
        LET num == NextAttempt(part)
            key == ArtifactKey(part, num)
        IN  /\ client[c].pc = "start"
            /\ upload.life = "Open" /\ ~upload.expired /\ FitsQuota(Reserve)
            /\ attempts' = attempts \cup {[part |-> part, num |-> num, key |-> key, life |-> "Pending",
                                           size |-> 0, body |-> "none", old |-> FALSE]}
            /\ upload' = [upload EXCEPT !.reserved = @ + Reserve]
            /\ client' = [client EXCEPT ![c] = [pc |-> "body", part |-> part, num |-> num,
                                                key |-> key, size |-> size]]
            /\ ghost' = [ghost EXCEPT !.begun = @ + 1]
            /\ UNCHANGED <<store, clean, worker>>

Done(c) == client' = [client EXCEPT ![c].pc = "done"]

\* The body cannot be read, decoded, written or verified: discard_pending.
DiscardPending(c) ==
    /\ client[c].pc = "body"
    /\ ConfirmArtifactDeleted(client[c].key) /\ Done(c)
    /\ UNCHANGED <<store, clean, worker, ghost>>

Artifact(c) == [key |-> client[c].key, body |-> c, old |-> FALSE]
Without(key) == {s \in store : s.key # key}

PutFile(c) ==
    /\ client[c].pc = "body"
    /\ store' = Without(client[c].key) \cup {Artifact(c)}
    /\ client' = [client EXCEPT ![c].pc = "commit"]
    /\ UNCHANGED <<upload, attempts, clean, worker, ghost>>

\* The store fails or the request dies: the attempt and perhaps the artifact stay
\* for reconciliation.
PutFails(c) ==
    /\ client[c].pc = "body" /\ ghost.faults < MaxFaults
    /\ store' \in {store, Without(client[c].key) \cup {Artifact(c)}}
    /\ Done(c) /\ ghost' = [ghost EXCEPT !.faults = @ + 1]
    /\ UNCHANGED <<upload, attempts, clean, worker>>

CommitPart(c) ==
    LET mine == {a \in attempts : a.key = client[c].key /\ a.life = "Pending"}
        old == Current(client[c].part)
    IN  /\ client[c].pc = "commit" /\ upload.life = "Open" /\ mine # {}
        /\ attempts' = (attempts \ (mine \cup old))
               \cup {[a EXCEPT !.life = "Retired"] : a \in old}
               \cup {[a EXCEPT !.life = "Current", !.size = client[c].size, !.body = c] : a \in mine}
        /\ upload' = [upload EXCEPT !.reserved = @ - Reserve, !.staged = @ + client[c].size]
        /\ clean' = [clean EXCEPT ![c].todo = {a.key : a \in old}]
        /\ ghost' = [ghost EXCEPT !.acked = {p \in @ : p[1] # client[c].part} \cup {<<client[c].part, c>>}]
        /\ Done(c) /\ UNCHANGED <<store, worker>>

\* The upload closed, the attempt is gone, or the answer is lost.
CommitFails(c) ==
    /\ client[c].pc = "commit"
    /\ \/ upload.life # "Open" \/ ~(\E a \in attempts : a.key = client[c].key /\ a.life = "Pending")
       \/ ghost.faults < MaxFaults
    /\ Done(c)
    /\ ghost' = [ghost EXCEPT !.faults = IF @ < MaxFaults THEN @ + 1 ELSE @]
    /\ UNCHANGED <<upload, attempts, store, clean, worker>>

-----------------------------------------------------------------------------
(* cleanup_staged_parts and the two loops of reconcile_staged_artifacts    *)

DeleteArtifact(p) ==
    \E key \in clean[p].todo :
        /\ clean[p].cur = {}
        /\ store' = Without(key)
        /\ clean' = [clean EXCEPT ![p] = [todo |-> @.todo \ {key},
                          cur |-> IF worker.pc = "orphans" /\ p = "worker" THEN {} ELSE {key}]]
        /\ UNCHANGED <<upload, attempts, client, worker, ghost>>

DeleteArtifactFails(p) ==
    \E key \in clean[p].todo :
        /\ clean[p].cur = {} /\ ghost.faults < MaxFaults
        /\ clean' = [clean EXCEPT ![p].todo = @ \ {key}]
        /\ ghost' = [ghost EXCEPT !.faults = @ + 1]
        /\ UNCHANGED <<upload, attempts, store, client, worker>>

\* A refusal ends the worker's round, the other cleanups only log it.
ConfirmDeleted(p) ==
    \E key \in clean[p].cur :
        LET refused == \E a \in attempts : a.key = key /\ ~Releasable(a)
        IN  /\ ConfirmArtifactDeleted(key)
            /\ clean' = [clean EXCEPT ![p] = IF refused /\ p = "worker" THEN Idle ELSE [@ EXCEPT !.cur = {}]]
            /\ worker' = IF refused /\ p = "worker" THEN [worker EXCEPT !.pc = "idle"] ELSE worker
            /\ UNCHANGED <<store, client, ghost>>

MutDeletable(a) == a.life = "Retired" \/ (a.life = "Pending" /\ a.old)
Deletable(a) ==
    \/ upload.life \in TerminalLife
    \/ a.life = "Retired"
    \/ a.life = "Pending" /\ a.old
CleanupCandidates == {a.key : a \in {b \in attempts : Deletable(b)}}

SweepAttempts ==
    /\ worker.pc = "idle" /\ clean["worker"] = Idle
    /\ clean' = [clean EXCEPT !["worker"].todo = CleanupCandidates]
    /\ worker' = [worker EXCEPT !.pc = "attempts"]
    /\ UNCHANGED <<upload, attempts, store, client, ghost>>

SweepKnown ==
    /\ worker.pc = "attempts" /\ clean["worker"] = Idle
    /\ worker' = [pc |-> "known", known |-> {a.key : a \in attempts}]
    /\ UNCHANGED <<upload, attempts, store, client, clean, ghost>>

SweepOrphans ==
    /\ worker.pc = "known"
    /\ clean' = [clean EXCEPT !["worker"].todo = {s.key : s \in {t \in store : t.old}} \ worker.known]
    /\ worker' = [pc |-> "orphans", known |-> {}]
    /\ UNCHANGED <<upload, attempts, store, client, ghost>>

SweepEnds ==
    /\ worker.pc = "orphans" /\ clean["worker"] = Idle
    /\ worker' = [worker EXCEPT !.pc = "idle"]
    /\ UNCHANGED <<upload, attempts, store, client, clean, ghost>>

-----------------------------------------------------------------------------
(* The upload                                                              *)

\* RECONCILIATION_GRACE passes for everything there is.
GracePasses ==
    /\ attempts' = {[a EXCEPT !.old = TRUE] : a \in attempts}
    /\ store' = {[s EXCEPT !.old = TRUE] : s \in store}
    /\ UNCHANGED <<upload, client, clean, worker, ghost>>

DeadlinePasses ==
    /\ ~upload.expired /\ upload' = [upload EXCEPT !.expired = TRUE]
    /\ UNCHANGED <<attempts, store, client, clean, worker, ghost>>

\* The file reducer retires the current attempts of an upload it closes.
Close(life) ==
    /\ upload.life = "Open"
    /\ upload' = [upload EXCEPT !.life = life]
    /\ attempts' = IF Repo = "postgres" THEN attempts
                   ELSE {IF a.life = "Current" THEN [a EXCEPT !.life = "Retired"] ELSE a : a \in attempts}
    /\ clean' = [clean EXCEPT !["closer"].todo = {a.key : a \in {b \in attempts : b.life = "Current"}}]
    /\ UNCHANGED <<store, client, worker, ghost>>

Abort == Close("Aborted")
ReapExpired == upload.expired /\ worker.pc = "orphans" /\ Close("Expired")

\* The request names parts and ETags; both must be current.
AcquireCompletion ==
    /\ upload.life = "Open"
    /\ \E chosen \in SUBSET {a \in attempts : a.life = "Current"} :
          /\ chosen # {}
          /\ upload' = [upload EXCEPT !.life = "Completing", !.selected = chosen]
    /\ UNCHANGED <<attempts, store, client, clean, worker, ghost>>

\* EncryptedPartReader binds the artifact to its upload, part and attempt, and the
\* digests of what was read must be the part's.
MutGenuine(a, s) == s.key = a.key
Genuine(a, s) == s.key = a.key /\ s.body = a.body

ReadPart ==
    \E a \in upload.selected, s \in store :
        /\ upload.life = "Completing" /\ Genuine(a, s) /\ <<a.part, s.body>> \notin upload.object
        /\ upload' = [upload EXCEPT !.object = @ \cup {<<a.part, s.body>>}]
        /\ UNCHANGED <<attempts, store, client, clean, worker, ghost>>

CompleteCompletion ==
    /\ upload.life = "Completing" /\ {p[1] : p \in upload.object} = {a.part : a \in upload.selected}
    /\ upload' = [upload EXCEPT !.life = "Completed"]
    /\ clean' = [clean EXCEPT !["closer"].todo = {a.key : a \in upload.selected}]
    /\ UNCHANGED <<attempts, store, client, worker, ghost>>

\* Past its tombstone a terminal upload without attempts is forgotten.
RetireTerminalUploads ==
    /\ upload.life \in TerminalLife /\ attempts = {} /\ upload.expired
    /\ upload' = [upload EXCEPT !.life = "gone", !.selected = {}, !.object = {}]
    /\ UNCHANGED <<attempts, store, client, clean, worker, ghost>>

ClientStep(c) ==
    BeginPart(c) \/ DiscardPending(c) \/ PutFile(c) \/ PutFails(c) \/ CommitPart(c) \/ CommitFails(c)
CleanStep(p) == DeleteArtifact(p) \/ DeleteArtifactFails(p) \/ ConfirmDeleted(p)
SweepStep == SweepAttempts \/ SweepKnown \/ SweepOrphans \/ SweepEnds
UploadStep ==
    GracePasses \/ DeadlinePasses \/ Abort \/ ReapExpired \/ AcquireCompletion \/ ReadPart
    \/ CompleteCompletion \/ RetireTerminalUploads

PartsNext ==
    (\E c \in Clients : ClientStep(c)) \/ (\E p \in Cleaners : CleanStep(p)) \/ SweepStep \/ UploadStep

\* Requests end, the worker keeps scanning and time passes.
PartsFairness ==
    /\ \A c \in Clients : WF_partVars(DiscardPending(c) \/ PutFile(c)) /\ WF_partVars(CommitPart(c) \/ CommitFails(c))
    /\ \A p \in Cleaners : WF_partVars(DeleteArtifact(p)) /\ WF_partVars(ConfirmDeleted(p))
    /\ WF_partVars(SweepStep) /\ WF_partVars(GracePasses)

-----------------------------------------------------------------------------
(* Properties                                                              *)

\* The quota counters are exactly the bytes of the attempts on record and stay
\* within the limit, through discards that race commits, double confirmations
\* by request and worker, and closing uploads.
PartQuotaExact ==
    /\ upload.staged = MapThenSumSet(LAMBDA a : a.size, attempts)
    /\ upload.reserved = Reserve * Cardinality({a \in attempts : a.life = "Pending"})
    /\ upload.staged + upload.reserved <= QuotaBytes

\* A completed object consists of the bodies its parts were committed with, even
\* when a slow request wrote over the artifact of a later attempt.
CompletedFaithful ==
    upload.life = "Completed" => upload.object = {<<a.part, a.body>> : a \in upload.selected}

\* Nothing of a closed upload stays behind: its attempts, its quota and every
\* artifact a late request wrote are gone in the end.
StagingDrains == upload.life \in TerminalLife ~> (attempts = {} /\ store = {})

\* Current remains readable: the part a client was told is stored keeps an attempt
\* and an artifact that can be read while the upload is open.
CurrentReadable ==
    upload.life = "Open" => \A p \in ghost.acked :
        \E a \in Current(p[1]), s \in store : a.body = p[2] /\ Genuine(a, s)
=============================================================================
