---------------------------- MODULE ObjectStreams ----------------------------
(***************************************************************************)
(* GetObject from the HEAD that inspects a stored object to the last byte  *)
(* of the answer, and the spools under it.  A plain read opens the object  *)
(* once and streams a byte range of it.  A transformed read inspects the   *)
(* object with a HEAD, opens it with a GET, and sends the output through a *)
(* plugin either directly (prefix-safe plugins) or through an encrypted    *)
(* spool that is replayed once the whole transformation succeeded.  The    *)
(* object may be overwritten at any moment; primary and replica of a       *)
(* legacy managed object may differ.  Compatibility uploads share the      *)
(* spool quota.                                                            *)
(*                                                                         *)
(* The i-th byte of version v is <<v, i>>; transforming keeps one output   *)
(* byte per source byte.  Headers other than format, encoding, length,     *)
(* range and validators are left out.                                      *)
(***************************************************************************)
EXTENDS Integers, Sequences, FiniteSets, FiniteSetsExt

CONSTANTS Reads,       \* concurrent GetObject requests
          Uploads,     \* concurrent compatibility uploads
          Backends,    \* the kinds of store a read may resolve to
          Kinds,       \* "plain", "direct" or "spooled"
          Versions,    \* version -> [length, format]; versions are 1, 2, ...
          Ranges,      \* what the Range header may say
          Conditions,  \* "none", "match", "nonematch" (on version 1's ETag)
          Validators,  \* "version", "strong" or "weak"
          MaxObject,   \* max_object_bytes of a spool
          QuotaBytes,  \* SpoolQuota::max_bytes
          FrameBytes,  \* plaintext bytes of a spool frame
          Overhead,    \* ciphertext bytes a frame adds
          MaxFaults    \* bound on source, disk and client failures

VARIABLES validator,  \* what the store returns to tell versions apart
          primary,    \* the stored version
          replica,    \* the replica's version (managed legacy placement)
          read,       \* read -> its progress
          upload,     \* compatibility upload -> its progress
          reserved,   \* SpoolQuota::reserved_bytes
          files,      \* the spool files on disk, by owner
          faults

streamsVars == <<validator, primary, replica, read, upload, reserved, files, faults>>

Length(v) == Versions[v].length
Format(v) == Versions[v].format

-----------------------------------------------------------------------------
(* Ranges: <<from, to>> with -1 for an absent side; NoRange is no header. *)

NoRange == <<-1, -1>>

Least(a, b) == IF a < b THEN a ELSE b
Most(a, b) == IF a < b THEN b ELSE a

\* parse_byte_range: the selected slice, or "unsatisfiable".
ParseByteRange(len, range) ==
    LET slice(first, last) == [ok |-> TRUE, start |-> first, length |-> last - first + 1]
    IN  CASE range = NoRange -> [ok |-> TRUE, start |-> 0, length |-> len]
          [] range # NoRange /\ len = 0 -> [ok |-> FALSE]
          [] range # NoRange /\ len > 0 /\ range[1] = -1 ->
                IF range[2] = 0 THEN [ok |-> FALSE]
                ELSE slice(Most(0, len - range[2]), len - 1)
          [] OTHER ->
                LET last == IF range[2] = -1 THEN len - 1 ELSE range[2]
                IN  IF range[1] >= len \/ range[1] > last THEN [ok |-> FALSE]
                    ELSE slice(range[1], Least(last, len - 1))

\* What RFC 9110 asks for: the bytes whose index the range names.
Named(len, range) ==
    {i \in 0..len - 1 :
       CASE range = NoRange -> TRUE
         [] range # NoRange /\ range[1] = -1 -> i >= len - range[2]
         [] OTHER -> i >= range[1] /\ (range[2] = -1 \/ i <= range[2])}

-----------------------------------------------------------------------------
(* Validators and preflight. *)

\* What a GET, and what a HEAD, of version v lets the gateway compare.
MetadataOf(v) == [version |-> v, format |-> Format(v)]
HeadMetadata(v) == [version |-> v, format |-> Format(v)]

\* Mutant: any weak validator is good enough.
MutSourceMatchesPreflight(inspected, opened) ==
    validator = "weak" \/ inspected.version = opened.version

\* transformed_source_matches_preflight: an immutable version id, or the same
\* strong ETag on both answers.
SourceMatchesPreflight(inspected, opened) ==
    validator \in {"version", "strong"} /\ inspected.version = opened.version

\* transformed_read_preflight: a text format without Content-Encoding, and no
\* Range; avro_read_preflight asks the same of Avro and Lance.
Preflight(m, range) == range = NoRange /\ m.format \in {"text", "csv"}
BinaryPreflight(m, range) == range = NoRange
Binary(m) == m.format \in {"avro", "lance"}

\* conditional_read_status against the client's ETag of version 1.
ConditionHolds(cond, m) ==
    CASE cond = "none" -> TRUE
      [] cond = "match" -> m.version = 1
      [] cond = "nonematch" -> m.version # 1

-----------------------------------------------------------------------------
(* Opening. *)

\* The version a HEAD or GET may reach: a legacy managed read falls over to
\* the replica when the primary has no answer.
Reachable(backend) ==
    IF backend = "managed" THEN {primary, replica} ELSE {primary}

NoRead == [phase |-> "idle", kind |-> "plain", backend |-> "memory", range |-> NoRange,
           cond |-> "none", inspected |-> 0, opened |-> 0, slice |-> << >>,
           taken |-> 0, sent |-> << >>, declared |-> -1, held |-> 0]

StreamsInit ==
    /\ validator \in Validators
    /\ primary = 1 /\ replica = 1
    /\ read = [r \in Reads |-> NoRead]
    /\ upload = [u \in Uploads |-> [phase |-> "idle", bytes |-> 0, verified |-> FALSE, held |-> 0]]
    /\ reserved = 0
    /\ files = {}
    /\ faults = 0

Fault == faults < MaxFaults /\ faults' = faults + 1

\* The object is overwritten; the replica of a managed object may miss it.
Overwrite ==
    /\ primary + 1 \in DOMAIN Versions
    /\ primary' = primary + 1
    /\ replica' \in {replica, primary'}
    /\ UNCHANGED <<validator, read, upload, reserved, files, faults>>

\* The bytes of a slice of version v.
SliceOf(v, sel) == [i \in 1..sel.length |-> <<v, sel.start + i - 1>>]

Refuse(r) == read' = [read EXCEPT ![r].phase = "refused"]

\* A plain read opens once, selects its range, and answers 304, 412 or 416
\* before any byte is sent.
OpenPlain(r, backend, range, cond) ==
    /\ read[r].phase = "idle"
    /\ \E v \in Reachable(backend) :
          LET sel == ParseByteRange(Length(v), range)
              asked == [NoRead EXCEPT !.backend = backend, !.range = range, !.cond = cond,
                                      !.opened = v]
          IN  read' = [read EXCEPT ![r] =
                         IF ~sel.ok \/ ~ConditionHolds(cond, MetadataOf(v))
                         THEN [asked EXCEPT !.phase = "refused"]
                         ELSE [asked EXCEPT !.phase = "streaming", !.slice = SliceOf(v, sel),
                                            !.declared = sel.length]]
    /\ UNCHANGED <<validator, primary, replica, upload, reserved, files, faults>>

\* A transformed read first inspects the object.  A presigned source has no
\* stored metadata to inspect.
Inspect(r, kind, backend, range, cond) ==
    /\ read[r].phase = "idle"
    /\ \E v \in Reachable(backend) :
          LET m == HeadMetadata(v)
              fits == IF Binary(m) THEN BinaryPreflight(m, range) ELSE Preflight(m, range)
          IN  read' = [read EXCEPT ![r] =
                         [NoRead EXCEPT !.kind = IF Binary(m) THEN "spooled" ELSE kind,
                                        !.backend = backend, !.range = range, !.cond = cond,
                                        !.inspected = v,
                                        !.phase = IF backend # "http" /\ fits THEN "inspected"
                                                  ELSE "refused"]]
    /\ UNCHANGED <<validator, primary, replica, upload, reserved, files, faults>>

\* It then opens the object.  Text formats must still be what the HEAD saw,
\* in the same version, and satisfy the client's condition; Avro and Lance
\* are decoded whatever was opened.
Usable(r, v) ==
    LET was == HeadMetadata(read[r].inspected)
        now == MetadataOf(v)
    IN  IF Binary(was) THEN now.format = was.format
        ELSE /\ Preflight(now, read[r].range)
             /\ now.format = was.format
             /\ SourceMatchesPreflight(was, now)
             /\ ConditionHolds(read[r].cond, now)

OpenTransformed(r) ==
    /\ read[r].phase = "inspected"
    /\ \E v \in Reachable(read[r].backend) :
          read' = [read EXCEPT ![r].opened = v,
                               ![r].slice = SliceOf(v, [start |-> 0, length |-> Length(v)]),
                               ![r].phase = IF ~Usable(r, v) THEN "refused"
                                            ELSE IF Binary(HeadMetadata(read[r].inspected))
                                            THEN "collecting" ELSE read[r].kind]
    /\ UNCHANGED <<validator, primary, replica, upload, reserved, files, faults>>

-----------------------------------------------------------------------------
(* The spool quota. *)

\* SpoolQuota::reserve_bytes and release_bytes.
Reservable(bytes) == reserved + bytes <= QuotaBytes

\* disk_reservation: the object and the overhead of its frames.
DiskReservation ==
    MaxObject + ((MaxObject + FrameBytes - 1) \div FrameBytes) * Overhead

\* EncryptedReadSpool::begin; the file may fail to be created, which gives the
\* reservation back.
BeginSpool(r) ==
    /\ read[r].phase = "spooled" /\ read[r].held = 0
    /\ IF Reservable(DiskReservation)
       THEN \/ /\ read' = [read EXCEPT ![r].held = DiskReservation, ![r].phase = "spooling"]
               /\ reserved' = reserved + DiskReservation
               /\ files' = files \cup {r}
               /\ UNCHANGED faults
            \/ Fault /\ Refuse(r) /\ UNCHANGED <<reserved, files>>
       ELSE Refuse(r) /\ UNCHANGED <<reserved, files, faults>>
    /\ UNCHANGED <<validator, primary, replica, upload>>

\* Mutant: a dropped spool keeps its reservation.
MutReleaseSpool(r, phase) ==
    /\ read' = [read EXCEPT ![r].phase = phase]
    /\ reserved' = IF phase = "gone" THEN reserved ELSE reserved - read[r].held
    /\ files' = files \ {r}

\* The spool goes: abort, Drop, or the end of the replay task.
ReleaseSpool(r, phase) ==
    /\ read' = [read EXCEPT ![r].phase = phase, ![r].held = 0]
    /\ reserved' = reserved - read[r].held
    /\ files' = files \ {r}

-----------------------------------------------------------------------------
(* Bodies. *)

Live(r) == read[r].phase \in {"streaming", "direct", "spooling"}

\* Avro and Lance: the whole source is collected before it is decoded.
Collect(r) ==
    LET d == read[r] IN
    /\ d.phase = "collecting" /\ d.taken < Len(d.slice)
    /\ read' = [read EXCEPT ![r].taken = @ + 1]
    /\ UNCHANGED <<validator, primary, replica, upload, reserved, files, faults>>

\* serve_spooled_bytes: the output is spooled in one write and replayed; a
\* write beyond max_object_bytes aborts the spool again.
ServeSpooledBytes(r) ==
    LET d == read[r] IN
    /\ d.phase = "collecting" /\ d.taken = Len(d.slice)
    /\ IF Reservable(DiskReservation) /\ d.taken <= MaxObject
       THEN /\ read' = [read EXCEPT ![r].held = DiskReservation, ![r].phase = "replay",
                                    ![r].declared = d.taken]
            /\ reserved' = reserved + DiskReservation
            /\ files' = files \cup {r}
       ELSE Refuse(r) /\ UNCHANGED <<reserved, files>>
    /\ UNCHANGED <<validator, primary, replica, upload, faults>>

\* One more source byte: a plain or direct read sends it on, a spooled read
\* writes it to the spool, which refuses more than max_object_bytes.
Take(r) ==
    LET d == read[r] IN
    /\ Live(r) /\ d.taken < Len(d.slice)
    /\ IF d.phase = "spooling" /\ d.taken + 1 > MaxObject
       THEN ReleaseSpool(r, "refused")
       ELSE /\ read' = [read EXCEPT ![r].taken = @ + 1,
                                    ![r].sent = IF d.phase = "spooling" THEN @
                                                ELSE Append(@, d.slice[d.taken + 1])]
            /\ UNCHANGED <<reserved, files>>
    /\ UNCHANGED <<validator, primary, replica, upload, faults>>

\* The source ends: a plain or direct body ends with it; the spool is synced
\* and handed to the replay task, with its length declared.
Finish(r) ==
    LET d == read[r] IN
    /\ Live(r) /\ d.taken = Len(d.slice)
    /\ read' = [read EXCEPT ![r].phase = IF d.phase = "spooling" THEN "replay" ELSE "ended",
                            ![r].declared = IF d.phase = "spooling" THEN d.taken ELSE @]
    /\ UNCHANGED <<validator, primary, replica, upload, reserved, files, faults>>

\* The source breaks, exceeds its limits or the plugin fails: what was sent
\* cannot be taken back, a spool is dropped before anything was sent.
Break(r) ==
    /\ Live(r) \/ read[r].phase = "collecting"
    /\ Fault
    /\ IF read[r].phase \in {"spooling", "collecting"} THEN ReleaseSpool(r, "refused")
       ELSE read' = [read EXCEPT ![r].phase = "broken"] /\ UNCHANGED <<reserved, files>>
    /\ UNCHANGED <<validator, primary, replica, upload>>

\* stream_decrypted_file sends the next authenticated frame.
Replay(r) ==
    LET d == read[r] IN
    /\ d.phase = "replay" /\ (d.sent = << >> => r \in files)
    /\ Len(d.sent) < Len(d.slice)
    /\ read' = [read EXCEPT ![r].sent = Append(@, d.slice[Len(@) + 1])]
    /\ UNCHANGED <<validator, primary, replica, upload, reserved, files, faults>>

\* The file is exhausted: the body ends where the declared length says.
ReplayEnds(r) ==
    LET d == read[r] IN
    /\ d.phase = "replay" /\ Len(d.sent) = Len(d.slice)
    /\ (d.sent = << >> => r \in files)
    /\ ReleaseSpool(r, IF Len(d.sent) = d.declared THEN "ended" ELSE "broken")
    /\ UNCHANGED <<validator, primary, replica, upload, faults>>

\* A missing, short or altered file turns into a body error.
ReplayBreaks(r) ==
    /\ read[r].phase = "replay"
    /\ \/ read[r].sent = << >> /\ r \notin files /\ UNCHANGED faults
       \/ Fault
    /\ ReleaseSpool(r, "broken")
    /\ UNCHANGED <<validator, primary, replica, upload>>

\* The client goes away.  A spool is dropped by the task that owns it, some
\* time later.
Disconnect(r) ==
    /\ Fault
    /\ read[r].phase \in {"inspected", "collecting", "streaming", "direct", "spooling",
                           "replay"}
    /\ read' = [read EXCEPT ![r].phase = IF @ \in {"spooling", "replay"} THEN "orphan" ELSE "gone"]
    /\ UNCHANGED <<validator, primary, replica, upload, reserved, files>>

DropSpool(r) ==
    /\ read[r].phase = "orphan"
    /\ ReleaseSpool(r, "gone")
    /\ UNCHANGED <<validator, primary, replica, upload, faults>>

-----------------------------------------------------------------------------
(* Compatibility uploads. *)

SetUpload(u, phase) == upload' = [upload EXCEPT ![u].phase = phase]

BeginUpload(u) ==
    /\ upload[u].phase = "idle"
    /\ IF MaxObject <= QuotaBytes /\ Reservable(MaxObject)
       THEN \/ /\ upload' = [upload EXCEPT ![u] = [@ EXCEPT !.phase = "writing", !.held = MaxObject]]
               /\ reserved' = reserved + MaxObject
               /\ files' = files \cup {u}
               /\ UNCHANGED faults
            \/ Fault /\ SetUpload(u, "ended") /\ UNCHANGED <<reserved, files>>
       ELSE SetUpload(u, "ended") /\ UNCHANGED <<reserved, files, faults>>
    /\ UNCHANGED <<validator, primary, replica, read>>

\* A chunk beyond the limit fails the write; a new chunk voids verification.
WriteUpload(u) ==
    /\ upload[u].phase = "writing"
    /\ upload' = [upload EXCEPT ![u] =
                    IF @.bytes + 1 > MaxObject THEN [@ EXCEPT !.phase = "failing"]
                    ELSE [@ EXCEPT !.bytes = @ + 1, !.verified = FALSE]]
    /\ UNCHANGED <<validator, primary, replica, read, reserved, files, faults>>

VerifyUpload(u) ==
    /\ upload[u].phase = "writing" /\ ~upload[u].verified
    /\ upload' = [upload EXCEPT ![u].verified = TRUE]
    /\ UNCHANGED <<validator, primary, replica, read, reserved, files, faults>>

\* The file goes and the reservation is returned: complete, abort or Drop.
EndUpload(u) ==
    /\ upload' = [upload EXCEPT ![u].phase = "ended", ![u].held = 0]
    /\ reserved' = reserved - upload[u].held
    /\ files' = files \ {u}
    /\ UNCHANGED <<validator, primary, replica, read>>

\* complete: verified, synced, uploaded by path.
CompleteUpload(u) ==
    /\ upload[u].phase = "writing" /\ upload[u].verified
    /\ \/ u \in files /\ EndUpload(u) /\ UNCHANGED faults
       \/ /\ u \notin files
          /\ SetUpload(u, "failing")
          /\ UNCHANGED <<validator, primary, replica, read, reserved, files, faults>>
       \/ /\ Fault
          /\ SetUpload(u, "failing")
          /\ UNCHANGED <<validator, primary, replica, read, reserved, files>>

\* abort, or Drop of a transaction that did not finish.
AbortUpload(u) ==
    /\ upload[u].phase \in {"writing", "failing"}
    /\ EndUpload(u)
    /\ UNCHANGED faults

-----------------------------------------------------------------------------
\* cleanup_stale removes files that were not written for a while, in use or
\* left behind by an earlier process.
CleanupStale ==
    /\ Fault
    /\ \E owner \in files : files' = files \ {owner}
    /\ UNCHANGED <<validator, primary, replica, read, upload, reserved>>

\* The process restarts: requests, reservations and spool keys are gone.
RestartStreams ==
    /\ Fault
    /\ read' = [r \in Reads |-> [read[r] EXCEPT !.held = 0,
                   !.phase = IF @ \in {"idle", "refused", "ended", "broken"} THEN @ ELSE "gone"]]
    /\ upload' = [u \in Uploads |-> [upload[u] EXCEPT !.held = 0,
                     !.phase = IF @ = "idle" THEN @ ELSE "ended"]]
    /\ reserved' = 0
    /\ UNCHANGED <<validator, primary, replica, files>>

StreamsNext ==
    \/ Overwrite
    \/ \E r \in Reads, b \in Backends, g \in Ranges, c \in Conditions :
          \/ "plain" \in Kinds /\ OpenPlain(r, b, g, c)
          \/ \E k \in Kinds \ {"plain"} : Inspect(r, k, b, g, c)
    \/ \E r \in Reads :
          \/ OpenTransformed(r) \/ BeginSpool(r)
          \/ Collect(r) \/ ServeSpooledBytes(r)
          \/ Take(r) \/ Finish(r) \/ Break(r)
          \/ Replay(r) \/ ReplayEnds(r) \/ ReplayBreaks(r)
          \/ Disconnect(r) \/ DropSpool(r)
    \/ \E u \in Uploads :
          \/ BeginUpload(u) \/ WriteUpload(u) \/ VerifyUpload(u)
          \/ CompleteUpload(u) \/ AbortUpload(u)
    \/ CleanupStale
    \/ RestartStreams

StreamsSpec == StreamsInit /\ [][StreamsNext]_streamsVars

-----------------------------------------------------------------------------
\* The bytes the request is entitled to, from the range's definition.
Entitled(r) ==
    LET v == read[r].opened
        named == IF read[r].kind = "plain" THEN Named(Length(v), read[r].range)
                 ELSE 0..Length(v) - 1
        first == IF named = {} THEN 0 ELSE Min(named)
    IN  [i \in 1..Cardinality(named) |-> <<v, first + i - 1>>]

\* A body that ends cleanly is exactly the requested bytes of one version: the
\* one the condition was about and, for a transformed text format, the one
\* the HEAD inspected (transformed_source_matches_preflight).  Nothing else is
\* ever sent, and a spooled read that fails before its replay sent nothing.
ReadFaithful ==
    \A r \in Reads :
       LET d == read[r] IN
       /\ d.sent # << >> \/ d.phase = "ended" =>
             /\ \A i \in 1..Len(d.sent) : i <= Len(Entitled(r)) /\ d.sent[i] = Entitled(r)[i]
             /\ d.inspected # 0 /\ ~Binary(HeadMetadata(d.inspected)) => d.inspected = d.opened
             /\ d.inspected = 0 \/ ~Binary(HeadMetadata(d.inspected)) =>
                   ConditionHolds(d.cond, MetadataOf(d.opened))
       /\ d.phase = "ended" => Len(d.sent) = Len(Entitled(r))
       /\ d.phase = "refused" => d.sent = << >>

\* docs/security.md: "The source GET must match the preflight".  Avro and Lance
\* reads skip the comparison (s3_get), so they do not satisfy this.
PreflightBound ==
    \A r \in Reads :
       read[r].inspected # 0 /\ (read[r].sent # << >> \/ read[r].phase = "ended") =>
          read[r].inspected = read[r].opened

\* The quota counts the spools that exist, is never exceeded, and is returned
\* on every path: abort, failed creation, disconnect, replay and drop.
SpoolBalanced ==
    LET held == MapThenSumSet(LAMBDA r : read[r].held, Reads)
                + MapThenSumSet(LAMBDA u : upload[u].held, Uploads)
    IN  /\ reserved = held /\ reserved <= QuotaBytes
        /\ \A r \in Reads : read[r].held > 0 <=>
              read[r].phase \in {"spooling", "replay", "orphan"}
        /\ \A u \in Uploads : upload[u].held > 0 <=> upload[u].phase \in {"writing", "failing"}

=============================================================================
