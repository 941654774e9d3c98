------------------------- MODULE UploadRepositories -------------------------
(***************************************************************************)
(* The three implementations of MultipartRepository: PostgreSQL rows, the   *)
(* in-memory maps and the event reducer of the file repository.  A sequence *)
(* of calls, as the gateway makes them, runs on all three side by side.     *)
(* Every call is one transaction or one critical section; its operator      *)
(* gives the state it leaves and the answer.  A row life of "none" is no    *)
(* upload, 0 no deadline and NoFp no fingerprint, operation or result.      *)
(***************************************************************************)
EXTENDS Integers, FiniteSets, Sequences, FiniteSetsExt

CONSTANTS
    Parts,        \* part numbers
    Fingerprints, NoFp,
    Reserve,      \* bytes an UploadPart request reserves
    QuotaBytes,   \* staging limit
    MaxActive,    \* MAX_ACTIVE_UPLOADS
    MaxBegun,     \* bound on begun part attempts
    MaxToken,     \* bound on completion fencing tokens
    MaxTime,      \* bound on the clock
    Reissue,      \* an attempt number may be given out again while its holder is alive
    MaxSkew       \* how far a caller's clock reading may lie behind

Expiry == 3      \* expires_at_ms
Grace == 1       \* RECONCILIATION_GRACE
LeaseTerm == 1   \* COMPLETION_LEASE
Tombstone == 1   \* DEFAULT_EXPIRY after a terminal transition

VARIABLES
    now, others,       \* the clock, open uploads of the same tenant
    pg, mem, file,     \* the repositories: row, attempts and, in memory, the parts map
    handles,           \* PendingPart values the callers hold
    doomed,            \* artifacts whose deletion is to be confirmed
    answers,           \* what the last call returned
    late               \* a commit came after its attempt was cleaned

repoVars == <<now, others, pg, mem, file, handles, doomed, answers, late>>

NoRow == [life |-> "none", staged |-> 0, reserved |-> 0, updated |-> 0, fp |-> NoFp, lease |-> 0,
          token |-> 0, op |-> NoFp, commit |-> NoFp, result |-> NoFp, tomb |-> 0]
Empty == [row |-> NoRow, attempts |-> {}, parts |-> {}]

RepoInit ==
    /\ now = 1 /\ others \in 0..MaxActive
    /\ pg = Empty /\ mem = Empty /\ file = Empty
    /\ handles = <<>> /\ doomed = {} /\ late = FALSE
    /\ answers = [pg |-> "ok", mem |-> "ok", file |-> "ok"]

-----------------------------------------------------------------------------
(* Shared pieces                                                           *)

TerminalLife == {"Completed", "Aborted", "Expired"}
Known(s) == s.row.life # "none"
Row(s, fields) == [s EXCEPT !.row = [f \in DOMAIN NoRow |-> IF f \in DOMAIN fields THEN fields[f] ELSE @[f]]]

\* The first failing check refuses the call and leaves the state alone.
Checked(s, checks, new) ==
    LET bad == {i \in DOMAIN checks : checks[i][1]}
    IN  IF bad = {} THEN [to |-> new, answer |-> "ok"] ELSE [to |-> s, answer |-> checks[Min(bad)][2]]

FitsQuota(s, bytes) == s.row.staged + s.row.reserved + bytes <= QuotaBytes
NextAttempt(s, part) == 1 + Max({a.num : a \in {b \in s.attempts : b.part = part}} \cup {0})
Pending(h, part, num, at) ==
    [h |-> h, part |-> part, num |-> num, life |-> "Pending", size |-> 0, made |-> at]
CurrentOf(s) == {a \in s.attempts : a.life = "Current"}

\* CompletePart names a part number and the ETag of the attempt that must be current.
Selected(current, chosen) == chosen # {} /\ chosen \subseteq {a.h : a \in current}

PermitMatches(s, p) ==
    s.row.life = "Publishing" /\ s.row.fp = p.fp /\ s.row.token = p.token /\ s.row.op = p.fp

\* The checks of acquire_completion before the parts are looked at.
AcquireChecks(s, fp, at) ==
    << <<~Known(s), "notfound">>,
       <<s.row.life = "Completed", IF s.row.fp = fp THEN "replayed" ELSE "conflict">>,
       <<s.row.life = "Publishing", IF s.row.fp = fp THEN "busy" ELSE "conflict">>,
       <<s.row.life \in {"Aborted", "Expired"}, "notopen">>,
       <<s.row.life = "Completing" /\ s.row.fp # fp, "conflict">>,
       <<s.row.life = "Completing" /\ s.row.lease > at, "busy">>,
       <<s.row.life = "Open" /\ Expiry <= at, "notopen">> >>

-----------------------------------------------------------------------------
(* PostgreSQL: multipart_upload, multipart_part_attempt, the quota rows     *)

PgCreate(at) == Checked(pg, << <<others >= MaxActive, "quota">> >>, Row(Empty, [life |-> "Open", updated |-> at]))

PgBegin(part, h, at) ==
    Checked(pg, << <<~Known(pg), "notfound">>, <<pg.row.life # "Open" \/ Expiry <= at, "notopen">>,
                   <<~FitsQuota(pg, Reserve), "quota">> >>,
        Row([pg EXCEPT !.attempts = @ \cup {Pending(h, part, NextAttempt(pg, part), at)}],
            [reserved |-> pg.row.reserved + Reserve, updated |-> at]))

PgCommit(h, size) ==
    LET mine == {a \in pg.attempts : a.h = h /\ a.life = "Pending"}
        old == {a \in CurrentOf(pg) : a.part = handles[h].part}
    IN  Checked(pg, << <<~Known(pg), "notfound">>, <<pg.row.life # "Open", "notopen">>, <<mine = {}, "notfound">> >>,
            Row([pg EXCEPT !.attempts = (@ \ (mine \cup old)) \cup {[a EXCEPT !.life = "Retired"] : a \in old}
                                 \cup {[a EXCEPT !.life = "Current", !.size = size] : a \in mine}],
                [reserved |-> pg.row.reserved - Reserve, staged |-> pg.row.staged + size, updated |-> now]))

PgRelease(h) ==
    LET gone == {a \in pg.attempts : a.h = h}
        bytes == SumSet({a.size : a \in gone})
        held == IF \E a \in gone : a.life = "Pending" THEN Reserve ELSE 0
    IN  Checked(pg, <<>>, IF gone = {} THEN pg
                          ELSE Row([pg EXCEPT !.attempts = @ \ gone],
                                   [staged |-> pg.row.staged - bytes, reserved |-> pg.row.reserved - held,
                                    updated |-> now]))

PgCandidates(at) ==
    {a \in pg.attempts : \/ pg.row.life \in TerminalLife \/ a.life = "Retired"
                         \/ a.life = "Pending" /\ a.made <= at - Grace}

PgListParts == CurrentOf(pg)

MutPgAcquire(fp, chosen, at) ==
    Checked(pg, AcquireChecks(pg, fp, at) \o << <<~Selected(CurrentOf(pg), chosen), "invalid">> >>,
        Row(pg, [life |-> "Completing", fp |-> fp, lease |-> at + LeaseTerm, updated |-> at]))
PgAcquire(fp, chosen, at) ==
    Checked(pg, AcquireChecks(pg, fp, at) \o << <<~Selected(CurrentOf(pg), chosen), "invalid">> >>,
        Row(pg, [life |-> "Completing", fp |-> fp, lease |-> at + LeaseTerm, token |-> pg.row.token + 1,
                 updated |-> at]))

PgRenew(token, until) ==
    Checked(pg, << <<pg.row.life # "Completing" \/ pg.row.token # token, "fenced">> >>,
        Row(pg, [lease |-> until, updated |-> now]))

PgCheckLease(token, at) ==
    Checked(pg, << <<~Known(pg), "notfound">>,
                   <<pg.row.life # "Completing" \/ pg.row.token # token \/ pg.row.lease <= at, "fenced">> >>, pg)

PgBeginDestination(p, at) ==
    Checked(pg, << <<~Known(pg), "notfound">>,
                   <<pg.row.life # "Completing" \/ pg.row.fp # p.fp \/ pg.row.token # p.token
                     \/ pg.row.lease <= at, "fenced">> >>,
        Row(pg, [life |-> "Publishing", op |-> p.fp, commit |-> NoFp, lease |-> 0, updated |-> at]))

PgValidatePermit(p) == Checked(pg, << <<~PermitMatches(pg, p), "fenced">> >>, pg)

PgRecord(p, result, at) ==
    Checked(pg, << <<~PermitMatches(pg, p), "fenced">>,
                   <<pg.row.commit \notin {NoFp, result}, "conflict">> >>,
        IF pg.row.commit = NoFp THEN Row(pg, [commit |-> result, updated |-> at]) ELSE pg)

PgReleaseCommit(p, at) ==
    Checked(pg, << <<~PermitMatches(pg, p) \/ pg.row.commit # NoFp, "fenced">> >>,
        Row(pg, [life |-> "Completing", op |-> NoFp, lease |-> at, updated |-> at]))

PgPublishing == pg.row.life = "Publishing"

PgComplete(p, result, at) ==
    Checked(pg, << <<~Known(pg), "notfound">>,
                   <<~PermitMatches(pg, p) \/ pg.row.commit # result, "fenced">> >>,
        Row(pg, [life |-> "Completed", result |-> result, lease |-> 0, tomb |-> at + Tombstone, updated |-> at]))

PgClear(op) ==
    Checked(pg, << <<pg.row.life \notin TerminalLife \/ pg.row.op # op, "fenced">> >>,
        Row(pg, [op |-> NoFp, commit |-> NoFp]))

PgAbort(at) ==
    Checked(pg, << <<~Known(pg), "notfound">>, <<pg.row.life = "Aborted", "again">>,
                   <<pg.row.life # "Open", "notopen">> >>,
        Row(pg, [life |-> "Aborted", tomb |-> at + Tombstone]))

PgDeleteTerminal ==
    Checked(pg, << <<~Known(pg), "notfound">>, <<pg.row.life \notin {"Aborted", "Expired"}, "notopen">>,
                   <<pg.row.op # NoFp, "fenced">>, <<pg.attempts # {}, "persistence">> >>, Empty)

PgTombstoned(at) == pg.row.life \in TerminalLife /\ pg.row.tomb <= at
PgRetire(at) ==
    Checked(pg, <<>>, IF PgTombstoned(at) /\ pg.attempts = {} /\ pg.row.op = NoFp THEN Empty ELSE pg)

PgReap(at) ==
    Checked(pg, <<>>, IF pg.row.life = "Open" /\ Expiry <= at
                      THEN Row(pg, [life |-> "Expired", tomb |-> at + Tombstone, updated |-> at]) ELSE pg)

-----------------------------------------------------------------------------
(* Memory: uploads, attempts and a separate map of current parts            *)

MemCreate(at) == Checked(mem, << <<others >= MaxActive, "quota">> >>, Row(Empty, [life |-> "Open", updated |-> at]))

MemBegin(part, h, at) ==
    Checked(mem, << <<~Known(mem), "notfound">>, <<mem.row.life # "Open" \/ Expiry <= at, "notopen">>,
                    <<~FitsQuota(mem, Reserve), "quota">> >>,
        Row([mem EXCEPT !.attempts = @ \cup {Pending(h, part, NextAttempt(mem, part), at)}],
            [reserved |-> mem.row.reserved + Reserve, updated |-> at]))

\* The previous part is retired before the attempt is looked up: a refused
\* commit has already given it to the cleaner.
MemCommit(h, size) ==
    LET mine == {a \in mem.attempts : a.h = h /\ a.life = "Pending"}
        prior == {q \in mem.parts : q.part = handles[h].part}
        old == {a \in mem.attempts : \E q \in prior : q.h = a.h}
        retired == (mem.attempts \ old) \cup {[a EXCEPT !.life = "Retired"] : a \in old}
        done == {[a EXCEPT !.life = "Current", !.size = size] : a \in mine}
    IN  IF mem.row.life = "Open" /\ mine = {}
        THEN [to |-> [mem EXCEPT !.attempts = retired], answer |-> "notfound"]
        ELSE Checked(mem, << <<~Known(mem), "notfound">>, <<mem.row.life # "Open", "notopen">> >>,
                 Row([mem EXCEPT !.attempts = (retired \ mine) \cup done, !.parts = (@ \ prior) \cup done],
                     [reserved |-> mem.row.reserved - Reserve, staged |-> mem.row.staged + size, updated |-> now]))

MemConfirm(h) ==
    LET gone == {a \in mem.attempts : a.h = h}
        held == {a \in gone : a.life = "Pending"}
    IN  Checked(mem, <<>>, IF gone = {} THEN mem
            ELSE Row([mem EXCEPT !.attempts = @ \ gone, !.parts = {q \in @ : q.h # h}],
                     [staged |-> mem.row.staged - SumSet({a.size : a \in gone}),
                      reserved |-> mem.row.reserved - Reserve * Cardinality(held), updated |-> now]))

MemDiscard(h) == MemConfirm(h)

MemCandidates(at) ==
    {a \in mem.attempts : \/ mem.row.life \in TerminalLife \/ a.life = "Retired"
                          \/ a.life = "Pending" /\ a.made <= at - Grace}

MemListParts == mem.parts

MemAcquire(fp, chosen, at) ==
    Checked(mem, AcquireChecks(mem, fp, at) \o << <<~Selected(mem.parts, chosen), "invalid">> >>,
        Row(mem, [life |-> "Completing", fp |-> fp, lease |-> at + LeaseTerm, token |-> mem.row.token + 1,
                  updated |-> at]))

MemRenew(token, until) ==
    Checked(mem, << <<~Known(mem), "notfound">>,
                    <<mem.row.life # "Completing" \/ mem.row.token # token, "fenced">> >>,
        Row(mem, [lease |-> until, updated |-> now]))

MemCheckLease(token, at) ==
    Checked(mem, << <<~Known(mem), "notfound">>,
                    <<mem.row.life # "Completing" \/ mem.row.token # token \/ mem.row.lease <= at, "fenced">> >>, mem)

MemBeginDestination(p, at) ==
    Checked(mem, << <<~Known(mem), "notfound">>,
                    <<mem.row.life # "Completing" \/ mem.row.fp # p.fp \/ mem.row.token # p.token
                      \/ mem.row.lease <= at, "fenced">> >>,
        Row(mem, [life |-> "Publishing", op |-> p.fp, commit |-> NoFp, lease |-> 0, updated |-> at]))

MemValidatePermit(p) == Checked(mem, << <<~PermitMatches(mem, p), "fenced">> >>, mem)

MemRecord(p, result, at) ==
    Checked(mem, << <<~PermitMatches(mem, p), "fenced">>,
                    <<mem.row.commit \notin {NoFp, result}, "conflict">> >>,
        IF mem.row.commit = NoFp THEN Row(mem, [commit |-> result, updated |-> at]) ELSE mem)

MemReleaseCommit(p, at) ==
    Checked(mem, << <<~PermitMatches(mem, p) \/ mem.row.commit # NoFp, "fenced">> >>,
        Row(mem, [life |-> "Completing", op |-> NoFp, lease |-> at, updated |-> at]))

MemPublishing == mem.row.life = "Publishing"

MemComplete(p, result, at) ==
    Checked(mem, << <<~Known(mem), "notfound">>,
                    <<~PermitMatches(mem, p) \/ mem.row.commit # result, "fenced">> >>,
        Row(mem, [life |-> "Completed", result |-> result, lease |-> 0, tomb |-> at + Tombstone, updated |-> at]))

MemClear(op) ==
    Checked(mem, << <<~Known(mem), "notfound">>,
                    <<mem.row.life \notin TerminalLife \/ mem.row.op # op, "fenced">> >>,
        Row(mem, [op |-> NoFp, commit |-> NoFp]))

\* A closing upload gives its parts away.
MemAbort(at) ==
    Checked(mem, << <<~Known(mem), "notfound">>, <<mem.row.life = "Aborted", "again">>,
                    <<mem.row.life # "Open", "notopen">> >>,
        Row([mem EXCEPT !.parts = {}], [life |-> "Aborted", tomb |-> at + Tombstone, updated |-> at]))

MemDeleteTerminal ==
    Checked(mem, << <<~Known(mem), "notfound">>,
                    <<mem.row.life \notin {"Aborted", "Expired"} \/ mem.row.op # NoFp
                      \/ mem.attempts # {} \/ mem.parts # {}, "persistence">> >>, Empty)

MemTombstoned(at) == mem.row.life \in TerminalLife /\ mem.row.tomb <= at
MemRetire(at) ==
    Checked(mem, <<>>, IF MemTombstoned(at) /\ mem.attempts = {} /\ mem.parts = {} /\ mem.row.op = NoFp
                       THEN Empty ELSE mem)

MemReap(at) ==
    Checked(mem, <<>>, IF mem.row.life = "Open" /\ Expiry <= at
                       THEN Row([mem EXCEPT !.parts = {}],
                                [life |-> "Expired", tomb |-> at + Tombstone, updated |-> at]) ELSE mem)

-----------------------------------------------------------------------------
(* File: events reduced to a snapshot.  A transition is the set of snapshots *)
(* it leads to, empty when the reducer refuses it.                          *)

RequireOpen(s) == s.row.life = "Open"
Attempt(s, part, num) == {a \in s.attempts : a.part = part /\ a.num = num}
RetireCurrent(s) == [s EXCEPT !.attempts = {IF a.life = "Current" THEN [a EXCEPT !.life = "Retired"] ELSE a : a \in @}]

CalculateAccounting(attempts) ==
    [staged |-> MapThenSumSet(LAMBDA a : a.size, attempts),
     reserved |-> Reserve * Cardinality({a \in attempts : a.life = "Pending"})]

ValidUpload(row) ==
    /\ row.life = "Open" => row.fp = NoFp /\ row.token = 0 /\ row.lease = 0 /\ row.op = NoFp /\ row.tomb = 0
    /\ row.life = "Completing" => row.fp # NoFp /\ row.token # 0 /\ row.lease # 0 /\ row.op = NoFp /\ row.commit = NoFp
    /\ row.life = "Publishing" => row.fp # NoFp /\ row.token # 0 /\ row.lease = 0 /\ row.op # NoFp /\ row.result = NoFp
    /\ row.life = "Completed" => /\ row.fp # NoFp /\ row.result # NoFp /\ row.tomb # 0
                                 /\ (row.op # NoFp) = (row.commit # NoFp)
    /\ row.life \in {"Aborted", "Expired"} => row.tomb # 0 /\ row.fp = NoFp /\ row.token = 0 /\ row.op = NoFp

ValidSnapshot(s) ==
    /\ Known(s) \/ s.attempts = {}
    /\ ValidUpload(s.row)
    /\ s.row.life \in TerminalLife => CurrentOf(s) = {}
    /\ \A a, b \in CurrentOf(s) : a.part = b.part => a = b

\* set_updated_at: a reading older than the last one is refused.
SetUpdatedAt(s, at) ==
    IF at < s.row.updated THEN {}
    ELSE {Row(s, [updated |-> at, staged |-> CalculateAccounting(s.attempts).staged,
                  reserved |-> CalculateAccounting(s.attempts).reserved])}

\* apply_transition: a violated limit is what the caller names, any other refusal
\* an internal error.
ApplyTransition(next, semantic) ==
    Checked(file, << <<next = {}, "persistence">>,
                     <<\E s \in next : s.row.staged + s.row.reserved > QuotaBytes, semantic>>,
                     <<\E s \in next : ~ValidSnapshot(s), "persistence">> >>,
            CHOOSE s \in next : TRUE)

PartReserved(part, num, h, at) ==
    IF ~RequireOpen(file) \/ Expiry <= at \/ num # NextAttempt(file, part) THEN {}
    ELSE SetUpdatedAt([file EXCEPT !.attempts = @ \cup {Pending(h, part, num, at)}], at)

PartCommitted(part, num, h, size, at) ==
    LET mine == {a \in Attempt(file, part, num) : a.life = "Pending"}
        old == {a \in CurrentOf(file) : a.part = part}
    IN  IF ~RequireOpen(file) \/ mine = {} THEN {}
        ELSE SetUpdatedAt([file EXCEPT !.attempts = (@ \ (mine \cup old))
                  \cup {[a EXCEPT !.life = "Retired"] : a \in old}
                  \cup {[a EXCEPT !.life = "Current", !.size = size, !.h = h] : a \in mine}], at)

ArtifactDeleted(gone, at) ==
    IF (\E a \in gone : a.life = "Current") /\ file.row.life \in {"Open", "Completing", "Publishing"} THEN {}
    ELSE SetUpdatedAt([file EXCEPT !.attempts = @ \ gone], at)

CompletionAcquired(fp, chosen, token, until, at) ==
    IF \/ file.row.life \notin {"Open", "Completing"}
       \/ file.row.life = "Open" /\ Expiry <= at
       \/ file.row.fp \notin {NoFp, fp}
       \/ file.row.life = "Completing" /\ file.row.lease > at
       \/ token # file.row.token + 1 \/ until <= at
       \/ ~Selected(CurrentOf(file), chosen)
    THEN {}
    ELSE SetUpdatedAt(Row(file, [life |-> "Completing", fp |-> fp, lease |-> until, token |-> token]), at)

CompletionRenewed(token, until, at) ==
    IF file.row.life # "Completing" \/ file.row.token # token \/ until <= at THEN {}
    ELSE SetUpdatedAt(Row(file, [lease |-> until]), at)

DestinationCommitBegun(p, at) ==
    IF file.row.life # "Completing" \/ file.row.fp # p.fp \/ file.row.token # p.token \/ file.row.lease <= at THEN {}
    ELSE SetUpdatedAt(Row(file, [life |-> "Publishing", op |-> p.fp, commit |-> NoFp, lease |-> 0]), at)

ValidatePermit(p) == PermitMatches(file, p)

DestinationCommitRecorded(p, result, at) ==
    IF ~ValidatePermit(p) \/ file.row.commit # NoFp THEN {} ELSE SetUpdatedAt(Row(file, [commit |-> result]), at)

DestinationCommitReleased(p, at) ==
    IF ~ValidatePermit(p) \/ file.row.commit # NoFp THEN {}
    ELSE SetUpdatedAt(Row(file, [life |-> "Completing", op |-> NoFp, lease |-> at]), at)

CompletionCompleted(p, result, at) ==
    IF ~ValidatePermit(p) \/ file.row.commit # result THEN {}
    ELSE SetUpdatedAt(RetireCurrent(Row(file, [life |-> "Completed", result |-> result, lease |-> 0,
                                               tomb |-> at + Tombstone])), at)

DestinationCommitReferenceCleared(op, at) ==
    IF file.row.life \notin TerminalLife \/ file.row.op # op THEN {}
    ELSE SetUpdatedAt(Row(file, [op |-> NoFp, commit |-> NoFp]), at)

TerminalWithoutCommit(life, at) ==
    IF ~RequireOpen(file) THEN {}
    ELSE SetUpdatedAt(RetireCurrent(Row(file, [life |-> life, tomb |-> at + Tombstone])), at)

UploadExpired(at) == IF ~RequireOpen(file) \/ Expiry > at THEN {} ELSE TerminalWithoutCommit("Expired", at)

Deleted(lives, at) ==
    IF file.row.life \notin lives \/ file.attempts # {} \/ file.row.op # NoFp \/ file.row.commit # NoFp
       \/ file.row.tomb > at
    THEN {} ELSE {Empty}
TerminalUploadDeleted == Deleted({"Aborted", "Expired"}, file.row.tomb)
TerminalUploadRetired(at) == Deleted(TerminalLife, at)

-----------------------------------------------------------------------------
(* FileMultipartRepository                                                 *)

FileCreate(at) ==
    Checked(file, << <<others >= MaxActive, "persistence">> >>, Row(Empty, [life |-> "Open", updated |-> at]))

FileOpen(next, checks, semantic) ==
    LET applied == ApplyTransition(next, semantic)
        all == checks \o << <<applied.answer # "ok", applied.answer>> >>
    IN  Checked(file, all, applied.to)

FileBegin(part, h, at) ==
    FileOpen(PartReserved(part, NextAttempt(file, part), h, at),
             << <<~Known(file), "notfound">>, <<file.row.life # "Open" \/ Expiry <= at, "notopen">> >>, "quota")

FileCommit(h, size) ==
    FileOpen(PartCommitted(handles[h].part, handles[h].num, h, size, now),
             << <<~Known(file), "notfound">>, <<file.row.life # "Open", "notopen">> >>, "notfound")

FileConfirm(h) ==
    LET gone == Attempt(file, handles[h].part, handles[h].num)
    IN  IF gone = {} THEN Checked(file, <<>>, file) ELSE ApplyTransition(ArtifactDeleted(gone, now), "persistence")

FileDiscard(h) == IF Known(file) THEN FileConfirm(h) ELSE Checked(file, << <<TRUE, "notfound">> >>, file)

FileCandidates(at) ==
    {a \in file.attempts : \/ file.row.life \in TerminalLife \/ a.life = "Retired"
                           \/ a.life = "Pending" /\ a.made <= at - Grace}

FileListParts == CurrentOf(file)

FileAcquire(fp, chosen, at) ==
    FileOpen(CompletionAcquired(fp, chosen, file.row.token + 1, at + LeaseTerm, at),
             AcquireChecks(file, fp, at) \o << <<~Selected(FileListParts, chosen), "invalid">> >>, "fenced")

FileRenew(token, until) ==
    FileOpen(CompletionRenewed(token, until, now),
             << <<~Known(file), "notfound">>,
                <<file.row.life # "Completing" \/ file.row.token # token \/ until <= now, "fenced">> >>, "fenced")

FileCheckLease(token, at) ==
    Checked(file, << <<~Known(file), "notfound">>,
                     <<file.row.life # "Completing" \/ file.row.token # token \/ file.row.lease <= at, "fenced">> >>, file)

FileBeginDestination(p, at) ==
    FileOpen(DestinationCommitBegun(p, at),
             << <<~Known(file), "notfound">>,
                <<file.row.life # "Completing" \/ file.row.fp # p.fp \/ file.row.token # p.token
                  \/ file.row.lease <= at, "fenced">> >>, "fenced")

FileValidatePermit(p) == Checked(file, << <<~PermitMatches(file, p), "fenced">> >>, file)

FileRecord(p, result, at) ==
    IF PermitMatches(file, p) /\ file.row.commit # NoFp
    THEN Checked(file, << <<file.row.commit # result, "conflict">> >>, file)
    ELSE FileOpen(DestinationCommitRecorded(p, result, at), << <<~PermitMatches(file, p), "fenced">> >>, "fenced")

FileReleaseCommit(p, at) ==
    FileOpen(DestinationCommitReleased(p, at), << <<~PermitMatches(file, p) \/ file.row.commit # NoFp, "fenced">> >>, "fenced")

FilePublishing == file.row.life = "Publishing"

FileComplete(p, result, at) ==
    FileOpen(CompletionCompleted(p, result, at),
             << <<~Known(file), "notfound">>,
                <<~PermitMatches(file, p) \/ file.row.commit # result, "fenced">> >>, "fenced")

FileClear(op) ==
    FileOpen(DestinationCommitReferenceCleared(op, now),
             << <<~Known(file), "notfound">>,
                <<file.row.life \notin TerminalLife \/ file.row.op # op, "fenced">> >>, "fenced")

FileAbort(at) ==
    FileOpen(TerminalWithoutCommit("Aborted", at),
             << <<~Known(file), "notfound">>, <<file.row.life = "Aborted", "again">>,
                <<file.row.life # "Open", "notopen">> >>, "persistence")

FileDeleteTerminal ==
    FileOpen(TerminalUploadDeleted,
             << <<~Known(file), "notfound">>,
                <<file.row.life \notin {"Aborted", "Expired"} \/ file.row.op # NoFp \/ file.attempts # {}, "persistence">> >>,
             "persistence")

FileTombstoned(at) == file.row.life \in TerminalLife /\ file.row.tomb <= at
FileRetire(at) ==
    IF FileTombstoned(at) /\ file.attempts = {} /\ file.row.op = NoFp
    THEN ApplyTransition(TerminalUploadRetired(at), "persistence") ELSE Checked(file, <<>>, file)

FileReap(at) ==
    IF file.row.life = "Open" /\ Expiry <= at
    THEN ApplyTransition(UploadExpired(at), "persistence") ELSE Checked(file, <<>>, file)

-----------------------------------------------------------------------------
(* The gateway's calls                                                     *)

Called(p, m, f) ==
    /\ pg' = p.to /\ mem' = m.to /\ file' = f.to
    /\ answers' = [pg |-> p.answer, mem |-> m.answer, file |-> f.answer]
    /\ UNCHANGED <<now, others>>

\* The clock a caller read before the call.
Readings == (now - MaxSkew)..now
Permits == [fp : Fingerprints, token : 1..MaxToken]
Results == {NoFp} \cup Fingerprints
Unmoved == UNCHANGED <<handles, doomed, late>>

Create ==
    /\ handles = <<>> /\ ~Known(pg) /\ ~Known(mem) /\ ~Known(file)
    /\ Called(PgCreate(now), MemCreate(now), FileCreate(now)) /\ Unmoved

\* The request or cleanup that holds an earlier attempt of this number.
Reissues(part) ==
    \E i \in DOMAIN handles : /\ handles[i].part = part /\ handles[i].num = NextAttempt(file, part)
                              /\ handles[i].pc = "held" \/ i \in doomed

BeginPart ==
    \E part \in Parts, at \in Readings :
        LET h == Len(handles) + 1
        IN  /\ h <= MaxBegun /\ Known(pg) /\ (Reissue \/ ~Reissues(part))
            /\ Called(PgBegin(part, h, at), MemBegin(part, h, at), FileBegin(part, h, at))
            /\ handles' = Append(handles, [part |-> part, num |-> NextAttempt(file, part),
                               pc |-> IF answers'.pg = "ok" THEN "held" ELSE "done"])
            /\ UNCHANGED <<doomed, late>>

Spend(h) == handles' = [handles EXCEPT ![h].pc = "done"]

\* Every caller drops the result.
DiscardPending ==
    \E h \in DOMAIN handles :
        /\ handles[h].pc = "held" /\ Spend(h)
        /\ pg' = PgRelease(h).to /\ mem' = MemDiscard(h).to /\ file' = FileDiscard(h).to
        /\ UNCHANGED <<now, others, answers, doomed, late>>

CommitPart ==
    \E h \in DOMAIN handles, size \in 1..Reserve :
        /\ handles[h].pc = "held" /\ Spend(h)
        /\ Called(PgCommit(h, size), MemCommit(h, size), FileCommit(h, size))
        /\ doomed' = doomed \cup IF answers'.pg = "ok"
                                 THEN {a.h : a \in {b \in PgListParts : b.part = handles[h].part}} ELSE {}
        /\ late' = (late \/ (pg.row.life = "Open" /\ answers'.pg = "notfound"))

\* The worker lists candidates; closing calls return the current parts.
CleanupCandidates ==
    /\ doomed' = doomed \cup {a.h : a \in PgCandidates(now)} /\ doomed' # doomed
    /\ UNCHANGED <<now, others, pg, mem, file, handles, answers, late>>

\* An artifact committed since it was listed is what MultipartParts is about.
Settled(h) == pg.row.life \notin TerminalLife => \A a \in PgListParts : a.h # h
ConfirmArtifactDeleted ==
    \E h \in doomed :
        /\ Settled(h) /\ doomed' = doomed \ {h}
        /\ Called(PgRelease(h), MemConfirm(h), FileConfirm(h))
        /\ UNCHANGED <<handles, late>>

AcquireCompletion ==
    \E fp \in Fingerprints, chosen \in SUBSET DOMAIN handles, at \in Readings :
        /\ Known(pg) /\ pg.row.token < MaxToken
        /\ Called(PgAcquire(fp, chosen, at), MemAcquire(fp, chosen, at), FileAcquire(fp, chosen, at)) /\ Unmoved

RenewCompletion ==
    \E token \in 1..MaxToken :
        /\ Called(PgRenew(token, now + LeaseTerm), MemRenew(token, now + LeaseTerm), FileRenew(token, now + LeaseTerm))
        /\ Unmoved

CheckCompletionLease ==
    \E token \in 1..MaxToken, at \in Readings :
        Called(PgCheckLease(token, at), MemCheckLease(token, at), FileCheckLease(token, at)) /\ Unmoved

BeginDestinationCommit ==
    \E p \in Permits, at \in Readings :
        Called(PgBeginDestination(p, at), MemBeginDestination(p, at), FileBeginDestination(p, at)) /\ Unmoved

ValidateDestinationCommitPermit ==
    \E p \in Permits : Called(PgValidatePermit(p), MemValidatePermit(p), FileValidatePermit(p)) /\ Unmoved

RecordDestinationCommit ==
    \E p \in Permits, result \in Fingerprints, at \in Readings :
        Called(PgRecord(p, result, at), MemRecord(p, result, at), FileRecord(p, result, at)) /\ Unmoved

ReleaseDestinationCommit ==
    \E p \in Permits, at \in Readings :
        Called(PgReleaseCommit(p, at), MemReleaseCommit(p, at), FileReleaseCommit(p, at)) /\ Unmoved

CompleteCompletion ==
    \E p \in Permits, result \in Fingerprints, at \in Readings :
        /\ Called(PgComplete(p, result, at), MemComplete(p, result, at), FileComplete(p, result, at))
        /\ doomed' = doomed \cup (IF answers'.pg = "ok" THEN {a.h : a \in PgListParts} ELSE {})
        /\ UNCHANGED <<handles, late>>

ClearDestinationCommitReference ==
    \E op \in Fingerprints : Called(PgClear(op), MemClear(op), FileClear(op)) /\ Unmoved

Abort ==
    \E at \in Readings :
        /\ Called(PgAbort(at), MemAbort(at), FileAbort(at))
        /\ doomed' = doomed \cup (IF answers'.pg = "ok" THEN {a.h : a \in PgListParts} ELSE {})
        /\ UNCHANGED <<handles, late>>

DeleteTerminalUpload == Called(PgDeleteTerminal, MemDeleteTerminal, FileDeleteTerminal) /\ Unmoved

RetireTerminalUploads ==
    PgTombstoned(now) /\ Called(PgRetire(now), MemRetire(now), FileRetire(now)) /\ Unmoved

ReapExpired ==
    /\ now >= Expiry /\ Called(PgReap(now), MemReap(now), FileReap(now)) /\ Unmoved

Tick == now < MaxTime /\ now' = now + 1 /\ UNCHANGED <<others, pg, mem, file, handles, doomed, answers, late>>

RepoNext ==
    \/ Create \/ BeginPart \/ DiscardPending \/ CommitPart \/ CleanupCandidates \/ ConfirmArtifactDeleted
    \/ AcquireCompletion \/ RenewCompletion \/ CheckCompletionLease \/ BeginDestinationCommit
    \/ ValidateDestinationCommitPermit \/ RecordDestinationCommit \/ ReleaseDestinationCommit
    \/ CompleteCompletion \/ ClearDestinationCommitReference \/ Abort \/ DeleteTerminalUpload
    \/ RetireTerminalUploads \/ ReapExpired \/ Tick

-----------------------------------------------------------------------------
(* Properties                                                              *)

Verdict(answer) == IF answer \in {"ok", "again", "busy", "replayed"} THEN answer ELSE "refused"

Facts(s) == [f \in DOMAIN NoRow \ {"updated"} |-> s.row[f]]
Held(s) == {<<a.h, a.part, a.num, a.size, a.life = "Pending">> : a \in s.attempts}
LiveParts(s, parts) == IF s.row.life \in TerminalLife THEN {} ELSE {<<q.h, q.part>> : q \in parts}
View(s, parts, candidates) ==
    [row |-> Facts(s), held |-> Held(s), parts |-> LiveParts(s, parts), old |-> {a.h : a \in candidates}]

PgView == View(pg, PgListParts, PgCandidates(now))
MemView == View(mem, MemListParts, MemCandidates(now))
FileView == View(file, FileListParts, FileCandidates(now))

\* One contract, three repositories: the same calls get the same verdicts and leave
\* the same upload, quota, parts and cleanup work, whichever repository a deployment
\* runs on.  The memory repository keeps up until a commit arrives for an attempt
\* the worker has already cleaned.
RepositoriesAgree ==
    /\ Verdict(answers.pg) = Verdict(answers.file) /\ PgView = FileView
    /\ PgPublishing = FilePublishing /\ PgTombstoned(now) = FileTombstoned(now)
    /\ ~late => /\ Verdict(answers.pg) = Verdict(answers.mem) /\ PgView = MemView
                /\ PgPublishing = MemPublishing /\ PgTombstoned(now) = MemTombstoned(now)
=============================================================================
