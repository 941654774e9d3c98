-------------------------- MODULE CredentialStore --------------------------
(***************************************************************************)
(* API keys and MCP tokens: the three key repositories (memory, one JSON   *)
(* file, Postgres), the dashboard handlers that mint, change and revoke    *)
(* credentials, the operator's bootstrap at start-up, and the              *)
(* authentication of a request against them.  The file repository's        *)
(* mutations take the steps the code takes: the mutation lock, the copy of *)
(* the map they do not change, the change of the other map under its write *)
(* lock, the rename that commits both maps as one snapshot, the sync of    *)
(* the directory, the answer.  A SigV4 request reads the repository twice  *)
(* and, for a legacy envelope, rewraps the secret in between other steps.  *)
(***************************************************************************)
EXTENDS Naturals, FiniteSets

CONSTANTS
    Keys,          \* API key ids
    Tokens,        \* MCP token hashes
    Callers,       \* dashboard requests that change credentials, one call each
    Requests,      \* requests to authenticate, one each
    Configs,       \* the configurations an instance considers: repository, cipher,
                   \* the keys MASKURA_BOOTSTRAP_KEY and MASKURA_ROOT_USER name
    Nobody,
    SyncFails,     \* may the sync of the snapshot's directory fail
    Expiring,      \* credentials created with a lifetime
    MaxActors,     \* calls and requests together
    MaxFaults      \* store errors and restarts

\* Ids are told apart; what is seeded at start-up is a key.
ASSUME CredentialAssumption ==
    /\ Keys \cap Tokens = {} /\ Nobody \notin Callers \cup Keys \cup Tokens
    /\ Configs \subseteq [repo : {"memory", "file", "postgres"}, cipher : {"none", "ephemeral", "durable"},
                         boot : Keys \cup {Nobody}, root : Keys \cup {Nobody}]

VARIABLES
    config,        \* [repo, cipher, boot, root]: the configuration, never changes
    process,       \* [up, era]: is it serving, and which incarnation
    creds,         \* the map or the table: credential -> its row
    disk,          \* file: the snapshot a restart loads
    durable,       \* file: the snapshot that a power loss may fall back to
    locks,         \* file: holder of the mutation lock and of both write locks
    calls,         \* caller -> its call
    requests,      \* request -> its authentication
    expired,       \* credentials whose lifetime is over
    acked,         \* history: what a caller was last told about a credential
    faults

credentialVars == <<config, process, creds, disk, durable, locks, calls,
                    requests, expired, acked, faults>>

Creds == Keys \cup Tokens

repo == config.repo
cipher == config.cipher      \* "none", "ephemeral" (a random key per process), "durable"
BootKey == config.boot
RootKey == config.root

Absent == [live |-> FALSE, envelope |-> "none", era |-> 0, pem |-> 0]

Idle == [op |-> "none", at |-> "idle", cred |-> Nobody, copy |-> <<>>, before |-> Absent]

Fresh == [path |-> "none", at |-> "idle", cred |-> Nobody, good |-> FALSE, pem |-> 0,
          era |-> 0, told |-> Absent, touched |-> FALSE, answer |-> "none"]

Held == [mutation |-> Nobody, keys |-> Nobody, tokens |-> Nobody]

Expect(row) == [live |-> row.live, envelope |-> "any", era |-> 0, pem |-> row.pem]

Unknown == [live |-> FALSE, envelope |-> "unknown", era |-> 0, pem |-> 0]

\* A new secret is sealed in a v2 envelope when a cipher is configured, under
\* the wrapping key of this process; without one it is not kept at all.
Sealed(row) ==
    [row EXCEPT !.envelope = IF cipher = "none" THEN "none" ELSE "v2",
                !.era = IF cipher = "ephemeral" THEN process.era ELSE 0]

GenerateApiKey(pem) == Sealed([Absent EXCEPT !.live = TRUE, !.pem = pem])

BootstrapApiKey == Sealed([Absent EXCEPT !.live = TRUE])

GenerateMcpToken == [Absent EXCEPT !.live = TRUE]

-----------------------------------------------------------------------------
(* Reading: the repository is read through the map's read lock, which a    *)
(* mutation of the file repository holds for writing until it has answered *)
(* or rolled back.                                                         *)

LockOf(c) == IF c \in Keys THEN "keys" ELSE "tokens"

Readable(c) == repo = "file" => locks[LockOf(c)] = Nobody

GetKey(c) == creds[c]

IsExpired(c) == c \in expired

\* A v1 or v2 envelope opens only under the wrapping key it was sealed with:
\* another process's ephemeral key makes the unwrap fail, which is an outage
\* and not a denial.
DecryptResult(row) ==
    IF cipher = "none" \/ row.envelope = "none" THEN "nothing"
    ELSE IF row.era # (IF cipher = "ephemeral" THEN process.era ELSE 0) THEN "error"
    ELSE "secret"

MatchingV2(row) == row.live /\ row.envelope = "v2" /\ DecryptResult(row) = "secret"

-----------------------------------------------------------------------------
(* Answers.                                                                *)

\* Everybody authenticating with a credential while a call changes it may
\* see either side of the change.
Touch(c) ==
    requests' = [r \in Requests |->
        IF requests[r].cred = c THEN [requests[r] EXCEPT !.touched = TRUE] ELSE requests[r]]

Finish(w, told) ==
    /\ calls' = [calls EXCEPT ![w].at = "done", ![w].copy = <<>>, ![w].before = Absent]
    /\ acked' = [acked EXCEPT ![calls[w].cred] = told]

\* The handler answers 404, 400 or 503 and the repository is as it was.
Refuse(w) ==
    /\ Finish(w, acked[calls[w].cred])
    /\ UNCHANGED <<creds, disk, durable, locks, requests>>

\* Memory: one critical section of the map's write lock.
InMemory(w, row) ==
    /\ creds' = [creds EXCEPT ![calls[w].cred] = row]
    /\ Finish(w, Expect(row))
    /\ Touch(calls[w].cred)
    /\ UNCHANGED <<disk, durable, locks, faults>>

\* Postgres: one statement.  It fails, or it commits and its answer is lost:
\* either way the handler answers 503 and the caller knows nothing.
Statement(w, row) ==
    /\ Touch(calls[w].cred)
    /\ UNCHANGED <<disk, durable, locks>>
    /\ \/ /\ creds' = [creds EXCEPT ![calls[w].cred] = row]
          /\ Finish(w, Expect(row))
          /\ UNCHANGED faults
       \/ /\ faults < MaxFaults
          /\ faults' = faults + 1
          /\ \E lands \in {row, creds[calls[w].cred]} :
                creds' = [creds EXCEPT ![calls[w].cred] = lands]
          /\ Finish(w, Unknown)

\* A mutant: the mutations of the two maps are not serialized.
MutMutationLockFree == TRUE

\* File: the mutation lock is free; the other map is copied, this one is
\* changed under its write lock.
MutationLockFree == locks.mutation = Nobody

FileMutate(w, row) ==
    /\ MutationLockFree
    /\ locks.keys = Nobody
    /\ locks.tokens = Nobody
    /\ LET c == calls[w].cred IN
       /\ locks' = [locks EXCEPT !.mutation = w, ![LockOf(c)] = w]
       /\ creds' = [creds EXCEPT ![c] = row]
       /\ calls' = [calls EXCEPT ![w].at = "changed", ![w].before = creds[c],
                       ![w].copy = [o \in Creds |->
                            IF LockOf(o) = LockOf(c) THEN Absent ELSE creds[o]]]
       /\ Touch(c)
    /\ UNCHANGED <<disk, durable, acked, faults>>

\* The MCP mutations copy the keys first and take the token lock afterwards.
FileCopyKeys(w) ==
    /\ calls[w].at = "start"
    /\ calls[w].cred \in Tokens
    /\ MutationLockFree
    /\ locks.keys = Nobody
    /\ locks' = [locks EXCEPT !.mutation = w]
    /\ calls' = [calls EXCEPT ![w].at = "copied",
                    ![w].copy = [o \in Creds |-> IF o \in Keys THEN creds[o] ELSE Absent]]
    /\ UNCHANGED <<creds, disk, durable, requests, acked, faults>>

FileMutateTokens(w, row) ==
    /\ calls[w].at = "copied"
    /\ locks.tokens = Nobody
    /\ LET c == calls[w].cred IN
       /\ locks' = [locks EXCEPT !.tokens = w]
       /\ creds' = [creds EXCEPT ![c] = row]
       /\ calls' = [calls EXCEPT ![w].at = "changed", ![w].before = creds[c]]
       /\ Touch(c)
    /\ UNCHANGED <<disk, durable, acked, faults>>

Unlock(w) == [l \in DOMAIN locks |-> IF locks[l] = w THEN Nobody ELSE locks[l]]

Snapshot(w) ==
    [o \in Creds |-> IF LockOf(o) = LockOf(calls[w].cred) THEN creds[o] ELSE calls[w].copy[o]]

\* A mutant: the failed mutation stays in memory.
MutRollBack(w) == creds

\* The temporary cannot be written, synced or renamed: the map is put back
\* and the caller is told so.
RollBack(w) == [creds EXCEPT ![calls[w].cred] = calls[w].before]

PersistSnapshot(w) ==
    /\ calls[w].at = "changed"
    /\ UNCHANGED requests
    /\ \/ /\ disk' = Snapshot(w)
          /\ calls' = [calls EXCEPT ![w].at = "renamed"]
          /\ UNCHANGED <<creds, durable, locks, acked, faults>>
       \/ /\ faults < MaxFaults
          /\ faults' = faults + 1
          /\ creds' = RollBack(w)
          /\ locks' = Unlock(w)
          /\ Finish(w, acked[calls[w].cred])
          /\ UNCHANGED <<disk, durable>>

\* The directory is synced; a failure is only logged, the rename has
\* committed and the caller is told of success.
SyncParent(w) ==
    /\ calls[w].at = "renamed"
    /\ \/ durable' = disk
       \/ SyncFails /\ UNCHANGED durable
    /\ locks' = Unlock(w)
    /\ Finish(w, Expect(creds[calls[w].cred]))
    /\ UNCHANGED <<creds, disk, requests, faults>>

-----------------------------------------------------------------------------
(* The operations of the three repositories.  set_public_key and the two   *)
(* deletions find nothing when the row is missing or another user's.       *)

MemCreateKey(w) == InMemory(w, GenerateApiKey(calls[w].before.pem))
MemSetPublicKey(w) == InMemory(w, [creds[calls[w].cred] EXCEPT !.pem = calls[w].before.pem])
MemDeleteKey(w) == InMemory(w, Absent)
MemCreateMcpToken(w) == InMemory(w, GenerateMcpToken)
MemDeleteMcpToken(w) == InMemory(w, Absent)

FileCreateKey(w) == FileMutate(w, GenerateApiKey(calls[w].before.pem))
FileSetPublicKey(w) == FileMutate(w, [creds[calls[w].cred] EXCEPT !.pem = calls[w].before.pem])
FileDeleteKey(w) == FileMutate(w, Absent)
FileCreateMcpToken(w) == FileMutateTokens(w, GenerateMcpToken)
FileDeleteMcpToken(w) == FileMutateTokens(w, Absent)

PgCreateKey(w) == Statement(w, GenerateApiKey(calls[w].before.pem))
PgSetPublicKey(w) == Statement(w, [creds[calls[w].cred] EXCEPT !.pem = calls[w].before.pem])
PgDeleteKey(w) == Statement(w, Absent)
PgCreateMcpToken(w) == Statement(w, GenerateMcpToken)
PgDeleteMcpToken(w) == Statement(w, Absent)

Perform(w) ==
    LET op == calls[w].op IN
    \/ repo = "memory" /\ ( \/ op = "create_key" /\ MemCreateKey(w)
                            \/ op = "set_public_key" /\ MemSetPublicKey(w)
                            \/ op = "delete_key" /\ MemDeleteKey(w)
                            \/ op = "create_mcp_token" /\ MemCreateMcpToken(w)
                            \/ op = "delete_mcp_token" /\ MemDeleteMcpToken(w) )
    \/ repo = "file" /\ ( \/ op = "create_key" /\ FileCreateKey(w)
                          \/ op = "set_public_key" /\ FileSetPublicKey(w)
                          \/ op = "delete_key" /\ FileDeleteKey(w)
                          \/ op = "create_mcp_token" /\ FileCreateMcpToken(w)
                          \/ op = "delete_mcp_token" /\ FileDeleteMcpToken(w) )
    \/ repo = "postgres" /\ ( \/ op = "create_key" /\ PgCreateKey(w)
                              \/ op = "set_public_key" /\ PgSetPublicKey(w)
                              \/ op = "delete_key" /\ PgDeleteKey(w)
                              \/ op = "create_mcp_token" /\ PgCreateMcpToken(w)
                              \/ op = "delete_mcp_token" /\ PgDeleteMcpToken(w) )

Found(w) == calls[w].op \in {"create_key", "create_mcp_token"} \/ creds[calls[w].cred].live

-----------------------------------------------------------------------------
(* The dashboard handlers.  A request without a dashboard user, or whose   *)
(* label, lifetime or public key is refused, never reaches the repository. *)

\* Only MaxActors calls and requests ever begin.
ActorLeft == Cardinality({w \in Callers : calls[w].at # "idle"})
             + Cardinality({r \in Requests : requests[r].at # "idle"}) < MaxActors

Begin(w, op, c, pem) ==
    /\ process.up
    /\ ActorLeft
    /\ calls[w].at = "idle"
    /\ calls' = [calls EXCEPT ![w] = [Idle EXCEPT !.op = op, !.at = "start", !.cred = c,
                                                  !.before.pem = pem]]
    /\ UNCHANGED <<config, process, creds, disk, durable, locks, requests, expired, acked, faults>>

\* The id of a new key or token is a fresh UUID.
Minted(c) == ~creds[c].live /\ acked[c] = Expect(Absent)
             /\ c \notin {BootKey, RootKey} /\ \A w \in Callers : calls[w].cred # c

AdminCreateKey(w) == \E c \in Keys, pem \in {0, 1} : Minted(c) /\ Begin(w, "create_key", c, pem)
AdminDeleteKey(w) == \E c \in Keys : Begin(w, "delete_key", c, 0)
AdminCreateMcpToken(w) == \E c \in Tokens : Minted(c) /\ Begin(w, "create_mcp_token", c, 0)
AdminDeleteMcpToken(w) == \E c \in Tokens : Begin(w, "delete_mcp_token", c, 0)

\* Either the key's own credentials or the dashboard user may change its
\* public key; an MCP token, and any mix of the two, may not.
PublicKeyActor(bearer, headers, mcp) ==
    IF mcp \/ (headers /\ bearer # "none") THEN "denied"
    ELSE IF headers \/ bearer = "key" THEN "key"
    ELSE IF bearer = "jwt" THEN "user"
    ELSE "denied"

AdminSetPublicKey(w) ==
    \E c \in Keys, bearer \in {"none", "key", "jwt", "mcp"}, headers, mcp, own \in BOOLEAN :
        LET actor == PublicKeyActor(bearer, headers, mcp) IN
        /\ actor = "key" => own /\ creds[c].live /\ Readable(c)
        /\ actor # "denied"
        /\ Begin(w, "set_public_key", c, 1)

\* Within the handler: the repository finds the row or answers not found.
Serve(w) ==
    /\ process.up
    /\ calls[w].at \in {"start", "copied", "changed", "renamed"}
    /\ UNCHANGED <<config, process, expired>>
    /\ \/ /\ calls[w].at \in {"start", "copied"}
          /\ repo = "file" /\ calls[w].cred \in Keys => MutationLockFree /\ Readable(calls[w].cred)
          /\ repo = "file" /\ calls[w].cred \in Tokens => calls[w].at = "copied"
          /\ IF Found(w) THEN Perform(w)
             ELSE /\ Finish(w, acked[calls[w].cred])
                  /\ locks' = Unlock(w)
                  /\ UNCHANGED <<creds, disk, durable, requests, faults>>
       \/ repo = "file" /\ FileCopyKeys(w)
       \/ PersistSnapshot(w)
       \/ SyncParent(w)

-----------------------------------------------------------------------------
(* Authentication.                                                         *)

\* What authenticate_headers resolves, by the headers that are present: a
\* signature in the header or in the query (both are ambiguous), a bearer
\* token (MCP, key pair, JWT), the MCP header, the key headers.
Path(authorization, query, mcpHeader) ==
    IF authorization # "none" /\ query THEN "denied"
    ELSE IF authorization = "sigv4" \/ query THEN "sigv4"
    ELSE IF authorization = "bearer_mcp" THEN "token"
    ELSE IF authorization = "bearer_pair" THEN "pair"
    ELSE IF authorization # "none" THEN "denied"
    ELSE IF mcpHeader THEN "token"
    ELSE "pair"

Touched(c) == \E w \in Callers : calls[w].cred = c /\ calls[w].at \notin {"idle", "done"}

\* What whoever was told of the credential expects of it now.
Told(c) == IF IsExpired(c) /\ acked[c] # Unknown THEN Expect(Absent) ELSE acked[c]

Arrive(r) ==
    /\ process.up
    /\ ActorLeft
    /\ requests[r].at = "idle"
    /\ \E authorization \in {"none", "sigv4", "bearer_mcp", "bearer_pair", "bearer_other"},
          query, mcpHeader, good \in BOOLEAN, c \in Creds :
        LET path == Path(authorization, query, mcpHeader) IN
        /\ path # "denied"
        /\ path = "token" <=> c \in Tokens
        /\ requests' = [requests EXCEPT ![r] =
              [Fresh EXCEPT !.path = path, !.at = "read", !.cred = c, !.good = good,
                            !.told = Told(c), !.touched = Touched(c)]]
    /\ UNCHANGED <<config, process, creds, disk, durable, locks, calls, expired, acked, faults>>

Answer(r, answer) ==
    requests' = [requests EXCEPT ![r].at = "done", ![r].answer = answer]

Unchanged == UNCHANGED <<creds, disk, durable, locks, calls, acked, faults>>

\* A read of the repository may fail: the answer is 503 and not a denial.
ReadFails(r) ==
    /\ repo = "postgres"
    /\ faults < MaxFaults
    /\ faults' = faults + 1
    /\ Answer(r, "unavailable")
    /\ UNCHANGED <<creds, disk, durable, locks, calls, acked>>

ResolveCredentials(r) ==
    /\ requests[r].path = "pair"
    /\ LET row == GetKey(requests[r].cred) IN
       IF row.live /\ requests[r].good /\ ~IsExpired(requests[r].cred)
       THEN requests' = [requests EXCEPT ![r].at = "done", ![r].answer = "accepted",
                                         ![r].pem = row.pem]
       ELSE Answer(r, "denied")
    /\ Unchanged

ResolveMcpToken(r) ==
    /\ requests[r].path = "token"
    /\ LET c == requests[r].cred IN
       Answer(r, IF creds[c].live /\ requests[r].good /\ ~IsExpired(c) THEN "accepted" ELSE "denied")
    /\ Unchanged

SigV4GetKey(r) ==
    /\ requests[r].path = "sigv4"
    /\ LET row == GetKey(requests[r].cred) IN
       IF row.live /\ ~IsExpired(requests[r].cred)
       THEN requests' = [requests EXCEPT ![r].at = "decrypt", ![r].pem = row.pem]
       ELSE Answer(r, "denied")
    /\ Unchanged

\* The signature was made with the secret that was just decrypted.
Authorize(r) == Answer(r, IF requests[r].good THEN "accepted" ELSE "denied")

DecryptVerifiedSecret(r) ==
    /\ requests[r].at = "decrypt"
    /\ Readable(requests[r].cred)
    /\ LET row == GetKey(requests[r].cred)
           secret == DecryptResult(row)
       IN \/ ~row.live /\ Answer(r, "denied")
          \/ row.live /\ secret = "nothing" /\ Answer(r, "denied")
          \/ row.live /\ secret = "error" /\ Answer(r, "unavailable")
          \/ row.live /\ secret = "secret" /\ row.envelope = "v2" /\ Authorize(r)
          \/ /\ row.live /\ secret = "secret" /\ row.envelope = "v1"
             /\ requests' = [requests EXCEPT ![r].at = "rewrap"]
    /\ Unchanged

Rewrapped(c) == [creds EXCEPT ![c].envelope = "v2"]

\* A mutant: losing the race is a denial.
MutAcceptRewrapped(row) == FALSE

\* Somebody else rewrapped the same secret meanwhile: that is as good.
AcceptRewrapped(row) == MatchingV2(row)

MemRewrap(r) ==
    LET c == requests[r].cred IN
    /\ repo = "memory"
    /\ IF creds[c].live /\ creds[c].envelope = "v1"
       THEN creds' = Rewrapped(c) /\ Authorize(r)
       ELSE /\ UNCHANGED creds
            /\ IF AcceptRewrapped(creds[c]) THEN Authorize(r) ELSE Answer(r, "denied")
    /\ UNCHANGED <<disk, durable, locks, calls, acked, faults>>

\* The file repository rewraps under the mutation lock and persists at once;
\* a failure puts the legacy envelope back.
FileRewrap(r) ==
    LET c == requests[r].cred IN
    /\ repo = "file"
    /\ MutationLockFree
    /\ locks.keys = Nobody
    /\ UNCHANGED <<locks, calls, acked>>
    /\ IF creds[c].live /\ creds[c].envelope = "v1"
       THEN \/ /\ creds' = Rewrapped(c)
               /\ disk' = Rewrapped(c)
               /\ \/ durable' = Rewrapped(c)
                  \/ SyncFails /\ UNCHANGED durable
               /\ Authorize(r)
               /\ UNCHANGED faults
            \/ /\ faults < MaxFaults
               /\ faults' = faults + 1
               /\ Answer(r, "unavailable")
               /\ UNCHANGED <<creds, disk, durable>>
       ELSE /\ UNCHANGED <<creds, disk, durable, faults>>
            /\ IF AcceptRewrapped(creds[c]) THEN Authorize(r) ELSE Answer(r, "denied")

\* UPDATE ... WHERE the envelope is still the one that was read.
PgRewrap(r) ==
    LET c == requests[r].cred
        matches == creds[c].live /\ creds[c].envelope = "v1"
    IN
    /\ repo = "postgres"
    /\ UNCHANGED <<disk, durable, locks, calls, acked>>
    /\ \/ /\ creds' = IF matches THEN Rewrapped(c) ELSE creds
          /\ IF matches THEN Authorize(r)
             ELSE requests' = [requests EXCEPT ![r].at = "reread"]
          /\ UNCHANGED faults
       \/ /\ faults < MaxFaults
          /\ faults' = faults + 1
          /\ creds' \in {creds, IF matches THEN Rewrapped(c) ELSE creds}
          /\ requests' = [requests EXCEPT ![r].at = "reread_failed"]

PgReread(r) ==
    /\ requests[r].at \in {"reread", "reread_failed"}
    /\ IF AcceptRewrapped(creds[requests[r].cred]) THEN Authorize(r)
       ELSE Answer(r, IF requests[r].at = "reread" THEN "denied" ELSE "unavailable")
    /\ Unchanged

Authenticate(r) ==
    /\ process.up
    /\ UNCHANGED <<config, process, expired>>
    /\ \/ /\ requests[r].at = "read"
          /\ Readable(requests[r].cred)
          /\ ResolveCredentials(r) \/ ResolveMcpToken(r) \/ SigV4GetKey(r)
       \/ requests[r].at = "read" /\ ReadFails(r)
       \/ DecryptVerifiedSecret(r)
       \/ requests[r].at = "rewrap" /\ (MemRewrap(r) \/ FileRewrap(r) \/ PgRewrap(r))
       \/ PgReread(r)

-----------------------------------------------------------------------------
(* Crash, restart, bootstrap.                                              *)

\* The process dies: calls and requests in flight are lost, and a caller who
\* heard nothing knows nothing.  A memory repository would lose everything,
\* and is not restarted here.
Crash ==
    /\ process.up
    /\ repo # "memory"
    /\ faults < MaxFaults
    /\ faults' = faults + 1
    /\ process' = [up |-> FALSE, era |-> process.era + 1]
    /\ locks' = Held
    /\ acked' = [c \in Creds |->
          IF \E w \in Callers : calls[w].cred = c /\ calls[w].at \notin {"idle", "done"}
          THEN Unknown ELSE acked[c]]
    /\ calls' = [w \in Callers |->
          IF calls[w].at = "idle" THEN calls[w]
          ELSE [Idle EXCEPT !.op = calls[w].op, !.cred = calls[w].cred, !.at = "done"]]
    /\ requests' = [r \in Requests |->
          IF requests[r].at \in {"idle", "done"} THEN requests[r]
          ELSE [requests[r] EXCEPT !.at = "done", !.answer = "lost"]]
    /\ UNCHANGED <<config, creds, disk, durable, expired>>

LoadFileStore(snapshot) == snapshot

\* The operator's key and the local root are seeded when they are missing.
\* An existing one is left alone.
BootstrapKey(rows) ==
    IF BootKey = Nobody \/ rows[BootKey].live THEN rows
    ELSE [rows EXCEPT ![BootKey] = BootstrapApiKey]

EnsureConfiguredLocalRoot(rows) ==
    IF RootKey = Nobody \/ rows[RootKey].live THEN rows
    ELSE [rows EXCEPT ![RootKey] = BootstrapApiKey]

\* Start-up loads the snapshot, seeds, and persists what it seeded before it
\* serves.  A credential that was seeded again counts as present again.
StartUp ==
    /\ ~process.up
    /\ process' = [process EXCEPT !.up = TRUE]
    /\ \E loaded \in (IF repo = "file" THEN {disk, durable} ELSE {creds}) :
        LET rows == EnsureConfiguredLocalRoot(BootstrapKey(LoadFileStore(loaded))) IN
        /\ creds' = rows
        /\ disk' = IF repo = "file" THEN rows ELSE disk
        /\ durable' = IF repo = "file" THEN rows ELSE durable
        /\ acked' = [c \in Creds |->
              IF rows[c] # loaded[c] THEN Expect(rows[c]) ELSE acked[c]]
    /\ UNCHANGED <<config, locks, calls, requests, expired, faults>>

\* The clock passes a credential's lifetime.
Expire(c) ==
    /\ c \in Expiring \ expired
    /\ creds[c].live
    /\ expired' = expired \cup {c}
    /\ Touch(c)
    /\ UNCHANGED <<config, process, creds, disk, durable, locks, calls, acked, faults>>

-----------------------------------------------------------------------------
Legacy == [Absent EXCEPT !.live = TRUE, !.envelope = "v1"]

\* Any subset of the credentials exists at first, keys with a secret sealed
\* by an earlier release.
CredentialInit ==
    /\ config \in Configs
    /\ process = [up |-> TRUE, era |-> 1]
    /\ \E there \in SUBSET Creds :
          creds = [c \in Creds |-> IF c \notin there THEN Absent
                                   ELSE IF c \in Tokens THEN GenerateMcpToken
                                   ELSE IF cipher = "durable" THEN Legacy
                                   ELSE BootstrapApiKey]
    /\ disk = creds
    /\ durable = creds
    /\ locks = Held
    /\ calls = [w \in Callers |-> Idle]
    /\ requests = [r \in Requests |-> Fresh]
    /\ expired = {}
    /\ acked = [c \in Creds |-> Expect(creds[c])]
    /\ faults = 0

CredentialNext ==
    \/ \E w \in Callers : \/ AdminCreateKey(w) \/ AdminDeleteKey(w) \/ AdminSetPublicKey(w)
                          \/ AdminCreateMcpToken(w) \/ AdminDeleteMcpToken(w)
                          \/ Serve(w)
    \/ \E r \in Requests : Arrive(r) \/ Authenticate(r)
    \/ \E c \in Creds : Expire(c)
    \/ Crash
    \/ StartUp

CredentialSpec == CredentialInit /\ [][CredentialNext]_credentialVars

-----------------------------------------------------------------------------
\* What a caller was told decides what later requests meet: once a deletion
\* was acknowledged the credential authenticates nothing any more, across
\* restarts and whatever other mutation or rewrap was in flight; and while
\* nobody changes a credential that was acknowledged, a request signed with
\* its secret is never denied (it may be told to try again) and carries the
\* acknowledged public key.
AcknowledgedDecides ==
    \A r \in Requests :
        LET q == requests[r] IN
        /\ q.answer = "accepted" /\ ~q.touched /\ q.told # Unknown =>
              q.told.live /\ q.good /\ (q.path # "token" => q.pem = q.told.pem)
        /\ q.answer = "denied" /\ q.good /\ ~q.touched /\ q.told # Unknown /\ q.told.live =>
              q.path = "sigv4" /\ cipher = "none"
=============================================================================
