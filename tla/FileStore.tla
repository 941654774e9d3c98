----------------------------- MODULE FileStore -----------------------------
(***************************************************************************)
(* The object store of a single host.  Content lives in files named after   *)
(* their version, one metadata file per key points at the visible version,  *)
(* mutations hold one lock, readers and listings hold none.  A put is a      *)
(* writer whose version is named after it, so a version is written once.     *)
(* A power loss may lose a directory entry no sync has covered.              *)
(***************************************************************************)
EXTENDS Naturals, FiniteSets

CONSTANTS
    Keys,        \* keys of the one bucket
    Writers,     \* requests that put, delete or drop the bucket
    Readers,     \* requests that open an object or list the bucket
    None,        \* no version
    MaxStoreFaults    \* bound on failed calls, restarts and power losses

ASSUME StoreAssumption ==
    /\ None \notin Writers /\ "list" \notin Keys
    /\ (Writers \cup {None}) \cap {"unread", "corrupt", "failed", "listed"} = {}

VARIABLES
    disk,    \* bucket directory, temporary and data files, pointers and their synced value
    lock,    \* holder of mutation_lock
    writer,  \* mutations under way
    reader,  \* reads under way
    fsGhost  \* what each reader saw, pointers a power loss may tear, faults

storeVars == <<disk, lock, writer, reader, fsGhost>>

Ops == {"put", "delete", "deleteBucket"}

StoreInit ==
    /\ disk = [bucket |-> FALSE, temps |-> {}, data |-> {},
               meta |-> [k \in Keys |-> None], synced |-> [k \in Keys |-> None]]
    /\ lock = None
    /\ writer = [w \in Writers |-> [pc |-> "start", op |-> "put", key |-> None, prev |-> None]]
    /\ reader = [r \in Readers |-> [pc |-> "start", key |-> None, ver |-> None, retry |-> FALSE,
                                    names |-> {}, got |-> "unread"]]
    /\ fsGhost = [seen |-> [r \in Readers |-> {}], moves |-> [r \in Readers |-> 0],
                  torn |-> {}, faults |-> 0]

Faulty == fsGhost.faults < MaxStoreFaults
CountFault == [fsGhost EXCEPT !.faults = @ + 1]
Step(w, pc) == writer' = [writer EXCEPT ![w].pc = pc]
Unlocked(w) == lock' = IF lock = w THEN None ELSE lock
Finish(w, outcome) == Step(w, outcome) /\ Unlocked(w)

\* Every reader of k under way sees the pointer move.
Moved(k, v) ==
    LET at(r) == reader[r].pc \notin {"start", "done"} /\ reader[r].key \in {k, "list"} IN
    [fsGhost EXCEPT !.seen = [r \in Readers |-> IF at(r) THEN @[r] \cup {v} ELSE @[r]],
                    !.moves = [r \in Readers |-> IF at(r) THEN @[r] + 1 ELSE @[r]]]

-----------------------------------------------------------------------------
(* Mutations                                                               *)

\* put writes and syncs a temporary file before it asks for the lock.
CreateTempFile(w) ==
    /\ writer[w].pc = "start"
    /\ \E k \in Keys, op \in Ops :
         /\ writer' = [writer EXCEPT ![w].pc = "lock", ![w].op = op, ![w].key = k]
         /\ disk' = IF op = "put"
                    THEN [disk EXCEPT !.bucket = TRUE, !.temps = @ \cup {w}]
                    ELSE disk
    /\ UNCHANGED <<lock, reader, fsGhost>>

PutFails(w) ==
    /\ writer[w].pc = "lock" /\ writer[w].op = "put" /\ Faulty
    /\ disk' = [disk EXCEPT !.temps = @ \ {w}]
    /\ Step(w, "failed")
    /\ fsGhost' = CountFault
    /\ UNCHANGED <<lock, reader>>

LockPut(w) ==
    /\ writer[w].pc = "lock" /\ writer[w].op = "put" /\ lock = None
    /\ lock' = w
    /\ disk' = [disk EXCEPT !.bucket = TRUE]
    /\ writer' = [writer EXCEPT ![w].pc = "rename", ![w].prev = disk.meta[writer[w].key]]
    /\ UNCHANGED <<reader, fsGhost>>

\* commit_temp with the previous content removed before the pointer moves.
MutRenameData(w) ==
    /\ writer[w].pc = "rename" /\ w \in disk.temps
    /\ disk' = [disk EXCEPT !.temps = @ \ {w}, !.data = (@ \ {writer[w].prev}) \cup {w}]
    /\ Step(w, "publish")
    /\ UNCHANGED <<lock, reader, fsGhost>>

\* The bucket may have been dropped with the temporary file in it.
RenameData(w) ==
    /\ writer[w].pc = "rename"
    /\ IF w \in disk.temps
       THEN /\ disk' = [disk EXCEPT !.temps = @ \ {w}, !.data = @ \cup {w}]
            /\ Step(w, "publish") /\ UNCHANGED lock
       ELSE Finish(w, "failed") /\ UNCHANGED disk
    /\ UNCHANGED <<reader, fsGhost>>

Broken == {k \in Keys : disk.meta[k] \notin disk.data \cup {None}}

\* A failed directory sync is only logged once the rename is visible.
WriteMetadata(w) ==
    LET k == writer[w].key IN
    /\ writer[w].pc = "publish"
    /\ \E sync \in BOOLEAN :
         /\ ~sync => Faulty
         /\ disk' = [disk EXCEPT !.meta[k] = w,
                                 !.synced = IF sync THEN [disk.meta EXCEPT ![k] = w] ELSE @]
         /\ fsGhost' = [Moved(k, w) EXCEPT !.torn = IF sync THEN Broken \ {k} ELSE @ \cup {k},
                                           !.faults = IF sync THEN @ ELSE @ + 1]
    /\ Step(w, "remove")
    /\ UNCHANGED <<lock, reader>>

WriteMetadataFails(w) ==
    /\ writer[w].pc = "publish" /\ Faulty
    /\ Finish(w, "failed")
    /\ fsGhost' = CountFault
    /\ UNCHANGED <<disk, reader>>

RemovePrevious(w) ==
    /\ writer[w].pc = "remove"
    /\ disk' = [disk EXCEPT !.data = @ \ {writer[w].prev}]
    /\ Finish(w, "done")
    /\ UNCHANGED <<reader, fsGhost>>

\* delete removes the pointer, syncs nothing, then removes the content.
Delete(w) ==
    LET k == writer[w].key IN
    /\ writer[w].pc = "lock" /\ writer[w].op = "delete" /\ lock = None
    /\ IF disk.meta[k] = None
       THEN Finish(w, "done") /\ UNCHANGED <<disk, fsGhost>>
       ELSE /\ lock' = w
            /\ writer' = [writer EXCEPT ![w].pc = "remove", ![w].prev = disk.meta[k]]
            /\ disk' = [disk EXCEPT !.meta[k] = None]
            /\ fsGhost' = [Moved(k, None) EXCEPT !.torn = @ \cup {k}]
    /\ UNCHANGED reader

DeleteBucket(w) ==
    /\ writer[w].pc = "lock" /\ writer[w].op = "deleteBucket" /\ lock = None
    /\ IF ~disk.bucket
       THEN Finish(w, "done") /\ UNCHANGED disk
       ELSE IF \E k \in Keys : disk.meta[k] # None
       THEN Finish(w, "notEmpty") /\ UNCHANGED disk
       ELSE /\ disk' = [disk EXCEPT !.bucket = FALSE, !.temps = {}, !.data = {}]
            /\ Finish(w, "done")
    /\ UNCHANGED <<reader, fsGhost>>

-----------------------------------------------------------------------------
(* Reads                                                                   *)

Answer(r, got) == [reader EXCEPT ![r].pc = "done", ![r].got = got]

Open(r) ==
    /\ reader[r].pc = "start"
    /\ \E k \in Keys :
         LET v == disk.meta[k] IN
         /\ reader' = [(IF v = None THEN Answer(r, None) ELSE reader) EXCEPT
                         ![r].pc = IF v = None THEN "done" ELSE "open",
                         ![r].key = k, ![r].ver = v]
         /\ fsGhost' = [fsGhost EXCEPT !.seen[r] = {v}]
    /\ UNCHANGED <<disk, lock, writer>>

OpenMetadata(r) ==
    /\ reader[r].pc = "open"
    /\ reader' = IF reader[r].ver \in disk.data THEN Answer(r, reader[r].ver)
                 ELSE [reader EXCEPT ![r].pc = "reload"]
    /\ UNCHANGED <<disk, lock, writer, fsGhost>>

\* The content is gone: one changed pointer is followed, once.
Corrupted(r) ==
    LET v == disk.meta[reader[r].key] IN
    reader[r].pc = "reload" /\ v # None /\ (reader[r].retry \/ v = reader[r].ver)

LoadMetadata(r) ==
    LET v == disk.meta[reader[r].key] IN
    /\ reader[r].pc = "reload"
    /\ reader' = IF v = None THEN Answer(r, None)
                 ELSE IF Corrupted(r) THEN Answer(r, "corrupt")
                 ELSE [reader EXCEPT ![r].pc = "open", ![r].ver = v, ![r].retry = TRUE]
    /\ UNCHANGED <<disk, lock, writer, fsGhost>>

ListObjects(r) ==
    /\ reader[r].pc = "start"
    /\ reader' = [reader EXCEPT ![r].pc = "list", ![r].key = "list",
                                ![r].names = {k \in Keys : disk.meta[k] # None}]
    /\ fsGhost' = [fsGhost EXCEPT !.seen[r] = {disk.meta[k] : k \in Keys}]
    /\ UNCHANGED <<disk, lock, writer>>

\* A pointer removed after read_dir named it fails the whole listing.
ReadMetadataFile(r) ==
    /\ reader[r].pc = "list"
    /\ \/ /\ reader[r].names = {}
          /\ reader' = Answer(r, "listed")
       \/ \E k \in reader[r].names :
            reader' = IF disk.meta[k] = None THEN Answer(r, "failed")
                      ELSE [reader EXCEPT ![r].names = @ \ {k}]
    /\ UNCHANGED <<disk, lock, writer, fsGhost>>

-----------------------------------------------------------------------------
(* Failures                                                                *)

Halted == [w \in Writers |-> IF writer[w].pc \in {"start", "done", "failed", "notEmpty"}
                             THEN writer[w] ELSE [writer[w] EXCEPT !.pc = "failed"]]

\* Startup removes every temporary file; leftover data files stay.
RemoveStaleTemps ==
    /\ Faulty
    /\ \/ disk' = [disk EXCEPT !.temps = {}]
       \/ \E back \in SUBSET fsGhost.torn :
            disk' = [disk EXCEPT !.temps = {},
                                 !.meta = [k \in Keys |-> IF k \in back THEN disk.synced[k]
                                                          ELSE @[k]]]
    /\ lock' = None /\ writer' = Halted
    /\ reader' = [r \in Readers |-> IF reader[r].pc = "start" THEN reader[r]
                                    ELSE [reader[r] EXCEPT !.pc = "done"]]
    /\ fsGhost' = CountFault

StoreNext ==
    \/ \E w \in Writers :
         CreateTempFile(w) \/ PutFails(w) \/ LockPut(w) \/ RenameData(w) \/ WriteMetadata(w)
         \/ WriteMetadataFails(w) \/ RemovePrevious(w) \/ Delete(w) \/ DeleteBucket(w)
    \/ \E r \in Readers :
         Open(r) \/ OpenMetadata(r) \/ LoadMetadata(r) \/ ListObjects(r) \/ ReadMetadataFile(r)
    \/ RemoveStaleTemps

StoreSpec == StoreInit /\ [][StoreNext]_storeVars

-----------------------------------------------------------------------------
(* Properties                                                              *)

\* FileStore::open and open_metadata race commit_temp and delete without a lock.  A pointer
\* always names content on disk (a power loss may break only a pointer whose directory entry was
\* never synced), a read returns a version or an absence that was current while it ran, and it
\* reports corruption only when the pointer moved twice under it or the entry was torn.
ReadsOneVersion ==
    /\ \A k \in Keys : disk.meta[k] \in disk.data \cup {None} \/ k \in fsGhost.torn
    /\ \A r \in Readers :
         LET got == reader[r].got IN
         /\ reader[r].pc = "done" /\ got \in Writers \cup {None} => got \in fsGhost.seen[r]
         /\ reader[r].pc = "done" /\ got = "failed" => None \in fsGhost.seen[r]
         /\ Corrupted(r) => fsGhost.moves[r] >= 2 \/ reader[r].key \in fsGhost.torn

=============================================================================
