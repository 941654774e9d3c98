------------------------------ MODULE EventLog ------------------------------
(***************************************************************************)
(* One directory of the filesystem persistence: a framed event log with a  *)
(* snapshot, appended and compacted under one mutex by a process that may   *)
(* die between any two system calls.  FileJournal and FileMultipart keep    *)
(* one such directory per operation and per upload and differ in how an     *)
(* event changes their state, which is the parameter Reduce.                *)
(***************************************************************************)
EXTENDS Integers, Sequences

CONSTANTS
    Reduce(_, _),   \* the state after an event, or Invalid
    Empty, Invalid, \* the state of no event, a rejected event
    CompactAfter,   \* COMPACT_AFTER_EVENTS
    MaxEvents,      \* bound on the events ever written
    MaxCrashes      \* bound on the crashes

VARIABLES
    files,  \* the directory as a reader of the file system finds it
    mem,    \* the entry of the running process
    past    \* every state the log ever reached, and what callers were told

logVars == <<files, mem, past>>

NoSnap == [seq |-> 0, state |-> Empty]
Down == [up |-> FALSE, pc |-> "down", known |-> FALSE, poisoned |-> FALSE,
         seq |-> 0, state |-> Empty, count |-> 0, next |-> Empty]

LogInit ==
    /\ files = [dir |-> "none", tmp |-> FALSE, snap |-> NoSnap,
                first |-> 1, frames |-> <<>>, torn |-> FALSE]
    /\ mem = [Down EXCEPT !.up = TRUE, !.pc = "idle"]
    /\ past = [truth |-> <<>>, told |-> 0, crashes |-> 0]

\* The last event in the log, and the last one the directory holds.
LastFrame(d) == d.first + Len(d.frames) - 1
Top(d) == IF LastFrame(d) > d.snap.seq THEN LastFrame(d) ELSE d.snap.seq

-----------------------------------------------------------------------------
(* Loading a directory                                                     *)

\* Every file of the directory must be the log or the snapshot, and the log
\* must be there.
ValidateEntryFiles(d) == d.dir = "log" /\ ~d.tmp

\* parse_frames: the first frame is the first ever or follows the snapshot.
ParseFrames(d) == d.frames # <<>> => d.first \in {1, d.snap.seq + 1}

\* Frames the snapshot already covers are skipped, the others are applied.
ReplayState(d) ==
    LET r[n \in d.snap.seq..Top(d)] ==
            IF n = d.snap.seq THEN d.snap.state
            ELSE IF r[n - 1] = Invalid THEN Invalid
            ELSE Reduce(r[n - 1], d.frames[n - d.first + 1])
    IN  r[Top(d)]

Loadable(d) == ValidateEntryFiles(d) /\ ParseFrames(d) /\ ReplayState(d) # Invalid

\* load_entries: a directory is replayed and its torn tail cut off; the first
\* one that cannot be read fails the whole load.
Loaded(d) ==
    [Down EXCEPT !.up = TRUE, !.pc = "idle", !.known = TRUE,
                 !.seq = Top(d), !.state = ReplayState(d), !.count = Len(d.frames)]

Load(d, failed) ==
    IF d.dir = "none" THEN files' = d /\ mem' = [Down EXCEPT !.up = TRUE, !.pc = "idle"]
    ELSE IF Loadable(d) THEN files' = [d EXCEPT !.torn = FALSE] /\ mem' = Loaded(d)
    ELSE files' = d /\ mem' = failed

\* After an outcome it does not know the process reloads what is on disk; when
\* that fails it keeps serving, but refuses every operation.
ReloadAfterUnknown(d) == Load(d, [mem EXCEPT !.pc = "idle", !.poisoned = TRUE])

\* The frame being written is dropped from what the log reached when it did not
\* reach the disk.
Reached(d) == past' = [past EXCEPT !.truth = SubSeq(@, 1, Top(d))]

-----------------------------------------------------------------------------
(* Appending                                                               *)

Healthy == mem.up /\ mem.pc = "idle" /\ ~mem.poisoned

\* A new entry gets its directory, then its log, then its first event.
CreateDirectory(ev) ==
    /\ Healthy /\ ~mem.known /\ Reduce(Empty, ev) # Invalid
    /\ files' = [files EXCEPT !.dir = IF @ = "none" THEN "bare" ELSE @]
    /\ mem' = [mem EXCEPT !.pc = "creating", !.next = ev]
    /\ UNCHANGED past

CreateLog ==
    /\ mem.pc = "creating"
    /\ files' = [files EXCEPT !.dir = "log"]
    /\ mem' = [mem EXCEPT !.pc = "append"]
    /\ UNCHANGED past

\* The log cannot be created: the directory stays behind.
CreateLogFails ==
    /\ mem.pc = "creating"
    /\ mem' = [mem EXCEPT !.pc = "idle", !.next = Empty]
    /\ UNCHANGED <<files, past>>

\* append_transition validates the event against the state in memory first.
Append1(ev) ==
    /\ Healthy /\ mem.known /\ mem.seq < MaxEvents /\ Reduce(mem.state, ev) # Invalid
    /\ mem' = [mem EXCEPT !.pc = "append", !.next = ev]
    /\ UNCHANGED <<files, past>>

\* The log cannot be opened for writing: nothing happened.  A new entry is
\* removed again.
AppendFails ==
    /\ mem.pc = "append"
    /\ mem' = [mem EXCEPT !.pc = "idle", !.next = Empty]
    /\ files' = IF mem.known THEN files ELSE [files EXCEPT !.dir = "none"]
    /\ UNCHANGED past

\* The frame is written but not synced.
WriteFrame ==
    /\ mem.pc = "append"
    /\ files' = [files EXCEPT !.frames = Append(@, mem.next),
                              !.first = IF files.frames = <<>> THEN mem.seq + 1 ELSE @]
    /\ mem' = [mem EXCEPT !.pc = "sync"]
    /\ past' = [past EXCEPT !.truth = Append(@, Reduce(mem.state, mem.next))]

Unwritten(torn) ==
    [files EXCEPT !.frames = SubSeq(@, 1, Len(@) - 1), !.torn = torn]

\* The write or the sync fails: the frame is whole, torn or missing, and the
\* entries are reloaded.
WriteUnknown ==
    /\ mem.pc = "sync"
    /\ \E d \in {files, Unwritten(TRUE)} : ReloadAfterUnknown(d) /\ Reached(d)

\* The sync succeeds: the state is replaced, the caller is told once a due
\* compaction is over.
SyncFrame ==
    /\ mem.pc = "sync"
    /\ mem' = [mem EXCEPT !.pc = IF mem.count + 1 >= CompactAfter THEN "snapshot" ELSE "reply",
                          !.seq = @ + 1, !.count = @ + 1, !.known = TRUE,
                          !.state = Reduce(mem.state, mem.next), !.next = Empty]
    /\ UNCHANGED <<files, past>>

LogReply ==
    /\ mem.pc = "reply"
    /\ mem' = [mem EXCEPT !.pc = "idle"]
    /\ past' = [past EXCEPT !.told = mem.seq]
    /\ UNCHANGED files

-----------------------------------------------------------------------------
(* Compaction                                                              *)

\* atomic_write: a temporary file in the same directory, synced and renamed.
WriteTemporary ==
    /\ mem.pc \in {"snapshot", "truncate"} /\ ~files.tmp
    /\ files' = [files EXCEPT !.tmp = TRUE]
    /\ UNCHANGED <<mem, past>>

\* Before the rename a failure is definite: the temporary file is removed and
\* the compaction given up, the operation still succeeds.
TemporaryFails ==
    /\ mem.pc \in {"snapshot", "truncate"}
    /\ files' = [files EXCEPT !.tmp = FALSE]
    /\ mem' = [mem EXCEPT !.pc = "reply"]
    /\ UNCHANGED past

MutPublishSnapshot ==
    LET d == [files EXCEPT !.tmp = FALSE, !.snap = [seq |-> mem.seq, state |-> files.snap.state]]
    IN  /\ mem.pc = "snapshot" /\ files.tmp
        /\ files' = d /\ mem' = [mem EXCEPT !.pc = "truncate"]
        /\ UNCHANGED past

\* Rename and sync of the directory; when only the sync fails the rename may
\* have happened, and the entries are reloaded.
PublishSnapshot ==
    LET d == [files EXCEPT !.tmp = FALSE, !.snap = [seq |-> mem.seq, state |-> mem.state]]
    IN  /\ mem.pc = "snapshot" /\ files.tmp
        /\ \/ files' = d /\ mem' = [mem EXCEPT !.pc = "truncate"]
           \/ ReloadAfterUnknown(d)
        /\ UNCHANGED past

TruncateLog ==
    LET d == [files EXCEPT !.tmp = FALSE, !.frames = <<>>, !.first = mem.seq + 1]
    IN  /\ mem.pc = "truncate" /\ files.tmp
        /\ \/ files' = d /\ mem' = [mem EXCEPT !.pc = "reply", !.count = 0]
           \/ ReloadAfterUnknown(d)
        /\ UNCHANGED past

-----------------------------------------------------------------------------
(* Crash and restart                                                       *)

\* The process dies, or the host: an unsynced frame may be whole, torn or gone.
LogCrash ==
    /\ mem.up /\ past.crashes < MaxCrashes
    /\ mem' = Down
    /\ \E d \in {files} \cup IF mem.pc = "sync" THEN {Unwritten(TRUE), Unwritten(FALSE)} ELSE {} :
          /\ files' = d
          /\ past' = [past EXCEPT !.crashes = @ + 1, !.truth = SubSeq(@, 1, Top(d))]

\* Startup fails when the directory cannot be loaded.
Restart == ~mem.up /\ Load(files, Down) /\ UNCHANGED past

LogStep ==
    \/ CreateLog \/ CreateLogFails \/ AppendFails \/ WriteFrame \/ WriteUnknown \/ SyncFrame
    \/ LogReply \/ WriteTemporary \/ TemporaryFails \/ PublishSnapshot \/ TruncateLog
    \/ LogCrash \/ Restart

-----------------------------------------------------------------------------
(* Properties                                                              *)

\* What a healthy process serves is exactly what the events on disk add up to:
\* every acknowledged event is in it, none is applied twice or skipped, through
\* failed syncs, interrupted compactions, crashes and restarts.
ReplayExact ==
    Healthy /\ mem.known =>
        /\ mem.seq >= past.told /\ mem.seq = Len(past.truth)
        /\ mem.state = IF mem.seq = 0 THEN Empty ELSE past.truth[mem.seq]

\* An acknowledged event is on disk, in the log or under the snapshot, however
\* far a compaction got.
AcknowledgedOnDisk ==
    past.told > 0 =>
        /\ files.dir = "log"
        /\ files.snap.seq >= past.told \/ (files.first <= files.snap.seq + 1 /\ LastFrame(files) >= past.told)

\* replay skips duplicate older events if a crash leaves the prior log in place:
\* a log the snapshot covers can be read.
PriorLogSkipped ==
    ~mem.up /\ ValidateEntryFiles(files) /\ LastFrame(files) <= files.snap.seq => ParseFrames(files)
=============================================================================
