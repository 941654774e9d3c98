---------------------------- MODULE ListCursors ----------------------------
(* The listing cursors of the managed ledger: cached pages that a client's *)
(* continuation token names (managed/listing.rs).  A page's successor is   *)
(* created once and replayed; cursors expire, are fenced by the epochs of  *)
(* the namespace, and are limited in number.                               *)
(*                                                                         *)
(* Abstracted: one workspace and one query binding; the limits on cursors  *)
(* and on their bytes, per workspace and global, are one limit on live     *)
(* cursors.                                                                *)
EXTENDS Naturals, FiniteSets

CONSTANTS Repos,        \* subset of {"memory", "postgres"}
          Callers,
          MaxIds,       \* cursors ever created
          Pages,        \* contents of a following page
          CursorLimit,  \* MANAGED_LIST_CURSOR_WORKSPACE_LIMIT
          MaxFence      \* epochs explored

VARIABLES repo, fence, drawn,  \* drawn: identifiers given out
          purging,      \* the namespace is fenced by a purge
          cursors,      \* id -> row, or NoCursor
          next,         \* predecessor -> successor (memory's second map)
          call          \* per caller: [pc, pred, page, mine, answer]

Ids == 1 .. MaxIds
NoId == 0

cursorVars == <<repo, fence, drawn, purging, cursors, next, call>>

NoCursor == [page |-> "none", fence |-> 0, late |-> FALSE, pred |-> NoId]
Exists(i) == i # NoId /\ cursors[i] # NoCursor
Rest == [pc |-> "idle", pred |-> NoId, page |-> "none", mine |-> NoId, answer |-> "none"]

CursorInit ==
    /\ repo \in Repos
    /\ fence = 1 /\ purging = FALSE /\ drawn = 0
    /\ cursors = [i \in Ids |-> NoCursor]
    /\ next = [i \in Ids |-> NoId]
    /\ call = [c \in Callers |-> Rest]

Live == {i \in Ids : Exists(i) /\ ~cursors[i].late}
Row(page, pred) == [page |-> page, fence |-> fence, late |-> FALSE, pred |-> pred]

\* create_list_cursor's outcome: refused in a fenced namespace or at the limit.
Refusal == IF purging THEN "fenced"
           ELSE IF Cardinality(Live) >= CursorLimit THEN "limit" ELSE "none"

\* Postgres: the row an existing successor answers with.
Successors(pred) == {i \in Ids : Exists(i) /\ cursors[i].pred = pred}

\* Mutant: a known successor answers whatever page is asked for.
MutReplay(i, page) ==
    IF cursors[i].late \/ cursors[i].fence # fence THEN "expired" ELSE "ok"

\* A known successor answers the retry if it is live, under the current fence
\* and for the same page.
Replay(i, page) ==
    IF cursors[i].late \/ cursors[i].fence # fence THEN "expired"
    ELSE IF cursors[i].page = page THEN "ok" ELSE "conflict"

Answer(c, answer, i) ==
    call' = [call EXCEPT ![c] = [@ EXCEPT !.pc = "done", !.answer = answer,
                                         !.mine = IF answer = "ok" THEN i ELSE NoId]]

\* remove_list_cursor removes the successors of a cursor with it, and the link
\* that led to it; in Postgres the foreign key cascades.
Chain(i) ==
    LET step[n \in 0 .. Cardinality(Ids)] ==
          IF n = 0 THEN {i}
          ELSE step[n - 1] \cup {j \in Ids : \E k \in step[n - 1] :
                                    IF repo = "memory" THEN next[k] = j
                                    ELSE Exists(j) /\ cursors[j].pred = k}
    IN  step[Cardinality(Ids)]

Removed(gone) ==
    /\ cursors' = [i \in Ids |-> IF i \in gone THEN NoCursor ELSE cursors[i]]
    /\ next' = [i \in Ids |-> IF i \in gone \/ next[i] \in gone THEN NoId ELSE next[i]]

(***************************************************************************)
(* create_list_cursor, create_list_cursor_successor                        *)
(***************************************************************************)
CreateListCursor(i) ==
    /\ i = drawn + 1 /\ Refusal = "none" /\ drawn' = i
    /\ cursors' = [cursors EXCEPT ![i] = Row("first", NoId)]
    /\ UNCHANGED <<repo, fence, purging, next, call>>

SuccessorCall(c, pred, page) ==
    /\ call[c].pc = "idle" /\ Exists(pred)
    /\ call' = [call EXCEPT ![c] = [Rest EXCEPT !.pc = "called", !.pred = pred, !.page = page]]
    /\ UNCHANGED <<repo, drawn, fence, purging, cursors, next>>

\* The in-memory ledger does it under one lock.
SuccessorMemory(c, i) ==
    LET pred == call[c].pred IN
    /\ repo = "memory" /\ call[c].pc = "called" /\ i = drawn + 1
    /\ IF next[pred] # NoId
       THEN /\ Answer(c, Replay(next[pred], call[c].page), next[pred])
            /\ UNCHANGED <<cursors, next, drawn>>
       ELSE IF Refusal # "none"
       THEN Answer(c, Refusal, i) /\ UNCHANGED <<cursors, next, drawn>>
       ELSE /\ drawn' = i
            /\ cursors' = [cursors EXCEPT ![i] = Row(call[c].page, pred)]
            /\ next' = [next EXCEPT ![pred] = i]
            /\ Answer(c, "ok", i)
    /\ UNCHANGED <<repo, fence, purging>>

\* Postgres looks for a successor...
SuccessorFind(c) ==
    /\ repo = "postgres" /\ call[c].pc = "called"
    /\ IF Successors(call[c].pred) # {}
       THEN \E i \in Successors(call[c].pred) : Answer(c, Replay(i, call[c].page), i)
       ELSE call' = [call EXCEPT ![c].pc = "create"]
    /\ UNCHANGED <<repo, drawn, fence, purging, cursors, next>>

\* ... creates a cursor of its own ...
SuccessorCreate(c, i) ==
    /\ call[c].pc = "create" /\ i = drawn + 1
    /\ IF Refusal # "none"
       THEN Answer(c, Refusal, i) /\ UNCHANGED <<cursors, drawn>>
       ELSE /\ drawn' = i
            /\ cursors' = [cursors EXCEPT ![i] = Row(call[c].page, NoId)]
            /\ call' = [call EXCEPT ![c].pc = "link", ![c].mine = i]
    /\ UNCHANGED <<repo, fence, purging, next>>

\* The trigger on the table: an update may change the state columns only.
PayloadImmutable(old, new) ==
    <<old.page, old.fence, old.pred>> = <<new.page, new.fence, new.pred>>

\* ... links it: the column is unique and references the predecessor's row, and
\* the trigger sees the update ...
Linkable(c) ==
    LET old == cursors[call[c].mine]
        new == [old EXCEPT !.pred = call[c].pred]
    IN  /\ Exists(call[c].mine) /\ old.pred = NoId
        /\ Exists(call[c].pred) /\ Successors(call[c].pred) = {}
        /\ PayloadImmutable(old, new)

SuccessorLink(c) ==
    /\ call[c].pc = "link"
    /\ IF Linkable(c)
       THEN /\ cursors' = [cursors EXCEPT ![call[c].mine].pred = call[c].pred]
            /\ Answer(c, "ok", call[c].mine)
       ELSE call' = [call EXCEPT ![c].pc = "unlinked"] /\ UNCHANGED cursors
    /\ UNCHANGED <<repo, drawn, fence, purging, next>>

\* ... or deletes it again and answers with the row that won.
SuccessorUnlinked(c) ==
    /\ call[c].pc = "unlinked"
    /\ Removed(Chain(call[c].mine))
    /\ call' = [call EXCEPT ![c].pc = "again", ![c].mine = NoId]
    /\ UNCHANGED <<repo, drawn, fence, purging>>

SuccessorAgain(c) ==
    /\ call[c].pc = "again"
    /\ IF Successors(call[c].pred) # {}
       THEN \E i \in Successors(call[c].pred) : Answer(c, Replay(i, call[c].page), i)
       ELSE Answer(c, "error", NoId)
    /\ UNCHANGED <<repo, drawn, fence, purging, cursors, next>>

\* The caller goes on; a Postgres call may be lost between two statements.
Return(c) ==
    /\ call[c].pc # "idle"
    /\ call' = [call EXCEPT ![c] = Rest]
    /\ UNCHANGED <<repo, drawn, fence, purging, cursors, next>>

(***************************************************************************)
(* use, delete, cleanup                                                    *)
(***************************************************************************)

\* use_list_cursor removes an expired or fenced cursor; a good one it only
\* marks as used, which nothing reads.
UseListCursor(i) ==
    /\ Exists(i)
    /\ cursors[i].late \/ (~purging /\ cursors[i].fence # fence)
    /\ Removed(Chain(i))
    /\ UNCHANGED <<repo, drawn, fence, purging, call>>

DeleteListCursor(i) ==
    /\ Exists(i) /\ Removed(Chain(i))
    /\ UNCHANGED <<repo, drawn, fence, purging, call>>

CleanupExpired ==
    LET gone == UNION {Chain(i) : i \in {j \in Ids : Exists(j) /\ cursors[j].late}}
    IN  /\ gone # {} /\ Removed(gone)
        /\ UNCHANGED <<repo, drawn, fence, purging, call>>

Expires(i) ==
    /\ Exists(i) /\ ~cursors[i].late
    /\ cursors' = [cursors EXCEPT ![i].late = TRUE]
    /\ UNCHANGED <<repo, drawn, fence, purging, next, call>>

\* Purge fences the namespace; when it completes, its cursors go and both
\* epochs rise.  A routing change raises the routing epoch alone.
PurgeStarts == ~purging /\ fence < MaxFence /\ purging' = TRUE
               /\ UNCHANGED <<repo, drawn, fence, cursors, next, call>>
PurgeEnds == /\ purging /\ purging' = FALSE /\ fence' = fence + 1
             /\ Removed(Ids)
             /\ UNCHANGED <<repo, drawn, call>>
RoutingChanges == /\ ~purging /\ fence < MaxFence /\ fence' = fence + 1
                  /\ UNCHANGED <<repo, drawn, purging, cursors, next, call>>

CursorNext ==
    \/ \E c \in Callers :
          \/ \E p \in Ids, page \in Pages : SuccessorCall(c, p, page)
          \/ \E i \in Ids : SuccessorMemory(c, i) \/ SuccessorCreate(c, i)
          \/ SuccessorFind(c) \/ SuccessorLink(c) \/ SuccessorUnlinked(c)
          \/ SuccessorAgain(c) \/ Return(c)
    \/ \E i \in Ids : CreateListCursor(i) \/ UseListCursor(i) \/ DeleteListCursor(i) \/ Expires(i)
    \/ CleanupExpired \/ PurgeStarts \/ PurgeEnds \/ RoutingChanges

(***************************************************************************)
(* Properties.                                                             *)
(***************************************************************************)

\* "Create the next cached page exactly once for a cursor replay"
\* (managed/repository.rs:156): a page has one successor, which the in-memory
\* ledger's map names, a caller answered for it holds that row and its page,
\* and no more cursors are live than the limit.
SuccessorsExact ==
    /\ Cardinality(Live) <= CursorLimit
    /\ \A i \in Ids : Exists(i) /\ cursors[i].pred # NoId =>
          /\ Successors(cursors[i].pred) = {i}
          /\ repo = "memory" => next[cursors[i].pred] = i
    /\ \A c \in Callers :
          /\ call[c].answer = "ok" /\ Exists(call[c].mine)
          /\ cursors[call[c].mine].pred = call[c].pred
          => cursors[call[c].mine].page = call[c].page

\* "Concurrent uses converge on the same successor row and therefore the same
\* token" (managed/repository.rs:157): a call never ends in an error of the
\* repository's own making.
SuccessorServed == \A c \in Callers : call[c].answer # "error"
=============================================================================
