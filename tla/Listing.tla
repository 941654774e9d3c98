------------------------------- MODULE Listing -------------------------------
(***************************************************************************)
(* Paged listings under concurrent change: ListObjects of the memory and   *)
(* file stores, of the managed authority ledger (PostgreSQL and memory)    *)
(* and of a customer's S3, ListMultipartUploads, ListParts, and the scan   *)
(* that finds the objects left behind by a placement change.  A client     *)
(* walks a listing page by page; between two pages (and, for the two local *)
(* stores, between reading the names and reading their metadata) objects   *)
(* come and go, the namespace may be fenced and the gateway may restart,   *)
(* which draws a new key for the continuation tokens.                      *)
(*                                                                         *)
(* A key is a sequence of letters, compared letter by letter.  XML, URL    *)
(* encoding, ETags and sizes are left out.                                 *)
(***************************************************************************)
EXTENDS Integers, Sequences, FiniteSets, SequencesExt

CONSTANTS Sources,     \* which listings an initial state may be about
          Keys,        \* the object keys (sequences of naturals)
          UploadIds,   \* the ids of uploads to one key
          Queries,     \* [prefix, delimiter, max, v2] a client may send
          Walkers,     \* concurrent clients
          MaxChanges,  \* bound on puts, deletes, fences and restarts
          NoKey        \* "no position"

VARIABLES source,    \* the listing of this behaviour
          present,   \* the items the store holds now: [key, id]
          fenced,    \* the tenant's namespace is fenced (managed)
          process,   \* the incarnation whose random key signs tokens
          walk,      \* walker -> the walk it is on
          changes    \* how much of MaxChanges is used up

listingVars == <<source, present, fenced, process, walk, changes>>

-----------------------------------------------------------------------------
(* Order and prefixes. *)

\* The byte order of two keys (str::cmp, and ORDER BY / > on the column).
Before(s, t) ==
    \/ IsStrictPrefix(s, t)
    \/ \E i \in 1..Len(s) :
          /\ i <= Len(t)
          /\ SubSeq(s, 1, i - 1) = SubSeq(t, 1, i - 1)
          /\ s[i] < t[i]

\* One line of a listing: an object, an upload or a common prefix.
Entry(pos, id, kind) == [pos |-> pos, id |-> id, kind |-> kind]

\* Entries sort by position, then upload id; in a tie an object comes before
\* the common prefix that its successors fold into.
EntryBefore(e, f) ==
    \/ Before(e.pos, f.pos)
    \/ e.pos = f.pos /\ e.id < f.id
    \/ e.pos = f.pos /\ e.id = f.id /\ e.kind = "item" /\ f.kind = "prefix"

\* The first n entries of a set, in order.
FirstOf(S, n) ==
    [i \in 1..(IF n < Cardinality(S) THEN n ELSE Cardinality(S)) |->
       CHOOSE e \in S : Cardinality({f \in S : EntryBefore(f, e)}) = i - 1]

\* Where the first delimiter of key begins behind the prefix, 0 when nowhere.
DelimiterAt(key, q) ==
    LET d == q.delimiter
        hits == {i \in Len(q.prefix) + 1 .. Len(key) :
                   IsPrefix(d, SubSeq(key, i, Len(key)))}
    IN  IF d = << >> \/ hits = {} THEN 0
        ELSE CHOOSE i \in hits : \A j \in hits : i <= j

\* The line an object is folded into: itself, or the common prefix up to the
\* first letter of the delimiter.  prev_common drops the repeats of a prefix,
\* which are adjacent once the keys are sorted.
ObjectEntry(item, q) ==
    LET cut == DelimiterAt(item.key, q)
    IN  IF cut = 0 THEN Entry(item.key, item.id, "item")
        ELSE Entry(SubSeq(item.key, 1, cut), 0, "prefix")

\* An upload's common prefix runs to the end of the delimiter.
UploadEntry(item, q) ==
    LET cut == DelimiterAt(item.key, q)
    IN  IF cut = 0 THEN Entry(item.key, item.id, "item")
        ELSE Entry(SubSeq(item.key, 1, cut + Len(q.delimiter) - 1), 0, "prefix")

Matching(items, q) == {item \in items : IsPrefix(q.prefix, item.key)}

\* A page: at most max lines, and the last one as the next position if lines
\* are left.  max = 0 answers an empty page that cannot be resumed.
PageOf(entries, q) ==
    LET lines == FirstOf(entries, q.max)
        truncated == q.max > 0 /\ Cardinality(entries) > Len(lines)
    IN  [lines |-> lines,
         next |-> IF truncated THEN Last(lines) ELSE NoKey]

\* Lines behind a position.
Behind(entries, after) ==
    {e \in entries : after = NoKey \/ Before(after.pos, e.pos)}

-----------------------------------------------------------------------------
(* The pages of each source. *)

\* Mutant: resume behind the raw key instead of the listed line.
MutListFromLocalObjects(items, q, after) ==
    LET raw == {i \in Matching(items, q) : after = NoKey \/ Before(after.pos, i.key)}
    IN  PageOf({ObjectEntry(i, q) : i \in raw}, q)

\* Filter, sort, fold, resume behind the last listed line, take max_keys.
ListFromLocalObjects(items, q, after) ==
    PageOf(Behind({ObjectEntry(i, q) : i \in Matching(items, q)}, after), q)

\* The ledger reads max_keys + 1 live authorities behind the position.
ListAuthorityPostgres(items, q, after) ==
    LET rows == {Entry(i.key, 0, "item") : i \in Matching(items, q)}
        read == FirstOf(Behind(rows, after), q.max + 1)
    IN  IF q.max = 0 THEN [lines |-> << >>, next |-> NoKey]
        ELSE [lines |-> SubSeq(read, 1, IF Len(read) > q.max THEN q.max ELSE Len(read)),
              next |-> IF Len(read) > q.max THEN read[q.max] ELSE NoKey]

\* The memory ledger filters, sorts and truncates the same rows.
ListAuthorityMemory(items, q, after) ==
    PageOf(Behind({Entry(i.key, 0, "item") : i \in Matching(items, q)}, after), q)

\* Uploads resume at a (key, upload id) pair; a common prefix only behind its
\* own position.
AfterMarker(e, after) ==
    \/ after = NoKey
    \/ Before(after.pos, e.pos)
    \/ e.pos = after.pos /\ after.id # 0 /\ e.id > after.id

PaginateMultipartUploads(items, q, after) ==
    PageOf({e \in {UploadEntry(i, q) : i \in Matching(items, q)} : AfterMarker(e, after)}, q)

\* Parts are numbered; the marker is the last number shown.
ListParts(items, q, after) ==
    PageOf(Behind({Entry(i.key, 0, "item") : i \in items}, after), q)

\* Authorities below the target placement version, by tenant, bucket and key
\* (a key of three letters stands for the three columns): one more row than
\* asked for is read, a limit of zero reads none.
ListBelowPlacementPostgres(items, q, after) ==
    LET read == FirstOf(Behind({Entry(i.key, 0, "item") : i \in items}, after), q.max + 1)
    IN  IF q.max = 0 THEN [lines |-> << >>, next |-> NoKey]
        ELSE [lines |-> SelectSeq(read, LAMBDA e : q.max < Len(read) => e # read[q.max + 1]),
              next |-> IF Len(read) > q.max THEN read[q.max] ELSE NoKey]

ListBelowPlacementMemory(items, q, after) ==
    PageOf(Behind({Entry(i.key, 0, "item") : i \in items}, after), q)

\* The customer's S3 answers; the gateway only renders its page.
S3Page(items, q, after) ==
    PageOf(Behind({ObjectEntry(i, q) : i \in Matching(items, q)}, after), q)

Page(items, q, after) ==
    CASE source \in {"memory", "file"} -> ListFromLocalObjects(items, q, after)
      [] source = "postgres" -> ListAuthorityPostgres(items, q, after)
      [] source = "ledger" -> ListAuthorityMemory(items, q, after)
      [] source = "uploads" -> PaginateMultipartUploads(items, q, after)
      [] source = "parts" -> ListParts(items, q, after)
      [] source = "placement" -> ListBelowPlacementPostgres(items, q, after)
      [] source = "rebalance" -> ListBelowPlacementMemory(items, q, after)
      [] source = "s3" -> S3Page(items, q, after)

-----------------------------------------------------------------------------
(* Which requests a source accepts. *)

Local == source \in {"memory", "file"}
Managed == source \in {"postgres", "ledger"}

\* The items an initial state or a put may be about.
Items ==
    CASE source = "uploads" -> [key : Keys, id : UploadIds]
      [] source = "parts" -> {[key |-> <<n>>, id |-> 0] : n \in UploadIds}
      [] OTHER -> [key : Keys, id : {0}]

\* Only object and upload listings have a prefix and a delimiter.
Applicable(q) == source \in {"parts", "placement", "rebalance"} => q.prefix = << >> /\ q.delimiter = << >>

\* The early refusals: the ledger knows no delimiter, uploads and parts are
\* listed at least one at a time, a fenced namespace is not listed.
Refused(q) ==
    \/ Managed /\ (q.delimiter # << >> \/ (fenced /\ q.max > 0))
    \/ source \in {"uploads", "parts"} /\ q.max = 0

\* Local and managed ListObjectsV2 resume from a signed token; everything else
\* from a plain marker, or from the backend's own token.
Tokened(w) == (Local \/ Managed) /\ w.query.v2 /\ w.after # NoKey

\* A token is good for the incarnation that signed it and for the prefix and
\* delimiter it was issued for; the page size may change.
DecodeContinuation(w, q) ==
    /\ q.v2
    /\ w.process = process
    /\ q.prefix = w.query.prefix
    /\ q.delimiter = w.query.delimiter

Resumable(w, q) ==
    CASE Tokened(w) -> DecodeContinuation(w, q)
      [] OTHER -> TRUE

-----------------------------------------------------------------------------
(* Walks. *)

Idle == [phase |-> "idle"]

Opened == [phase |-> "ready", query |-> CHOOSE q \in Queries : TRUE, after |-> NoKey,
          process |-> 0, lines |-> << >>, names |-> {}, kept |-> {}, ever |-> {}]

ListingInit ==
    /\ source \in Sources
    /\ present \in SUBSET Items
    /\ fenced = FALSE
    /\ process = 1
    /\ walk = [c \in Walkers |-> Idle]
    /\ changes = 0

Fail(c) == walk' = [walk EXCEPT ![c].phase = "failed"]

\* The page is rendered and answered; its last line is the next position.
Answer(c, q, names, lines) ==
    LET page == Page(names, q, walk[c].after)
    IN  walk' = [walk EXCEPT ![c] =
                   [@ EXCEPT !.query = q, !.process = process, !.names = {},
                             !.lines = lines \o page.lines,
                             !.after = page.next,
                             !.phase = IF page.next # NoKey THEN "ready"
                                       ELSE IF q.max = 0 THEN "empty" ELSE "done"]]

\* A client opens a walk.
Open(c) ==
    /\ walk[c] = Idle
    /\ walk' = [walk EXCEPT ![c] = [Opened EXCEPT !.kept = present, !.ever = present]]
    /\ UNCHANGED <<source, present, fenced, process, changes>>

\* It asks for the first or the next page.  A marker belongs to one query; a
\* token may be sent with any.  The local stores first read the names.
Request(c, q) ==
    LET w == walk[c]
    IN  /\ w.phase = "ready"
        /\ Applicable(q)
        /\ w.after # NoKey /\ ~Tokened(w) => q = w.query
        /\ IF Refused(q) \/ ~Resumable(w, q) THEN Fail(c)
           ELSE IF Local
           THEN walk' = [walk EXCEPT ![c].phase = "reading", ![c].names = present,
                                     ![c].query = q]
           ELSE Answer(c, q, present, w.lines)
        /\ UNCHANGED <<source, present, fenced, process, changes>>

\* The local stores then read each object's metadata.  An object deleted in
\* between is still listed by the memory store and fails the file listing.
Render(c) ==
    /\ walk[c].phase = "reading"
    /\ \/ Answer(c, walk[c].query, walk[c].names, walk[c].lines)
       \/ source = "file" /\ ~(walk[c].names \subseteq present) /\ Fail(c)
    /\ UNCHANGED <<source, present, fenced, process, changes>>

\* A walk under way remembers what was there all the time and at any time.
Track(kept, ever) ==
    walk' = [c \in Walkers |->
               IF walk[c] = Idle THEN Idle
               ELSE [walk[c] EXCEPT !.kept = @ \cap kept, !.ever = @ \cup ever]]

Change == changes < MaxChanges /\ changes' = changes + 1

Put(item) ==
    /\ Change
    /\ item \notin present
    /\ ~fenced
    /\ present' = present \cup {item}
    /\ Track(present, {item})
    /\ UNCHANGED <<source, fenced, process>>

Delete(item) ==
    /\ Change
    /\ item \in present
    /\ present' = present \ {item}
    /\ Track(present \ {item}, {})
    /\ UNCHANGED <<source, fenced, process>>

Fence ==
    /\ Change
    /\ Managed /\ ~fenced
    /\ fenced' = TRUE
    /\ UNCHANGED <<source, present, process, walk>>

\* A restart draws a new token key and ends the requests in progress.
Restart ==
    /\ Change
    /\ process' = process + 1
    /\ present' = IF source = "memory" THEN {} ELSE present
    /\ walk' = [c \in Walkers |->
                  IF walk[c] = Idle THEN Idle
                  ELSE [walk[c] EXCEPT !.kept = @ \cap present',
                                       !.phase = IF @ = "reading" THEN "failed" ELSE @]]
    /\ UNCHANGED <<source, fenced>>

ListingNext ==
    \/ \E c \in Walkers : Open(c) \/ Render(c)
    \/ \E c \in Walkers, q \in Queries : Request(c, q)
    \/ \E item \in Items : Put(item) \/ Delete(item)
    \/ Fence
    \/ Restart

ListingSpec == ListingInit /\ [][ListingNext]_listingVars

-----------------------------------------------------------------------------
\* The line an item should appear on.
LineOf(item, q) ==
    CASE source = "uploads" -> UploadEntry(item, q)
      [] source \in {"memory", "file", "s3"} -> ObjectEntry(item, q)
      [] OTHER -> Entry(item.key, 0, "item")

\* Walking a listing to its end shows every object that was there all the time
\* on exactly one line (its own or its common prefix), shows nothing that was
\* never there, and never goes back: list_from_local_objects, list_authority,
\* paginate_multipart_uploads, list_parts and the placement scan, with puts,
\* deletes, restarts and tokens sent with another query in between.
PagesComplete ==
    \A c \in Walkers :
       LET w == walk[c] IN
       w.phase = "done" =>
          /\ \A item \in Matching(w.kept, w.query) :
                \E n \in DOMAIN w.lines : w.lines[n] = LineOf(item, w.query)
          /\ \A n \in DOMAIN w.lines :
                \E item \in Matching(w.ever, w.query) : w.lines[n] = LineOf(item, w.query)
          /\ \A n \in 1..Len(w.lines) - 1 : EntryBefore(w.lines[n], w.lines[n + 1])

=============================================================================
