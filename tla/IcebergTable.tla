--------------------------- MODULE IcebergTable ---------------------------
(***************************************************************************)
(* Processing an Iceberg table as one unit (crates/gateway/src/iceberg and *)
(* server/iceberg.rs): a PUT of the table's current metadata document to   *)
(* the next version's key walks every retained snapshot, rewrites the data *)
(* files, manifests and manifest lists, commits by swapping the version    *)
(* hint, and then deletes what it replaced.  Every get, put, delete and    *)
(* list of the object store is a step of its own, puts may be applied and  *)
(* still fail, and the process may stop between any two.                   *)
(*                                                                         *)
(* An object's key is a tuple: <<"doc", version, name>>, <<"list", i>> and *)
(* <<"manifest", i>> of the source table, <<"snap", snapshot, token>> and  *)
(* <<"rewritten", token, source>> of an operation, <<"path", i>> of a      *)
(* source data file and <<"hash", value, depth>> of a transformed one.  A  *)
(* data file is [value, depth]: its rows and how often the transform ran;  *)
(* depth 0 is plaintext.  The version hint is a variable of its own.       *)
(***************************************************************************)
EXTENDS Integers, Sequences, FiniteSets, TLC

CONSTANTS
    Tables,         \* the tables to start from: [objects, hint]
    Missing,        \* data files a source table names though they are gone
    Operations,     \* the processed requests, named by their uuid tokens
    Names,          \* the names a client may give a metadata document
    Kinds,          \* subset of {"put", "read", "multipart"}
    Targets,        \* subset of {"root", "unit", "plain"}: what a key is
    Backends,       \* subset of {"direct", "managed"}
    Gates,          \* subset of BOOLEAN: MASKURA_ENABLE_ICEBERG
    Codec,          \* is a data-file codec behind the seam, or the stub?
    Idempotent,     \* does a second transform change nothing?
    MaxVersion,     \* bound on the versions a client names
    MaxFaults       \* bound on failing store calls and crashes

NoHint == 0
NoKey == <<"none">>
NoDoc == [snapshots |-> <<>>, current |-> "none", branch |-> "none", log |-> <<>>]

VARIABLES
    objects,    \* the bucket under the table root, without the hint
    hint,       \* version-hint.text, or NoHint
    op,         \* per operation: its request and how far it is
    faults

icebergVars == <<objects, hint, op, faults>>

Idle ==
    [pc |-> "idle", kind |-> "put", version |-> 0, name |-> "none", body |-> NoDoc,
     found |-> {}, seen |-> NoHint, check |-> "first", base |-> 0, source |-> NoKey,
     layers |-> <<>>, writes |-> <<>>, replaced |-> {}, answer |-> "none"]

IcebergInit ==
    /\ \E table \in Tables : objects = table.objects /\ hint = table.hint
    /\ op = [o \in Operations |-> Idle]
    /\ faults = 0

Docs == {k \in DOMAIN objects : k[1] = "doc"}
Ended(o) == op[o].pc \in {"refused", "failed", "crashed", "done"}

(* A step of o: fields it sets, everything else of it kept. *)
Advance(o, changes) == op' = [op EXCEPT ![o] = changes @@ @]
Refuse(o, why) == Advance(o, [pc |-> "refused", answer |-> why])

-----------------------------------------------------------------------------
(* Detection.                                                              *)

(* enclosing_table_roots: a stored hint or metadata document makes a root. *)
TableStored == hint # NoHint \/ Docs # {}

(* classify, over classify_key: what the request targets.  Without direct  *)
(* object access only the name of a metadata document can be told.         *)
Classify(target, backend) ==
    CASE target = "root" /\ backend = "managed" -> "unsupported"
      [] target = "root" /\ backend = "direct" -> "root"
      [] target = "unit" /\ backend = "direct" /\ TableStored -> "subunit"
      [] OTHER -> "none"

(* streaming_iceberg_single_put, iceberg_transformed_read_response and     *)
(* multipart_table_rejection: the order of the refusals is the code's; a   *)
(* client sends some document it read before, its version is its choice.   *)
Begin(o) ==
    /\ op[o].pc = "idle"
    /\ \E kind \in Kinds, target \in Targets, backend \in Backends, gate \in Gates :
       LET class == Classify(target, backend) IN
       \/ /\ class = "none"
          /\ Advance(o, [pc |-> "done", kind |-> kind, answer |-> "per object"])
       \/ /\ class \in {"unsupported", "subunit"} \/ (class = "root" /\ kind = "multipart")
          /\ Refuse(o, "unsupported table operation")
       \/ /\ class = "root" /\ kind # "multipart" /\ ~gate
          /\ Refuse(o, "disabled")
       \/ /\ class = "root" /\ kind # "multipart" /\ gate
          /\ \E version \in 1..MaxVersion, name \in Names, key \in Docs :
                Advance(o, [pc |-> "list", kind |-> kind, version |-> version,
                            name |-> name, body |-> objects[key], check |-> "first"])
    /\ UNCHANGED <<objects, hint, faults>>

-----------------------------------------------------------------------------
(* current_metadata: the listing, the hint, then the document.             *)

(* The version the hint or else the highest document names. *)
CurrentVersion(docs, hinted) ==
    IF hinted # NoHint THEN hinted
    ELSE CHOOSE v \in {k[2] : k \in docs} : \A k \in docs : k[2] <= v

(* The one document of that version, or NoKey: none or two are refused. *)
CurrentKey(docs, hinted) ==
    IF docs = {} THEN NoKey
    ELSE LET at == {k \in docs : k[2] = CurrentVersion(docs, hinted)} IN
         IF Cardinality(at) = 1 THEN CHOOSE k \in at : TRUE ELSE NoKey

ListMetadata(o) ==
    /\ op[o].pc = "list"
    /\ Advance(o, [pc |-> "hint", found |-> Docs])
    /\ UNCHANGED <<objects, hint, faults>>

ReadHint(o) ==
    /\ op[o].pc = "hint"
    /\ Advance(o, [pc |-> "document", seen |-> hint])
    /\ UNCHANGED <<objects, hint, faults>>

(* The rest of current_metadata and what its caller compares: the version  *)
(* a write follows or a read names, and the body against the document; at  *)
(* the start of commit, the version against the walk's base.               *)
ReadDocument(o) ==
    /\ op[o].pc = "document"
    /\ LET r == op[o]
           key == CurrentKey(r.found, r.seen)
       IN  IF key = NoKey \/ key \notin DOMAIN objects
           THEN Refuse(o, "conflicting or missing metadata")
           ELSE IF r.check = "commit"
           THEN IF key[2] # r.base THEN Refuse(o, "table advanced")
                ELSE Advance(o, [pc |-> "write"])
           ELSE IF \/ r.kind = "put" /\ (r.version # key[2] + 1 \/ objects[key] # r.body)
                   \/ r.kind = "read" /\ r.version # key[2]
           THEN Refuse(o, "not the current table state")
           ELSE Advance(o, [pc |-> "layers", base |-> key[2], source |-> key,
                            body |-> objects[key]])
    /\ UNCHANGED <<objects, hint, faults>>

-----------------------------------------------------------------------------
(* walk_and_prepare.                                                       *)

(* Phase 1: every retained snapshot's manifest list and manifests; each    *)
(* layer is the manifest list's key and the entries of its manifests.      *)
Layers(doc) ==
    [i \in DOMAIN doc.snapshots |->
        LET key == doc.snapshots[i].list IN
        [list |-> key,
         manifests |-> [j \in DOMAIN objects[key] |->
            [key |-> objects[key][j].manifest, entries |-> objects[objects[key][j].manifest]]]]]

LayersPresent(doc) ==
    \A i \in DOMAIN doc.snapshots :
        LET key == doc.snapshots[i].list IN
        /\ key \in DOMAIN objects
        /\ \A j \in DOMAIN objects[key] : objects[key][j].manifest \in DOMAIN objects

(* read_manifest_list and read_manifest of every layer. *)
ReadLayers(o) ==
    /\ op[o].pc = "layers"
    /\ IF LayersPresent(op[o].body)
       THEN Advance(o, [pc |-> "files", layers |-> Layers(op[o].body)])
       ELSE Refuse(o, "missing table object")
    /\ UNCHANGED <<objects, hint, faults>>

Manifests(layers) == UNION {{layers[i].manifests[j] : j \in DOMAIN layers[i].manifests}
                            : i \in DOMAIN layers}
Entries(layers) == UNION {{m.entries[k] : k \in DOMAIN m.entries} : m \in Manifests(layers)}

(* A delete file, a format that is not Avro or Parquet, or a file outside  *)
(* the table root stops the walk; so does every data file or partition     *)
(* value while the stub stands behind the seam.                            *)
Refused(layers) ==
    \/ \E e \in Entries(layers) : e.content # "data" \/ e.format = "orc" \/ ~e.inside
    \/ ~Codec /\ Entries(layers) # {}

(* Phase 2 covers the files of all the retained snapshots, the deleted     *)
(* ones included; a file only tombstones name may be gone.                 *)
SourceFiles(layers) == {e.file : e \in Entries(layers)}
Live(layers) == {e.file : e \in {d \in Entries(layers) : ~d.deleted}}
DroppedTombstones(layers) == SourceFiles(layers) \ (DOMAIN objects \cup Live(layers))

(* transform_data_file, as its contract states it (external codec). *)
TransformDataFile(file) ==
    IF Idempotent /\ file.depth > 0 THEN file ELSE [file EXCEPT !.depth = @ + 1]

(* The output path is the hash of the transformed bytes. *)
OutputKey(file) == <<"hash", TransformDataFile(file).value, TransformDataFile(file).depth>>

(* rewrite_manifest: mapped paths, statistics dropped, partition values    *)
(* transformed as data; tombstones of files that are gone are left out.    *)
RewriteManifest(entries, dropped) ==
    LET kept == SelectSeq(entries, LAMBDA e : ~(e.deleted /\ e.file \in dropped))
    IN  [k \in DOMAIN kept |-> [kept[k] EXCEPT !.file = OutputKey(objects[kept[k].file]),
                                               !.stats = FALSE]]

(* rewrite_manifest_list: mapped manifests, partition summaries dropped. *)
RewriteManifestList(token, layer) ==
    [j \in DOMAIN layer.manifests |->
        [manifest |-> <<"rewritten", token, layer.manifests[j].key>>, bounds |-> FALSE]]

(* Leaves a retained snapshot on its old manifest list. *)
MutRewrittenSnapshot(token, snapshot) == [snapshot EXCEPT !.bounds = FALSE]

(* Retained snapshots are moved onto the rewritten layer. *)
RewrittenSnapshot(token, snapshot) ==
    [snapshot EXCEPT !.list = <<"snap", snapshot.id, token>>, !.bounds = FALSE]

(* The new snapshot shares the rewritten current one's list, or has an     *)
(* empty list of its own when the table has no current snapshot.           *)
NewList(token, doc) ==
    IF doc.current = "none" THEN <<"snap", token, token>> ELSE <<"snap", doc.current, token>>

(* build_committed_metadata: retained snapshots, then the new one; a       *)
(* branch at the old current snapshot follows; the log grows.              *)
CommittedMetadata(token, doc, source) ==
    [snapshots |-> Append([i \in DOMAIN doc.snapshots |->
                              RewrittenSnapshot(token, doc.snapshots[i])],
                          [id |-> token, list |-> NewList(token, doc), bounds |-> FALSE]),
     current |-> token,
     branch |-> IF doc.branch = doc.current THEN token ELSE doc.branch,
     log |-> Append(doc.log, source)]

RECURSIVE Listed(_)
Listed(S) == IF S = {} THEN <<>> ELSE LET x == CHOOSE y \in S : TRUE IN <<x>> \o Listed(S \ {x})

(* Phases 3 and 4: everything the commit will put, in order.  Identical    *)
(* outputs share one object, so a key is put once.                         *)
ObjectWrites(o, layers, doc, key) ==
    LET files == SourceFiles(layers) \cap DOMAIN objects
        outputs == {[key |-> OutputKey(objects[f]), value |-> TransformDataFile(objects[f])]
                    : f \in files}
        manifests == {[key |-> <<"rewritten", o, m.key>>,
                       value |-> RewriteManifest(m.entries, DroppedTombstones(layers))]
                      : m \in Manifests(layers)}
        lists == [i \in DOMAIN layers |->
                    [key |-> <<"snap", doc.snapshots[i].id, o>>,
                     value |-> RewriteManifestList(o, layers[i])]]
        fresh == IF doc.current = "none" THEN <<[key |-> NewList(o, doc), value |-> <<>>]>>
                 ELSE <<>>
        committed == [key |-> key, value |-> CommittedMetadata(o, doc, op[o].source)]
    IN  Listed(outputs) \o Listed(manifests) \o lists \o fresh \o <<committed>>

(* What the commit deletes after the swap. *)
Replaced(layers) ==
    {m.key : m \in Manifests(layers)} \cup {layers[i].list : i \in DOMAIN layers}
        \cup (SourceFiles(layers) \ DroppedTombstones(layers))

(* Phase 2 to 4 with the data files as they are stored now; a read answers *)
(* with the document and stores nothing.                                   *)
PrepareWalk(o) ==
    /\ op[o].pc = "files"
    /\ LET r == op[o]
           key == <<"doc", r.version, r.name>>
       IN  IF Refused(r.layers) THEN Refuse(o, "unsupported format")
           ELSE IF ~(Live(r.layers) \subseteq DOMAIN objects)
           THEN Refuse(o, "missing data file")
           ELSE IF r.kind = "read"
           THEN Advance(o, [pc |-> "done", answer |-> "preview"])
           ELSE Advance(o, [pc |-> "list", check |-> "commit",
                            writes |-> ObjectWrites(o, r.layers, r.body, key),
                            replaced |-> Replaced(r.layers)])
    /\ UNCHANGED <<objects, hint, faults>>

-----------------------------------------------------------------------------
(* commit.                                                                 *)

(* One put of a new object; a put may fail, applied or not. *)
WriteObject(o) ==
    /\ op[o].pc = "write"
    /\ op[o].writes # <<>>
    /\ LET w == Head(op[o].writes)
           put == (w.key :> w.value) @@ objects
       IN  \/ /\ objects' = put
              /\ Advance(o, [writes |-> Tail(op[o].writes)])
              /\ UNCHANGED faults
           \/ /\ faults < MaxFaults
              /\ objects' \in {objects, put}
              /\ Advance(o, [pc |-> "failed", answer |-> "store error"])
              /\ faults' = faults + 1
    /\ UNCHANGED hint

(* The pre-swap check of the hint. *)
CheckHint(o) ==
    /\ op[o].pc = "write"
    /\ op[o].writes = <<>>
    /\ IF hint # NoHint /\ hint # op[o].base THEN Refuse(o, "table advanced")
       ELSE Advance(o, [pc |-> "swap"])
    /\ UNCHANGED <<objects, hint, faults>>

SwapHint(o) ==
    /\ op[o].pc = "swap"
    /\ \/ /\ hint' = op[o].version
          /\ Advance(o, [pc |-> "cleanup"])
          /\ UNCHANGED faults
       \/ /\ faults < MaxFaults
          /\ hint' \in {hint, op[o].version}
          /\ Advance(o, [pc |-> "failed", answer |-> "pointer error"])
          /\ faults' = faults + 1
    /\ UNCHANGED objects

(* Post-swap cleanup: a delete that fails is reported and skipped. *)
DeleteReplaced(o) ==
    /\ op[o].pc = "cleanup"
    /\ \E key \in op[o].replaced :
        /\ \/ objects' = [k \in DOMAIN objects \ {key} |-> objects[k]] /\ UNCHANGED faults
           \/ faults < MaxFaults /\ faults' = faults + 1 /\ UNCHANGED objects
        /\ Advance(o, [replaced |-> op[o].replaced \ {key}])
    /\ UNCHANGED hint

Committed(o) ==
    /\ op[o].pc = "cleanup"
    /\ op[o].replaced = {}
    /\ Advance(o, [pc |-> "done", answer |-> "committed"])
    /\ UNCHANGED <<objects, hint, faults>>

Crash(o) ==
    /\ op[o].pc \notin {"idle"}
    /\ ~Ended(o)
    /\ faults < MaxFaults
    /\ Advance(o, [pc |-> "crashed"])
    /\ faults' = faults + 1
    /\ UNCHANGED <<objects, hint>>

IcebergNext ==
    \E o \in Operations :
        \/ Begin(o)
        \/ ListMetadata(o) \/ ReadHint(o) \/ ReadDocument(o)
        \/ ReadLayers(o) \/ PrepareWalk(o)
        \/ WriteObject(o) \/ CheckHint(o) \/ SwapHint(o)
        \/ DeleteReplaced(o) \/ Committed(o)
        \/ Crash(o)

IcebergSpec == IcebergInit /\ [][IcebergNext]_icebergVars

-----------------------------------------------------------------------------
(* Properties.                                                             *)

Ids(doc) == {doc.snapshots[i].id : i \in DOMAIN doc.snapshots}
LiveEntries(doc) == {e \in Entries(Layers(doc)) : ~e.deleted}

(* No half-transformed table is reachable (ADR 0028): whenever a reader    *)
(* finds a current metadata document, however operations interleave, fail  *)
(* or stop, every object it leads to is stored and holds the rows its      *)
(* entry stands for; and if an operation wrote that document, it retains   *)
(* the snapshots of the one before, and no plaintext file, path, statistic *)
(* or bound is left in any of them.                                        *)
TableWhole ==
    LET key == CurrentKey(Docs, hint) IN
    key # NoKey =>
        LET doc == objects[key] IN
        /\ LayersPresent(doc)
        /\ \A e \in LiveEntries(doc) :
              e.file \notin Missing => e.file \in DOMAIN objects /\ objects[e.file].value = e.value
        /\ doc.log # <<>> =>
            /\ Ids(objects[doc.log[Len(doc.log)]]) \cup {doc.current} = Ids(doc)
            /\ \A i \in DOMAIN doc.snapshots : ~doc.snapshots[i].bounds
            /\ \A i \in DOMAIN doc.snapshots :
                  \A j \in DOMAIN objects[doc.snapshots[i].list] :
                      ~objects[doc.snapshots[i].list][j].bounds
            /\ \A e \in Entries(Layers(doc)) : e.file[1] = "hash" /\ ~e.stats
            /\ \A e \in LiveEntries(doc) : objects[e.file].depth > 0

(* An operation that was refused or failed before its pointer write leaves *)
(* only orphans: a reader finds the same table with them as without them   *)
(* (commit, walker.rs).                                                    *)
FailedInvisible ==
    \A o \in Operations :
        LET own == <<"doc", op[o].version, op[o].name>>
            shared == \E other \in Operations \ {o} :
                        op[other].version = op[o].version /\ op[other].name = op[o].name
        IN  op[o].pc \in {"refused", "failed"} /\ op[o].answer # "pointer error"
                /\ ~shared /\ op[o].kind = "put" /\ own # op[o].source
            => CurrentKey(Docs, hint) = CurrentKey(Docs \ {own}, hint)

=============================================================================
