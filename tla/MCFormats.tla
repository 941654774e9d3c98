----------------------------- MODULE MCFormats ------------------------------
(***************************************************************************)
(* What the gateway does to the bytes and the names of objects, for TLC:    *)
(* the plugins a record passes, the record decoder, the columnar pump,      *)
(* object streams, the rewriting of Iceberg tables, listings and batch      *)
(* deletes.  They share no state, so one run checks them side by side: the  *)
(* value of part names the component that moves in a behaviour, x1 to x10   *)
(* hold its state, and a slot it does not use stays 0.                      *)
(***************************************************************************)
EXTENDS Integers, Sequences, TLC

CONSTANTS w1, w2, NoPosition

VARIABLES part, x1, x2, x3, x4, x5, x6, x7, x8, x9, x10

allVars == <<part, x1, x2, x3, x4, x5, x6, x7, x8, x9, x10>>

\* Two plugins and two inputs against limits each of which is reached.
Run == INSTANCE PipelineRun WITH
    phase <- x1, at <- x2, finishing <- x3, record <- x4, guest <- x5, total <- x6, bytes <- x7,
    taken <- x8, output <- x9, stop <- x10,
    Plugins <- 2, Inputs <- 2, Sizes <- {0, 1, 3}, MaxFuel <- 4, ComponentFuel <- 3, CallFuel <- 2,
    MaxInputBytes <- 3, MaxOutputBytes <- 4, MaxRecordBytes <- 2, Factor <- 2, Slack <- 1

\* Every source of up to four bytes: letter, quote, comma, CR, LF and an invalid byte.
Decoder == INSTANCE RecordDecoder WITH
    format <- x1, input <- x2, fed <- x3, decoder <- x4, records <- x5, cuts <- x6,
    Formats <- {"text", "csv", "json", "binary"}, Bytes <- {"x", "q", "c", "r", "n", "u"},
    JsonDocs <- {<<"x">>, <<"x", "n">>, <<"q", "q">>, <<"q", "x", "q">>, <<"q", "n", "q">>, <<"x", "x">>},
    MaxSource <- 4, MaxRecord <- 2, MaxCsvFields <- 2, Segments <- TRUE

\* Schemas with a nullable field, an array, a nested record, timestamps and a
\* map, with and without values to protect.
Node(kind, nullable, kids) == [nullable |-> nullable, kind |-> kind, id |-> "", kids |-> kids]
Leaf(kind) == Node(kind, FALSE, <<>>)
Record(kids) == Node("record", FALSE, kids)
Field(name, node) == [seg |-> name, node |-> node]
Value(kind, id, at, kids) == [kind |-> kind, id |-> id, at |-> at, kids |-> kids]
Text(id) == Value("string", id, 0, <<>>)
Null == Value("null", "", 0, <<>>)
Group(kind, kids) == Value(kind, "", 0, kids)
Time(at) == Value("timestamp", "", at, <<>>)
Item(name, value) == [seg |-> name, key |-> 0, node |-> value]

PumpContainers ==
    {[schema |-> Record(<<Field("a", Node("string", TRUE, <<>>)),
                          Field("b", Node("array", FALSE, <<Field("items", Leaf("string"))>>))>>),
      rows |-> <<Group("record", <<Item("a", Text("secret")),
                                   Item("b", Group("array", <<Item("items", Text("secret")),
                                                              Item("items", Text("x"))>>))>>),
                 Group("record", <<Item("a", Null), Item("b", Group("array", <<>>))>>)>>],
     [schema |-> Record(<<Field("a", Leaf("string")),
                          Field("r", Node("record", TRUE, <<Field("b", Leaf("string"))>>))>>),
      rows |-> <<Group("record", <<Item("a", Text("secret")),
                                   Item("r", Group("record", <<Item("b", Text("secret"))>>))>>),
                 Group("record", <<Item("a", Text("x")), Item("r", Null)>>)>>],
     [schema |-> Record(<<Field("t", Leaf("timestamp-millis")), Field("n", Leaf("timestamp-nanos"))>>),
      rows |-> <<Group("record", <<Item("t", Time(2)), Item("n", Time(1500))>>),
                 Group("record", <<Item("t", Time(70)), Item("n", Time(1500))>>)>>],
     [schema |-> Record(<<Field("m", Node("map", FALSE, <<Field("values", Leaf("string"))>>)),
                          Field("e", Leaf("enum"))>>),
      rows |-> <<>>]}

PumpTargets ==
    {<<>>, <<<<"a">>>>, <<<<"b", "items">>>>, <<<<"a">>, <<"b", "items">>>>,
     <<<<"r", "b">>, <<"a">>>>, <<<<"r">>, <<"r", "b">>>>, <<<<"z">>>>}

Pump == INSTANCE BinaryPump WITH
    source <- x1, phase <- x2, plans <- x3, written <- x4,
    Containers <- PumpContainers, TargetLists <- PumpTargets, Reductors <- {"common", "wasm"},
    TypeIds <- {"T"}, MaxFields <- 12, MaxDepth <- 3, Width <- 16, Calendar <- -3000..9000

-----------------------------------------------------------------------------
\* One read against three successive versions, and one upload beside it.
Streams == INSTANCE ObjectStreams WITH
    validator <- x1, primary <- x2, replica <- x3, read <- x4, upload <- x5, reserved <- x6,
    files <- x7, faults <- x8,
    Reads <- {"r"}, Uploads <- {"u"}, Backends <- {"managed", "http"}, Kinds <- {"plain", "direct", "spooled"},
    Versions <- <<[length |-> 3, format |-> "text"], [length |-> 2, format |-> "text"],
                  [length |-> 2, format |-> "avro"]>>,
    Ranges <- {<<-1, -1>>, <<0, 0>>, <<1, -1>>, <<-1, 1>>, <<2, 1>>, <<1, 5>>},
    Conditions <- {"none", "match", "nonematch"}, Validators <- {"version", "strong", "weak"},
    MaxObject <- 2, QuotaBytes <- 5, FrameBytes <- 1, Overhead <- 1, MaxFaults <- 1

\* Two operations on one table: two snapshots that share a manifest and a deleted
\* entry, a manifest whose file is gone, and one with delete files.
File(n) == <<"path", n>>
Entry(value, n, deleted, content) ==
    [file |-> File(n), value |-> value, deleted |-> deleted, content |-> content, format |-> "avro",
     inside |-> TRUE, stats |-> TRUE]
Listed(n) == [manifest |-> <<"manifest", n>>, bounds |-> TRUE]
Snapshot(id, n) == [id |-> id, list |-> <<"list", n>>, bounds |-> TRUE]
Document(snapshots, current) ==
    [snapshots |-> snapshots, current |-> current, branch |-> current, log |-> <<>>]
Table(second, stored) ==
    [objects |-> [f \in {File(n) : n \in stored} |-> [value |-> IF f = File(1) THEN "x" ELSE "y", depth |-> 0]]
                 @@ (<<"manifest", 1>> :> <<Entry("x", 1, FALSE, "data")>>)
                 @@ (<<"manifest", 2>> :> second)
                 @@ (<<"list", 1>> :> <<Listed(1)>>)
                 @@ (<<"list", 2>> :> <<Listed(1), Listed(2)>>)
                 @@ (<<"doc", 1, "t0">> :> Document(<<Snapshot("s1", 1), Snapshot("s2", 2)>>, "s2")),
     hint |-> 1]
IcebergTables ==
    {Table(<<Entry("y", 2, FALSE, "data"), Entry("y", 4, TRUE, "data")>>, {1, 2}),
     Table(<<Entry("y", 5, FALSE, "data")>>, {1}),
     Table(<<Entry("y", 2, FALSE, "deletes")>>, {1, 2})}

Iceberg == INSTANCE IcebergTable WITH
    objects <- x1, hint <- x2, op <- x3, faults <- x4,
    Tables <- IcebergTables, Missing <- {File(5)}, Operations <- {"a", "b"}, Names <- {"m"},
    Kinds <- {"put", "read", "multipart"}, Targets <- {"root", "unit", "plain"},
    Backends <- {"direct", "managed"}, Gates <- BOOLEAN, Codec <- TRUE, Idempotent <- FALSE,
    MaxVersion <- 3, MaxFaults <- 1

\* Two callers page with cursors while the namespace may be fenced twice.
Cursors == INSTANCE ListCursors WITH
    repo <- x1, fence <- x2, drawn <- x3, purging <- x4, cursors <- x5, next <- x6, call <- x7,
    Repos <- {"postgres", "memory"}, Callers <- {w1, w2}, MaxIds <- 3, Pages <- {"p", "q"},
    CursorLimit <- 2, MaxFence <- 1

\* Keys with a common prefix below a delimiter; the letter 1 is the delimiter.
ListedKeys == {<<2>>, <<2, 1, 2>>, <<2, 1, 3>>, <<3>>}
ListQueries ==
    {[prefix |-> p, delimiter |-> d, max |-> m, v2 |-> v] :
       p \in {<<>>, <<2>>}, d \in {<<>>, <<1>>}, m \in {1, 2}, v \in BOOLEAN}

Lists == INSTANCE Listing WITH
    source <- x1, present <- x2, fenced <- x3, process <- x4, walk <- x5, changes <- x6,
    Sources <- {"memory", "file", "postgres", "ledger", "s3", "uploads", "parts", "placement", "rebalance"},
    Keys <- ListedKeys, UploadIds <- {1, 2}, Queries <- ListQueries, Walkers <- {w1}, MaxChanges <- 1,
    NoKey <- NoPosition

\* A batch of up to two keys, cut anywhere, on every kind of storage.
Batch == INSTANCE BatchDelete WITH
    read <- x1, parser <- x2, phase <- x3, backend <- x4, outcomes <- x5, failure <- x6, grants <- x7,
    effects <- x8, entries <- x9, faults <- x10,
    Texts <- {"k1"}, MaxTokens <- 14, MaxRun <- 1, MaxSpace <- 0, MaxKeys <- 2,
    Backends <- {"presigned", "s3", "observe", "off", "enforce", "file", "memory"}, MaxFaults <- 2

-----------------------------------------------------------------------------
\* The slots a component with n variables does not use.
Blank8 == x9 = 0 /\ x10 = 0
Blank7 == x8 = 0 /\ Blank8
Blank6 == x7 = 0 /\ Blank7
Blank4 == x5 = 0 /\ x6 = 0 /\ Blank6

rest8 == <<part, x9, x10>>
rest7 == <<x8, rest8>>
rest6 == <<x7, rest7>>
rest4 == <<x5, x6, rest6>>

FormatsInit ==
    \/ part = "run" /\ Run!RunInit
    \/ part = "decoder" /\ Decoder!DecoderInit /\ Blank6
    \/ part = "pump" /\ Pump!PumpInit /\ Blank4
    \/ part = "streams" /\ Streams!StreamsInit /\ Blank8
    \/ part = "iceberg" /\ Iceberg!IcebergInit /\ Blank4
    \/ part = "cursors" /\ Cursors!CursorInit /\ Blank7
    \/ part = "lists" /\ Lists!ListingInit /\ Blank6
    \/ part = "batch" /\ Batch!BatchInit

FormatsNext ==
    \/ part = "run" /\ Run!RunNext /\ UNCHANGED part
    \/ part = "decoder" /\ Decoder!DecoderNext /\ UNCHANGED rest6
    \/ part = "pump" /\ Pump!PumpNext /\ UNCHANGED rest4
    \/ part = "streams" /\ Streams!StreamsNext /\ UNCHANGED rest8
    \/ part = "iceberg" /\ Iceberg!IcebergNext /\ UNCHANGED rest4
    \/ part = "cursors" /\ Cursors!CursorNext /\ UNCHANGED rest7
    \/ part = "lists" /\ Lists!ListingNext /\ UNCHANGED rest6
    \/ part = "batch" /\ Batch!BatchNext /\ UNCHANGED part

FormatsSpec == FormatsInit /\ [][FormatsNext]_allVars

-----------------------------------------------------------------------------
(* Properties of the components                                            *)

\* A run stays inside its fuel, byte and record limits and puts out what its guests returned, in
\* order (pipeline.rs); the records of a source do not depend on how it was cut into chunks and
\* parts (record.rs); no protected value reaches a stored container in clear (binary_pump.rs).
TransformExact ==
    /\ part = "run" => Run!RunExact
    /\ part = "decoder" => Decoder!ChunkFree
    /\ part = "pump" => Pump!StoredProtected

\* A read serves bytes of one version, the range it announced or an error, while the object is
\* overwritten underneath it, and the spool counts exactly the files it holds
\* (server/s3_objects.rs, read_spool.rs).
ReadFaithful == part = "streams" => Streams!ReadFaithful /\ Streams!SpoolBalanced

\* No reader finds a half-transformed table, however operations interleave or fail
\* (iceberg/walker.rs).
TableWhole == part = "iceberg" => Iceberg!TableWhole

\* Walking a listing page by page yields every key that was there throughout, none twice
\* (s3_objects.rs, service_storage/core.rs), and concurrent uses of one cursor converge on the
\* same successor page (managed/listing.rs).
PagesExact ==
    /\ part = "lists" => Lists!PagesComplete
    /\ part = "cursors" => Cursors!SuccessorsExact

\* Every key of a batch is answered once, deleted or failed as it really was, and its usage grant
\* is recorded, released or kept accordingly (server/s3_batch_delete.rs).
BatchExact == part = "batch" => Batch!BatchExact
=============================================================================
