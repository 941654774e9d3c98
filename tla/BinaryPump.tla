----------------------------- MODULE BinaryPump -----------------------------
(***************************************************************************)
(* The schema-aware binary pipeline: an Avro container is decoded into the *)
(* bounded IR (avro.rs, binary_ir.rs), each record is reduced, transformed *)
(* and restored (binary_pump.rs), by the built-in common-type reductor or  *)
(* by a sandboxed guest (binary_reductor.rs of the gateway and of the wasm *)
(* runtime), and a new container is written only when every record passed. *)
(*                                                                         *)
(* A schema is a tree of [nullable, kind, id, kids]: kids is the sequence  *)
(* of [seg, node] a node owns, seg being the path segment that leads there *)
(* ("items", "values", "logical" or a field's name), id a custom type's    *)
(* name.  A value is [kind, id, at, kids]: id a custom type's name or the  *)
(* payload of a string, at the instant of a timestamp, kids a sequence of  *)
(* [seg, key, node] (key: a map entry's).  All scalars without structure   *)
(* of their own are one kind.  The guest is arbitrary: it may answer any   *)
(* claims, any schema near the one it was given and any value.             *)
(***************************************************************************)
EXTENDS Integers, Sequences, FiniteSets, SequencesExt

CONSTANTS
    Containers,     \* [schema, rows]: Avro containers a client may put
    TargetLists,    \* lists of paths x-maskura-encrypt-fields may name
    Reductors,      \* subset of {"common", "wasm"}
    TypeIds,        \* custom type names a guest may claim
    MaxFields,      \* BinaryIrLimits.max_fields
    MaxDepth,       \* BinaryIrLimits.max_nesting_depth
    Width,          \* bits of an i64 instant
    Calendar        \* instants (microseconds) from year 0001 to 9999

VARIABLES
    source,     \* the container being processed, with the request's targets
    phase,      \* "idle" | "open" | "planned" | "stored" | "rejected"
    plans,      \* BinaryPump.plans
    written     \* the records appended to the output container

pumpVars == <<source, phase, plans, written>>

-----------------------------------------------------------------------------
(* The IR.                                                                 *)

Scalar == {"null", "string", "scalar", "timestamp"}
Node(kind, nullable, kids) ==
    [nullable |-> nullable, kind |-> kind, id |-> "", kids |-> kids]
Leaf(kind) == Node(kind, FALSE, <<>>)

Null == [kind |-> "null", id |-> "", at |-> 0, kids |-> <<>>]
Text(id) == [kind |-> "string", id |-> id, at |-> 0, kids |-> <<>>]

IsPathPrefix(p, q) == IsPrefix(p, q)

RECURSIVE NodePaths(_), NodeAt(_, _), Put(_, _, _), FieldCount(_), Depth(_)

(* SchemaNode::visit_paths: every path of a schema. *)
NodePaths(n) ==
    {<<>>} \cup UNION {{<<n.kids[i].seg>> \o p : p \in NodePaths(n.kids[i].node)} :
                       i \in DOMAIN n.kids}

NodeAt(n, path) ==
    IF path = <<>> THEN n
    ELSE NodeAt(n.kids[CHOOSE i \in DOMAIN n.kids : n.kids[i].seg = Head(path)].node,
                Tail(path))

Put(n, path, new) ==
    IF path = <<>> THEN new
    ELSE [n EXCEPT !.kids = [i \in DOMAIN n.kids |->
            IF n.kids[i].seg = Head(path)
            THEN [n.kids[i] EXCEPT !.node = Put(@, Tail(path), new)] ELSE n.kids[i]]]

FieldCount(n) ==
    LET sum[i \in 0..Len(n.kids)] ==
            IF i = 0 THEN IF n.kind = "record" THEN Len(n.kids) ELSE 0
            ELSE sum[i - 1] + FieldCount(n.kids[i].node)
    IN  sum[Len(n.kids)]

Depth(n) ==
    IF n.kids = <<>> THEN 0
    ELSE 1 + CHOOSE d \in {Depth(n.kids[i].node) : i \in DOMAIN n.kids} :
                \A i \in DOMAIN n.kids : Depth(n.kids[i].node) <= d

(* SchemaNode::validate_inner over the whole tree. *)
ValidSchema(n) ==
    /\ Depth(n) <= MaxDepth
    /\ FieldCount(n) <= MaxFields
    /\ \A p \in NodePaths(n) :
        LET m == NodeAt(n, p) IN
        /\ ~(m.nullable /\ m.kind = "null")
        /\ m.kind = "record" => \A i, j \in DOMAIN m.kids :
                                    m.kids[i].seg = m.kids[j].seg => i = j
        /\ m.kind = "custom" => m.id # ""

RECURSIVE ValidValue(_, _)

(* ValueIr::validate: Value::validate_inner (map keys, calendar range of   *)
(* an instant), then validate_value_against_schema.                        *)
ValidValue(v, n) ==
    IF v.kind = "null" THEN n.nullable \/ n.kind = "null"
    ELSE /\ v.kind = n.kind
         /\ v.kind = "timestamp" => v.at \in Calendar
         /\ v.kind = "custom" => v.id = n.id
         /\ IF v.kind = "record"
            THEN /\ Len(v.kids) = Len(n.kids)
                 /\ \A i \in DOMAIN v.kids :
                        /\ v.kids[i].seg = n.kids[i].seg
                        /\ ValidValue(v.kids[i].node, n.kids[i].node)
            ELSE /\ v.kind = "map" => \A i, j \in DOMAIN v.kids :
                                          i < j => v.kids[i].key < v.kids[j].key
                 /\ \A i \in DOMAIN v.kids :
                        ValidValue(v.kids[i].node, n.kids[1].node)

RECURSIVE Matches(_, _)

(* Value::visit_claim_matches: the values a schema path selects. *)
Matches(v, path) ==
    IF path = <<>> THEN {v}
    ELSE UNION {Matches(v.kids[i].node, Tail(path)) :
                i \in {j \in DOMAIN v.kids : v.kids[j].seg = Head(path)}}

-----------------------------------------------------------------------------
(* The envelope transform of binary_pump.rs.                               *)

(* envelope_schema: five required strings. *)
EnvelopeFields == <<"alg", "iv", "enc_dek", "ct", "tag">>
EnvelopeSchema(nullable) ==
    Node("record", nullable, [i \in 1..5 |->
            [seg |-> EnvelopeFields[i], node |-> Leaf("string")]])

(* encrypt_string: the ciphertext names no payload. *)
EncryptString ==
    [kind |-> "record", id |-> "", at |-> 0,
     kids |-> [i \in 1..5 |-> [seg |-> EnvelopeFields[i], key |-> 0, node |-> Text("sealed")]]]
Redacted == Text("[REDACTED]")

(* canonicalize_targets, after parse_envelope_targets: no target is the    *)
(* root and none lies on or inside another.                                *)
CanonicalTargets(targets) ==
    /\ \A i \in DOMAIN targets : targets[i] # <<>>
    /\ \A i, j \in DOMAIN targets : i # j => ~IsPathPrefix(targets[i], targets[j])

(* replace_schema_at_path succeeds. *)
Replaceable(n, target) ==
    target \in NodePaths(n) /\ NodeAt(n, target).kind = "string"

(* EnvelopeBinaryTransform::output_schema; NoSchema when it refuses. *)
NoSchema == Node("none", FALSE, <<>>)
OutputSchema(n, targets, key) ==
    LET replaced[i \in 0..Len(targets)] ==
            IF i = 0 THEN n
            ELSE LET m == replaced[i - 1] IN
                 IF m = NoSchema \/ ~Replaceable(m, targets[i]) THEN NoSchema
                 ELSE Put(m, targets[i], EnvelopeSchema(NodeAt(m, targets[i]).nullable))
    IN  IF ~key THEN n ELSE replaced[Len(targets)]

(* transform_values_at_path refuses a null or a missing field on the way   *)
(* to its target, so one null parent rejects the whole object.             *)
RECURSIVE Reaches(_, _), Seal(_, _, _)
Reaches(v, path) ==
    IF path = <<>> THEN v.kind \in {"string", "null"}
    ELSE /\ v.kind \in {"array", "map", "record", "custom"}
         /\ v.kind \in {"record", "custom"} =>
                \E i \in DOMAIN v.kids : v.kids[i].seg = Head(path)
         /\ \A i \in DOMAIN v.kids :
                v.kids[i].seg = Head(path) => Reaches(v.kids[i].node, Tail(path))

(* Without a key there is nothing to encrypt with, so nothing is done. *)
MutSeal(v, path, key) ==
    IF ~key THEN v
    ELSE IF path = <<>> THEN IF v.kind = "null" THEN v ELSE EncryptString
    ELSE [v EXCEPT !.kids = [i \in DOMAIN v.kids |->
            IF v.kids[i].seg = Head(path)
            THEN [v.kids[i] EXCEPT !.node = Seal(@, Tail(path), key)] ELSE v.kids[i]]]

Seal(v, path, key) ==
    IF path = <<>> THEN IF v.kind = "null" THEN v
                        ELSE IF key THEN EncryptString ELSE Redacted
    ELSE [v EXCEPT !.kids = [i \in DOMAIN v.kids |->
            IF v.kids[i].seg = Head(path)
            THEN [v.kids[i] EXCEPT !.node = Seal(@, Tail(path), key)] ELSE v.kids[i]]]

(* EnvelopeBinaryTransform::transform. *)
Transformable(v, n, targets) ==
    \A i \in DOMAIN targets : Replaceable(n, targets[i]) /\ Reaches(v, targets[i])
Transform(v, targets, key) ==
    LET sealed[i \in 0..Len(targets)] ==
            IF i = 0 THEN v ELSE Seal(sealed[i - 1], targets[i], key)
    IN  sealed[Len(targets)]

-----------------------------------------------------------------------------
(* Reductors.                                                              *)

(* canonicalize_claims. *)
CanonicalClaims(claims) ==
    \A c, d \in claims : c # d => ~IsPathPrefix(c.path, d.path)

(* The runtime's validate_claims, on what left the sandbox. *)
ValidateClaims(claims) ==
    /\ \A c \in claims : c.type # "" /\ Len(c.path) <= MaxDepth
    /\ CanonicalClaims(claims)

(* validate_claims_against_schema. *)
ClaimsFit(n, claims) ==
    \A c \in claims :
        /\ c.path \in NodePaths(n)
        /\ LET m == NodeAt(n, c.path) IN
           m.kind = "record" \/ (m.kind = "custom" /\ m.id = c.type)

Claimed(path, claims) == \E c \in claims : IsPathPrefix(c.path, path)

(* reject_unclaimed_custom_nodes, with the coverage of the common plan. *)
NoCustom(n) == \A p \in NodePaths(n) : NodeAt(n, p).kind # "custom"

(* ensure_node_changes_are_claimed, from path down. *)
RECURSIVE ChangesClaimed(_, _, _, _)
ChangesClaimed(n, m, claims, path) ==
    \/ Claimed(path, claims)
    \/ /\ n.nullable = m.nullable
       /\ n.kind = m.kind
       /\ n.id = m.id
       /\ Len(n.kids) = Len(m.kids)
       /\ \A i \in DOMAIN n.kids :
            /\ n.kids[i].seg = m.kids[i].seg
            /\ ChangesClaimed(n.kids[i].node, m.kids[i].node, claims, path \o <<n.kids[i].seg>>)

(* What a guest may answer for a schema: it, or it with one node replaced. *)
GuestSchemas(n) ==
    {n} \cup {Put(n, p, m) : p \in NodePaths(n), m \in {Leaf("string"), Leaf("scalar")}}

(* What a guest may answer for a value: any value near the one it got, so  *)
(* also what it kept of an earlier call.                                   *)
GuestValues(v) == {v, Null, Text("kept")} \cup
    {[v EXCEPT !.kids[i].node = w] :
        i \in DOMAIN v.kids, w \in {Null, Text("kept"), EncryptString}}

(* The guest's four calls.  Each may also fail: a trap, exhausted fuel or  *)
(* an answer over a byte limit ends the object.                            *)
GuestPlan(n) ==
    {claims \in SUBSET [path : NodePaths(n), type : TypeIds] : Cardinality(claims) <= 1}
        \X GuestSchemas(n)
GuestPlanRestore(n) == GuestSchemas(n)
GuestReduce(v) == GuestValues(v)
GuestRestore(v) == GuestValues(v)

(* BinaryReductor::plan then plan_restore, of both reductors: the possible *)
(* plans for a source schema under the request's targets and key.          *)
CommonPlans(n, targets, key) ==
    LET out == OutputSchema(n, targets, key) IN
    IF NoCustom(n) /\ out # NoSchema /\ ValidSchema(out) /\ NoCustom(out)
    THEN {[claims |-> {}, reduced |-> n, transformed |-> out, output |-> out]} ELSE {}

WasmPlans(n, targets, key) ==
    UNION {{[claims |-> claims, reduced |-> reduced,
             transformed |-> OutputSchema(reduced, targets, key), output |-> output] :
              output \in {m \in GuestPlanRestore(OutputSchema(reduced, targets, key)) :
                  /\ OutputSchema(reduced, targets, key) # NoSchema
                  /\ ValidSchema(OutputSchema(reduced, targets, key))
                  /\ ValidSchema(m)
                  /\ ChangesClaimed(OutputSchema(reduced, targets, key), m, claims, <<>>)}} :
           <<claims, reduced>> \in
              {pair \in GuestPlan(n) :
                  /\ ValidateClaims(pair[1])
                  /\ CanonicalClaims(pair[1])
                  /\ ClaimsFit(n, pair[1])
                  /\ ValidSchema(pair[2])
                  /\ ChangesClaimed(n, pair[2], pair[1], <<>>)}}

-----------------------------------------------------------------------------
(* Avro.  An Avro schema is such a tree with Avro's kinds.                 *)

TimestampUnit == [k \in {"timestamp-millis", "timestamp-micros", "timestamp-nanos"} |->
    CASE k = "timestamp-millis" -> 1000 [] k = "timestamp-micros" -> 1 [] OTHER -> 0]

Wrapped(x) == ((x + 2 ^ (Width - 1)) % (2 ^ Width)) - 2 ^ (Width - 1)

(* schema_node_from_json: unions other than a nullable one, enums, fixed   *)
(* and references to a named record are refused.                           *)
RECURSIVE Supported(_), FromAvro(_), ToIr(_, _)
Supported(a) ==
    /\ a.kind \in {"null", "string", "scalar", "record", "array", "map"} \cup DOMAIN TimestampUnit
    /\ ~(a.nullable /\ a.kind = "null")
    /\ \A i \in DOMAIN a.kids : Supported(a.kids[i].node)

FromAvro(a) ==
    [a EXCEPT !.kind = IF @ \in DOMAIN TimestampUnit THEN "timestamp" ELSE @,
              !.kids = [i \in DOMAIN a.kids |->
                  [seg |-> a.kids[i].seg, node |-> FromAvro(a.kids[i].node)]]]

(* avro_value_to_ir: milliseconds become microseconds in 64 bits, and a    *)
(* nanosecond instant loses what the written microseconds cannot say.      *)
ToIr(v, a) ==
    IF v.kind = "null" THEN v
    ELSE IF a.kind \in DOMAIN TimestampUnit
    THEN [v EXCEPT !.at = CASE a.kind = "timestamp-millis" -> Wrapped(@ * 1000)
                            [] a.kind = "timestamp-micros" -> @
                            [] OTHER -> @ \div 1000]
    ELSE [v EXCEPT !.kids = [i \in DOMAIN v.kids |->
            [v.kids[i] EXCEPT !.node =
                ToIr(@, IF a.kind = "record" THEN a.kids[i].node ELSE a.kids[1].node)]]]

-----------------------------------------------------------------------------
(* process_ocf.                                                            *)

Idle == [schema |-> NoSchema, rows |-> <<>>, targets |-> <<>>, key |-> FALSE,
         reductor |-> "common"]
NoPlans == [claims |-> {}, reduced |-> NoSchema, transformed |-> NoSchema, output |-> NoSchema]

PumpInit ==
    /\ source = Idle
    /\ phase = "idle"
    /\ plans = NoPlans
    /\ written = <<>>

(* avro_pump (and lance_pump): the pump of a request. *)
AvroPump ==
    /\ phase = "idle"
    /\ \E c \in Containers, targets \in TargetLists, key \in BOOLEAN, r \in Reductors :
        /\ source' = [schema |-> c.schema, rows |-> c.rows, targets |-> targets,
                      key |-> key, reductor |-> r]
        /\ phase' = IF CanonicalTargets(targets) THEN "open" ELSE "rejected"
    /\ UNCHANGED <<plans, written>>

(* BinaryPump::plan on the writer's schema. *)
Plan ==
    /\ phase = "open"
    /\ LET ir == FromAvro(source.schema)
           possible == IF ~Supported(source.schema) \/ ~ValidSchema(ir) THEN {}
                       ELSE IF source.reductor = "common"
                       THEN CommonPlans(ir, source.targets, source.key)
                       ELSE WasmPlans(ir, source.targets, source.key)
       IN  \/ /\ \E p \in possible : NoCustom(p.output) /\ plans' = p
              /\ phase' = "planned"
           \/ /\ possible = {} \/ source.reductor = "wasm"
              /\ phase' = "rejected"
              /\ UNCHANGED plans
    /\ UNCHANGED <<source, written>>

(* BinaryPump::process of the next record: what may be appended. *)
Results(v) ==
    LET ir == FromAvro(source.schema)
        reductions == IF source.reductor = "common" THEN {v} ELSE GuestReduce(v)
        restored(t) == IF source.reductor = "common" THEN {t} ELSE GuestRestore(t)
    IN  IF ~ValidValue(v, ir) THEN {}
        ELSE UNION {{w \in restored(Transform(r, source.targets, source.key)) :
                        ValidValue(w, plans.output)} :
                    r \in {x \in reductions :
                        /\ ValidValue(x, plans.reduced)
                        /\ Transformable(x, plans.reduced, source.targets)
                        /\ ValidValue(Transform(x, source.targets, source.key),
                                      plans.transformed)}}

Process ==
    /\ phase = "planned"
    /\ Len(written) < Len(source.rows)
    /\ LET results == Results(ToIr(source.rows[Len(written) + 1], source.schema)) IN
       \/ /\ \E w \in results : written' = Append(written, w)
          /\ UNCHANGED phase
       \/ /\ results = {} \/ source.reductor = "wasm"
          /\ phase' = "rejected"
          /\ UNCHANGED written
    /\ UNCHANGED <<source, plans>>

(* Writer::into_inner: the container exists only now. *)
Finish ==
    /\ phase = "planned"
    /\ Len(written) = Len(source.rows)
    /\ phase' = "stored"
    /\ UNCHANGED <<source, plans, written>>

NextObject ==
    /\ phase \in {"stored", "rejected"}
    /\ source' = Idle
    /\ phase' = "idle"
    /\ plans' = NoPlans
    /\ written' = <<>>

PumpNext == AvroPump \/ Plan \/ Process \/ Finish \/ NextObject

PumpSpec == PumpInit /\ [][PumpNext]_pumpVars

-----------------------------------------------------------------------------
(* What the pump promises.                                                 *)

RECURSIVE SameElsewhere(_, _, _, _)
SameElsewhere(v, w, path, targets) ==
    \/ \E i \in DOMAIN targets : targets[i] = path
    \/ /\ v.kind = w.kind
       /\ v.id = w.id
       /\ v.at = w.at
       /\ Len(v.kids) = Len(w.kids)
       /\ \A i \in DOMAIN v.kids :
            /\ v.kids[i].seg = w.kids[i].seg
            /\ v.kids[i].key = w.kids[i].key
            /\ SameElsewhere(v.kids[i].node, w.kids[i].node,
                             path \o <<v.kids[i].seg>>, targets)

(* A stored container holds no string the request asked to protect: with a *)
(* key every value a target selects outside the guest's claims is an       *)
(* envelope or null; with the built-in reductor it is an envelope, the     *)
(* redaction or null, and everything no target selects is exactly what was *)
(* decoded.  A guest changes the schema only where it claimed.             *)
StoredProtected ==
    phase = "stored" =>
        /\ ValidSchema(plans.output)
        /\ \A p \in NodePaths(FromAvro(source.schema)) :
              \/ Claimed(p, plans.claims)
              \/ \E i \in DOMAIN source.targets : IsPathPrefix(source.targets[i], p)
              \/ /\ p \in NodePaths(plans.output)
                 /\ NodeAt(plans.output, p).kind = NodeAt(FromAvro(source.schema), p).kind
        /\ \A r \in DOMAIN written :
            /\ ValidValue(written[r], plans.output)
            /\ \A i \in DOMAIN source.targets :
                \A w \in Matches(written[r], source.targets[i]) :
                    \/ w.kind = "null"
                    \/ Claimed(source.targets[i], plans.claims)
                    \/ source.key /\ w.kind = "record"
                    \/ ~source.key /\ (source.reductor = "common" => w = Redacted)
            /\ source.reductor = "common" =>
                SameElsewhere(ToIr(source.rows[r], source.schema), written[r], <<>>,
                              source.targets)

=============================================================================
