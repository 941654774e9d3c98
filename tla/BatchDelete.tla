---------------------------- MODULE BatchDelete ----------------------------
(***************************************************************************)
(* Multi-object delete (server/s3_batch_delete.rs): the strict parser of   *)
(* the request document, and the loop that runs the gated single-key       *)
(* delete for every key of it.  A client that goes away drops the handler  *)
(* at any await; control plane and storage may fail at every call, the     *)
(* storage with the delete done or not.                                    *)
(*                                                                         *)
(* The body is read token by token: "D", "O", "K", "Q" open Delete,        *)
(* Object, Key and Quiet, "/D", "/O", "/K", "/Q" close them, "pi" is an    *)
(* XML declaration, "ws" white space, "true" and "false" and the members   *)
(* of Texts character data, and "other" anything the grammar prohibits (a  *)
(* DTD, a comment, CDATA, a self-closing element, an attribute).  The name *)
(* of a key is the sequence of the text tokens inside its element.         *)
(***************************************************************************)
EXTENDS Integers, Sequences, FiniteSets

CONSTANTS
    Texts,          \* character data of keys
    MaxTokens,      \* MAX_DELETE_OBJECTS_XML_BYTES, in tokens
    MaxRun,         \* bound on the text tokens between two tags
    MaxSpace,       \* bound on white space tokens and declarations of a body
    MaxKeys,        \* MAX_DELETE_OBJECTS_KEYS
    Backends,       \* subset of {"presigned", "s3", "observe", "off",
                    \*            "enforce", "file", "memory"}
    MaxFaults       \* bound on failing calls

Text == Texts \cup {"ws", "true", "false"}
Tokens == Text \cup {"D", "O", "K", "Q", "/D", "/O", "/K", "/Q", "pi", "other"}

VARIABLES
    read,       \* the tokens of the body so far
    parser,     \* [stack, keys, quiet, key, text, started, closed]
    phase,      \* "parsing" | "authorize" | "delete" | "record" | "release"
                \* | "answered" | "refused" | "dropped"
    backend,    \* what resolve_backend answers
    outcomes,   \* per key done: "Deleted" or the failure
    failure,    \* of the key under way
    grants,     \* per key so far: "open" | "released" | "recorded" | "none"
    effects,    \* per key so far: was the object deleted under this grant?
    entries,    \* the answer: [key, result]
    faults

batchVars == <<read, parser, phase, backend, outcomes, failure, grants, effects, entries, faults>>
answer == <<outcomes, failure, grants, effects>>

None == <<"none">>

BatchInit ==
    /\ read = <<>>
    /\ parser = [stack |-> <<>>, keys |-> <<>>, quiet |-> "unset", key |-> None, text |-> <<>>,
                 started |-> FALSE, closed |-> FALSE]
    /\ phase = "parsing"
    /\ backend = "unresolved"
    /\ outcomes = <<>> /\ failure = "" /\ grants = <<>> /\ effects = <<>>
    /\ entries = <<>>
    /\ faults = 0

-----------------------------------------------------------------------------
(* parse_delete_objects_xml.                                               *)

Top == IF parser.stack = <<>> THEN "" ELSE parser.stack[Len(parser.stack)]
Push(name) == Append(parser.stack, name)
Pop == SubSeq(parser.stack, 1, Len(parser.stack) - 1)

(* Character data: verbatim in Key, trimmed in Quiet, only white space     *)
(* elsewhere.                                                              *)
TakeText(t) ==
    CASE Top = "K" -> {[parser EXCEPT !.key = Append(@, t)]}
      [] Top = "Q" -> {[parser EXCEPT !.text = IF t = "ws" THEN @ ELSE Append(@, t)]}
      [] OTHER -> IF t = "ws" /\ ~parser.closed THEN {parser} ELSE {}

(* An opening tag, by depth and enclosing element. *)
OpenTag(name) ==
    IF parser.closed THEN {}
    ELSE IF name = "D" /\ parser.stack = <<>> /\ ~parser.started
         THEN {[parser EXCEPT !.started = TRUE, !.stack = Push(name)]}
    ELSE IF name = "O" /\ parser.stack = <<"D">>
         THEN {[parser EXCEPT !.key = None, !.text = <<>>, !.stack = Push(name)]}
    ELSE IF name = "Q" /\ parser.stack = <<"D">>
         THEN {[parser EXCEPT !.key = None, !.text = <<>>, !.stack = Push(name)]}
    ELSE IF name = "K" /\ parser.stack = <<"D", "O">> /\ parser.key = None
         THEN {[parser EXCEPT !.key = <<>>, !.stack = Push(name)]}
    ELSE {}

CloseObject ==
    IF parser.key = None \/ Len(parser.keys) >= MaxKeys THEN {}
    ELSE {[parser EXCEPT !.stack = Pop, !.key = None, !.keys = Append(@, parser.key)]}

CloseQuiet ==
    IF parser.quiet # "unset" \/ parser.text \notin {<<"true">>, <<"false">>} THEN {}
    ELSE {[parser EXCEPT !.stack = Pop, !.quiet = parser.text[1], !.text = <<>>]}

(* A closing tag must match the innermost open element. *)
CloseTag(name) ==
    CASE parser.closed \/ Top # name -> {}
      [] name = "O" -> CloseObject
      [] name = "Q" -> CloseQuiet
      [] name = "D" -> {[parser EXCEPT !.stack = Pop, !.closed = TRUE]}
      [] OTHER -> {[parser EXCEPT !.stack = Pop]}

Opens == [D |-> "D", O |-> "O", K |-> "K", Q |-> "Q"]
Closing == {"/D", "/O", "/K", "/Q"}
Closes(t) == CHOOSE n \in DOMAIN Opens : t = CASE n = "D" -> "/D" [] n = "O" -> "/O"
                                                [] n = "K" -> "/K" [] OTHER -> "/Q"

(* What the parser makes of the next token: one state, or none (refused). *)
Parse(t) ==
    CASE t \in Text -> TakeText(t)
      [] t \in DOMAIN Opens -> OpenTag(t)
      [] t \in Closing -> CloseTag(Closes(t))
      [] t = "pi" -> IF parser.closed \/ parser.started THEN {} ELSE {parser}
      [] OTHER -> {}

Run(s) == IF \E i \in DOMAIN s : s[i] \notin Text
          THEN Len(s) - (CHOOSE i \in DOMAIN s : s[i] \notin Text
                                /\ \A j \in DOMAIN s : j > i => s[j] \in Text)
          ELSE Len(s)

Malformed ==
    /\ phase' = "refused"
    /\ UNCHANGED <<entries, answer, backend, faults>>

(* The client sends one more token. *)
ReadToken ==
    /\ phase = "parsing"
    /\ \E t \in Tokens :
        /\ t \in Text => Run(read) < MaxRun
        /\ t \in {"ws", "pi"} =>
              Cardinality({i \in DOMAIN read : read[i] \in {"ws", "pi"}}) < MaxSpace
        /\ read' = Append(read, t)
        /\ IF Len(read) >= MaxTokens \/ Parse(t) = {}
           THEN Malformed /\ UNCHANGED parser
           ELSE parser' \in Parse(t) /\ UNCHANGED <<phase, entries, answer, backend, faults>>

(* The body ends: every element closed and no key empty, or refused. *)
EndBody ==
    /\ phase = "parsing"
    /\ IF parser.closed /\ parser.stack = <<>> /\ \A i \in DOMAIN parser.keys : parser.keys[i] # <<>>
       THEN /\ phase' = IF parser.keys = <<>> THEN "answered" ELSE "authorize"
            /\ backend' \in Backends
            /\ UNCHANGED <<entries, answer, faults>>
       ELSE Malformed
    /\ UNCHANGED <<read, parser>>

-----------------------------------------------------------------------------
(* delete_object_key, for one key after another.                           *)

Fault == faults < MaxFaults /\ faults' = faults + 1

(* releases_grant: the failures that are known to come before any effect. *)
MutReleasesGrant(f) == f \in {"policy", "destination", "backend", "observe", "precommit", "transport"}

ReleasesGrant(f) == f \in {"policy", "destination", "backend", "observe", "precommit"}

(* The loop body's end: the outcome is filed, the next key begins or the   *)
(* envelope is rendered, without the deleted keys when Quiet is set.       *)
FileOutcome(result) ==
    LET all == Append(outcomes, result)
        shown == {i \in DOMAIN all : all[i] # "Deleted" \/ parser.quiet # "true"}
        ith(n) == CHOOSE i \in shown : Cardinality({j \in shown : j < i}) = n - 1
    IN  /\ outcomes' = all
        /\ failure' = ""
        /\ IF Len(all) < Len(parser.keys) THEN phase' = "authorize" /\ UNCHANGED entries
           ELSE /\ phase' = "answered"
                /\ entries' = [n \in 1..Cardinality(shown) |->
                                 [key |-> parser.keys[ith(n)], result |-> all[ith(n)]]]

(* authorize_delete_key: one reservation per key. *)
Authorize ==
    /\ phase = "authorize"
    /\ \/ /\ grants' = Append(grants, "open")
          /\ phase' = "delete"
          /\ UNCHANGED <<outcomes, failure, entries, faults>>
       \/ /\ Fault
          /\ \E why \in {"blocked", "unavailable", "invalid grant"} : FileOutcome(why)
          \* an unavailable or mismatching answer may leave a reservation
          /\ \E left \in {"none", "open"} : grants' = Append(grants, left)
    /\ effects' = Append(effects, FALSE)
    /\ UNCHANGED <<read, parser, backend>>

(* delete_authorized_object_key up to the storage call's answer. *)
Delete ==
    /\ phase = "delete"
    /\ LET n == Len(grants) IN
       \/ \* refused before the storage call
          /\ \/ backend = "observe" /\ failure' = "observe" /\ UNCHANGED faults
             \/ Fault /\ failure' \in {"policy", "backend"}
             \/ Fault /\ backend = "presigned" /\ failure' = "destination"
             \/ Fault /\ backend \in {"off", "enforce"} /\ failure' = "precommit"
          /\ phase' = "release"
          /\ UNCHANGED effects
       \/ \* the delete fails with an unknown outcome
          /\ backend \notin {"observe", "memory", "off"}
          /\ Fault
          /\ failure' = "transport"
          /\ \E done \in BOOLEAN : effects' = [effects EXCEPT ![n] = done]
          /\ phase' = "release"
       \/ \* it succeeds
          /\ backend # "observe"
          /\ effects' = [effects EXCEPT ![n] = TRUE]
          /\ phase' = "record"
          /\ UNCHANGED <<failure, faults>>
       \/ \* ServiceStorage::delete logs a failing backend and answers Ok
          /\ backend = "off"
          /\ Fault
          /\ phase' = "record"
          /\ UNCHANGED <<effects, failure>>
    /\ UNCHANGED <<read, parser, backend, outcomes, grants, entries>>

(* record_delete_usage. *)
RecordUsage ==
    /\ phase = "record"
    /\ \/ /\ grants' = [grants EXCEPT ![Len(grants)] = "recorded"]
          /\ FileOutcome("Deleted")
          /\ UNCHANGED faults
       \/ /\ Fault
          /\ failure' = "metering"
          /\ grants' \in {grants, [grants EXCEPT ![Len(grants)] = "recorded"]}
          /\ phase' = "release"
          /\ UNCHANGED <<outcomes, entries>>
    /\ UNCHANGED <<read, parser, backend, effects>>

(* release_failed_key: released exactly for those failures; a release that *)
(* does not answer replaces the failure.                                   *)
ReleaseFailedKey ==
    /\ phase = "release"
    /\ IF ReleasesGrant(failure)
       THEN \/ /\ grants' = [grants EXCEPT ![Len(grants)] = "released"]
               /\ FileOutcome(failure)
               /\ UNCHANGED faults
            \/ /\ Fault
               /\ FileOutcome("release unavailable")
               /\ grants' \in {grants, [grants EXCEPT ![Len(grants)] = "released"]}
       ELSE FileOutcome(failure) /\ UNCHANGED <<grants, faults>>
    /\ UNCHANGED <<read, parser, backend, effects>>

(* The client goes away: the handler is dropped at its await. *)
Disconnect ==
    /\ phase \notin {"parsing", "answered", "refused", "dropped"}
    /\ Fault
    /\ phase' = "dropped"
    /\ UNCHANGED <<read, parser, backend, answer, entries>>

BatchNext ==
    \/ ReadToken \/ EndBody
    \/ Authorize \/ Delete \/ RecordUsage \/ ReleaseFailedKey
    \/ Disconnect

BatchSpec == BatchInit /\ [][BatchNext]_batchVars

-----------------------------------------------------------------------------
(* The documents the grammar allows, white space outside Key and Quiet     *)
(* left out: a reference for the parser.                                   *)

Names == UNION {[1..n -> Text] : n \in 1..MaxRun}
ObjectDocs == {<<"O", "K">> \o name \o <<"/K", "/O">> : name \in Names}
QuietDocs == {<<"Q", v, "/Q">> : v \in {"true", "false"}}
Bodies ==
    LET n[i \in 0..MaxKeys] == IF i = 0 THEN {<<>>}
                               ELSE {a \o b : a \in n[i - 1], b \in ObjectDocs}
        plain == UNION {n[i] : i \in 0..MaxKeys}
    IN  plain \cup UNION {{n1 \o q \o n2 : n1 \in n[i], q \in QuietDocs, n2 \in n[j]}
                          : <<i, j>> \in {p \in (0..MaxKeys) \X (0..MaxKeys) : p[1] + p[2] <= MaxKeys}}

(* The body without declarations and the white space that means nothing. *)
Significant(body) ==
    LET inKey(i) == \E j \in 1..i : body[j] = "K" /\ \A k \in j..i : body[k] # "/K"
        kept == {i \in DOMAIN body : body[i] # "pi" /\ (body[i] # "ws" \/ inKey(i))}
        ith(n) == CHOOSE i \in kept : Cardinality({j \in kept : j < i}) = n - 1
    IN  [n \in 1..Cardinality(kept) |-> body[ith(n)]]

(* The document is declarations, <Delete>, a body of the grammar,          *)
(* </Delete>, and nothing behind it: not even the white space XML allows.  *)
InGrammar(body) ==
    LET s == Significant(body)
        D == {i \in DOMAIN s : s[i] \in {"D", "/D"}}
    IN  /\ Len(body) <= MaxTokens
        /\ \A i, j \in DOMAIN body : body[i] = "pi" /\ body[j] = "D" => i < j
        /\ Len(s) >= 2 /\ body[Len(body)] = "/D"
        /\ s[1] = "D" /\ s[Len(s)] = "/D" /\ D = {1, Len(s)}
        /\ SubSeq(s, 2, Len(s) - 1) \in Bodies

(* The keys of a document in the order they are written. *)
KeysOf(body) ==
    LET starts == {i \in DOMAIN body : body[i] = "K"}
        ith(n) == CHOOSE i \in starts : Cardinality({j \in starts : j < i}) = n - 1
        end(i) == CHOOSE k \in DOMAIN body : k > i /\ body[k] = "/K"
                                              /\ \A m \in (i + 1)..(k - 1) : body[m] # "/K"
    IN  [n \in 1..Cardinality(starts) |-> SubSeq(body, ith(n) + 1, end(ith(n)) - 1)]

(* No key is touched unless the whole body is a document of the grammar    *)
(* and then exactly its keys are, in order; every one of them ends in the  *)
(* answer as deleted or failed, only Quiet hiding the deleted ones; a key  *)
(* answered as deleted was deleted (legacy managed storage apart) and its  *)
(* usage recorded; a released grant never hides a deletion, whatever       *)
(* failed on the way or whoever hung up.                                   *)
BatchExact ==
    /\ phase \notin {"parsing", "refused"} =>
          InGrammar(read) /\ parser.keys = KeysOf(read)
    /\ phase = "refused" => grants = <<>> /\ ~InGrammar(read)
    /\ phase = "answered" =>
          /\ Len(outcomes) = Len(parser.keys)
          /\ \A i \in DOMAIN outcomes : outcomes[i] # "Deleted" =>
                \E n \in DOMAIN entries : entries[n] = [key |-> parser.keys[i], result |-> outcomes[i]]
          /\ parser.quiet # "true" => Len(entries) = Len(parser.keys)
    /\ \A i \in DOMAIN outcomes : outcomes[i] = "Deleted" =>
          grants[i] = "recorded" /\ (effects[i] \/ backend = "off")
    /\ \A i \in DOMAIN grants : grants[i] = "released" => ~effects[i]

(* There is no silent outcome: a key answered as deleted is gone, with     *)
(* every storage mode (the head of s3_batch_delete.rs).                    *)
DeletedIsGone ==
    \A i \in DOMAIN outcomes : outcomes[i] = "Deleted" => effects[i]

=============================================================================
