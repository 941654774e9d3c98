--------------------------- MODULE RecordDecoder ---------------------------
(***************************************************************************)
(* Record assembly (record.rs) as its callers drive it: transport chunks   *)
(* of any size are pushed, complete records are drained after every push,  *)
(* a multipart completion ends a segment after every part, and the decoder *)
(* is finished at the end of the source (transform_object of s3_objects.rs *)
(* and the staged completion of multipart.rs).                             *)
(*                                                                         *)
(* A byte is "x" (ordinary), "q" (quote), "c" (comma), "r" (CR), "n" (LF)  *)
(* or "u" (a byte no UTF-8 text has).  JSON is known only through the set  *)
(* of documents that parse: JsonDocs.                                      *)
(***************************************************************************)
EXTENDS Integers, Sequences, FiniteSets, SequencesExt

CONSTANTS
    Formats,        \* subset of {"text", "csv", "json", "binary"}
    Bytes,          \* the bytes a source is made of
    JsonDocs,       \* byte sequences serde_json accepts as one value
    MaxSource,      \* bound on the length of a source
    MaxRecord,      \* DecoderLimits.max_record_bytes and max_json_document_bytes
    MaxCsvFields,   \* DecoderLimits.max_csv_fields
    Segments        \* may the source come in multipart parts?

VARIABLES
    format,     \* the object's format
    input,      \* the whole source
    fed,        \* bytes pushed so far
    decoder,    \* RecordDecoder
    records,    \* the records the caller has drained
    cuts        \* the source positions where a multipart part ended

decoderVars == <<format, input, fed, decoder, records, cuts>>

NoRecord == [payload |-> <<>>, separator |-> <<"none">>]
Record(payload, separator) == [payload |-> payload, separator |-> separator]

(* RecordDecoder::new.  scan counts the bytes already looked at. *)
NewDecoder ==
    [pending |-> <<>>, ready |-> NoRecord, scan |-> 0, csv |-> "start", fields |-> 1,
     finished |-> FALSE, complete |-> FALSE, seen |-> FALSE, emitted |-> 0, failed |-> FALSE]

Fail(d) == [d EXCEPT !.failed = TRUE]

Slice(s, from, to) == IF from > to THEN <<>> ELSE SubSeq(s, from, to)
ValidUtf8(bytes) == \A i \in DOMAIN bytes : bytes[i] # "u"
IsDocument(bytes) == bytes \in JsonDocs
EndsEarly(bytes) == \E doc \in JsonDocs : IsStrictPrefix(bytes, doc)

-----------------------------------------------------------------------------
(* Emitting.                                                               *)

(* emit: the first payload bytes are a record, its separator runs to       *)
(* consumed.                                                               *)
Emit(d, payload, consumed) ==
    IF payload > MaxRecord \/ ~ValidUtf8(Slice(d.pending, 1, payload)) THEN Fail(d)
    ELSE [d EXCEPT !.ready = Record(Slice(d.pending, 1, payload),
                                    Slice(d.pending, payload + 1, consumed)),
                   !.pending = Slice(d.pending, consumed + 1, Len(d.pending)),
                   !.scan = 0]

EmitFinal(d) ==
    [d EXCEPT !.ready = Record(d.pending, <<>>), !.pending = <<>>, !.seen = TRUE,
              !.complete = TRUE, !.scan = 0]

ResetCsv(d) == [d EXCEPT !.csv = "start", !.fields = 1, !.scan = 0]

OverLimit(d) == Len(d.pending) > MaxRecord

-----------------------------------------------------------------------------
(* A CR is dropped only when it came in the same chunk as its LF. *)
MutPrepareLine(d, eof) ==
    LET ends == {i \in (d.scan + 1)..Len(d.pending) : d.pending[i] = "n"}
        end == CHOOSE i \in ends : \A j \in ends : i <= j
        waiting == [d EXCEPT !.scan = Len(d.pending)]
    IN  IF ends # {}
        THEN Emit(d, IF end > d.scan + 1 /\ d.pending[end - 1] = "r" THEN end - 2
                     ELSE end - 1, end)
        ELSE IF OverLimit(d) THEN Fail(d)
        ELSE IF eof /\ (d.pending # <<>> \/ ~d.seen)
        THEN IF ValidUtf8(d.pending) THEN EmitFinal(waiting) ELSE Fail(d)
        ELSE [waiting EXCEPT !.complete = @ \/ eof]

(* prepare_line: text, JSONL and TSV.                                      *)
PrepareLine(d, eof) ==
    LET ends == {i \in (d.scan + 1)..Len(d.pending) : d.pending[i] = "n"}
        end == CHOOSE i \in ends : \A j \in ends : i <= j
        waiting == [d EXCEPT !.scan = Len(d.pending)]
    IN  IF ends # {}
        THEN Emit(d, IF end > 1 /\ d.pending[end - 1] = "r" THEN end - 2 ELSE end - 1, end)
        ELSE IF OverLimit(d) THEN Fail(d)
        ELSE IF eof /\ (d.pending # <<>> \/ ~d.seen)
        THEN IF ValidUtf8(d.pending) THEN EmitFinal(waiting) ELSE Fail(d)
        ELSE [waiting EXCEPT !.complete = @ \/ eof]

(* prepare_json: the whole source is one document. *)
PrepareJson(d, eof) ==
    IF OverLimit(d) THEN Fail(d)
    ELSE IF ~eof THEN d
    ELSE IF d.pending = <<>> THEN [d EXCEPT !.complete = TRUE]
    ELSE IF IsDocument(d.pending) THEN EmitFinal(d) ELSE Fail(d)

(* prepare_binary: whatever has come is a record. *)
PrepareBinary(d, eof) ==
    IF d.pending = <<>> THEN [d EXCEPT !.complete = @ \/ eof]
    ELSE IF OverLimit(d) THEN Fail(d)
    ELSE [d EXCEPT !.ready = Record(d.pending, <<>>), !.pending = <<>>, !.seen = TRUE,
                   !.scan = 0]

(* csv_boundary: where the record at a newline ends, 0 when a CR may still *)
(* be followed by its LF.                                                  *)
CsvBoundary(d, at, eof) ==
    IF d.pending[at] = "n" THEN at
    ELSE IF at < Len(d.pending) THEN IF d.pending[at + 1] = "n" THEN at + 1 ELSE at
    ELSE IF eof THEN at ELSE 0

(* The csv parser gets no say of its own here: validate_csv accepts what   *)
(* the scanner delimited, up to the field limit already counted.           *)
RECURSIVE PrepareCsv(_, _)
PrepareCsv(d, eof) ==
    IF d.scan < Len(d.pending)
    THEN LET at == d.scan + 1
             byte == d.pending[at]
             next == [d EXCEPT !.scan = at]
             end == CsvBoundary(d, at, eof)
         IN  IF byte \in {"n", "r"} /\ d.csv # "quoted"
             THEN IF end = 0 THEN IF OverLimit(d) THEN Fail(d) ELSE d
                  ELSE IF at = 1
                  THEN PrepareCsv(ResetCsv([d EXCEPT !.pending = Slice(@, end + 1, Len(@))]), eof)
                  ELSE ResetCsv(Emit(d, at - 1, end))
             ELSE IF d.csv = "start" /\ byte = "q" THEN PrepareCsv([next EXCEPT !.csv = "quoted"], eof)
             ELSE IF byte = "c" /\ d.csv # "quoted"
             THEN IF d.fields = MaxCsvFields THEN Fail(d)
                  ELSE PrepareCsv([next EXCEPT !.csv = "start", !.fields = @ + 1], eof)
             ELSE IF d.csv = "start" THEN PrepareCsv([next EXCEPT !.csv = "unquoted"], eof)
             ELSE IF d.csv = "unquoted"
             THEN IF byte = "q" THEN Fail(d) ELSE PrepareCsv(next, eof)
             ELSE IF d.csv = "quoted"
             THEN PrepareCsv([next EXCEPT !.csv = IF byte = "q" THEN "closed" ELSE @], eof)
             ELSE IF byte = "q" THEN PrepareCsv([next EXCEPT !.csv = "quoted"], eof)
             ELSE Fail(d)
    ELSE IF OverLimit(d) THEN Fail(d)
    ELSE IF ~eof THEN d
    ELSE IF d.csv = "quoted" THEN Fail(d)
    ELSE IF d.pending = <<>> THEN [d EXCEPT !.complete = TRUE]
    ELSE IF ValidUtf8(d.pending) THEN ResetCsv(EmitFinal(d)) ELSE Fail(d)

PrepareNext(d, f, eof) ==
    IF d.ready # NoRecord \/ d.complete THEN d
    ELSE CASE f = "text" -> PrepareLine(d, eof)
           [] f = "csv" -> PrepareCsv(d, eof)
           [] f = "json" -> PrepareJson(d, eof)
           [] f = "binary" -> PrepareBinary(d, eof)

-----------------------------------------------------------------------------
(* The decoder's interface.                                                *)

PushBytes(d, f, chunk) ==
    IF d.finished \/ d.ready # NoRecord THEN Fail(d)
    ELSE PrepareNext([d EXCEPT !.seen = @ \/ chunk # <<>>, !.pending = @ \o chunk], f, FALSE)

(* next_record: prepares, then takes what is ready. *)
Prepared(d, f) == IF d.ready = NoRecord THEN PrepareNext(d, f, d.finished) ELSE d
Taken(d) ==
    IF d.ready = NoRecord THEN d ELSE [d EXCEPT !.ready = NoRecord, !.emitted = @ + 1]

FinishDecoder(d, f) ==
    IF d.finished THEN d
    ELSE IF d.ready # NoRecord THEN Fail(d)
    ELSE LET p == PrepareNext([d EXCEPT !.finished = TRUE], f, TRUE) IN
         IF f = "csv" /\ p.ready = NoRecord /\ p.emitted = 0 THEN Fail(p) ELSE p

EndOfSegment(d, f) ==
    IF f # "json" \/ d.pending = <<>> \/ d.ready # NoRecord THEN d
    ELSE IF IsDocument(d.pending)
    THEN [d EXCEPT !.ready = Record(d.pending, <<>>), !.pending = <<>>, !.seen = TRUE,
                   !.scan = 0]
    ELSE IF EndsEarly(d.pending) THEN d ELSE Fail(d)

-----------------------------------------------------------------------------
(* The caller.                                                             *)

Sources == UNION {[1..n -> Bytes] : n \in 0..MaxSource}

DecoderInit ==
    /\ format \in Formats
    /\ input \in Sources
    /\ fed = 0
    /\ decoder = NewDecoder
    /\ records = <<>>
    /\ cuts = {}

Alive == ~decoder.failed /\ decoder.ready = NoRecord

(* The drain loop has returned None: nothing more can be prepared. *)
Drained == Alive /\ Prepared(decoder, format) = decoder

PushChunk ==
    /\ Drained
    /\ ~decoder.finished
    /\ \E n \in 1..(Len(input) - fed) :
        /\ decoder' = PushBytes(decoder, format, SubSeq(input, fed + 1, fed + n))
        /\ fed' = fed + n
    /\ UNCHANGED <<format, input, records, cuts>>

NextRecord ==
    /\ ~decoder.failed
    /\ ~Drained
    /\ LET d == Prepared(decoder, format) IN
        /\ decoder' = IF d.failed THEN d ELSE Taken(d)
        /\ records' = IF d.failed \/ d.ready = NoRecord THEN records
                      ELSE Append(records, d.ready)
    /\ UNCHANGED <<format, input, fed, cuts>>

EndPart ==
    /\ Segments
    /\ Drained
    /\ ~decoder.finished
    /\ fed \notin cuts \cup {0}
    /\ decoder' = EndOfSegment(decoder, format)
    /\ cuts' = cuts \cup {fed}
    /\ UNCHANGED <<format, input, fed, records>>

EndSource ==
    /\ Drained
    /\ ~decoder.finished
    /\ fed = Len(input)
    /\ decoder' = FinishDecoder(decoder, format)
    /\ UNCHANGED <<format, input, fed, records, cuts>>

DecoderNext == PushChunk \/ NextRecord \/ EndPart \/ EndSource

DecoderSpec == DecoderInit /\ [][DecoderNext]_decoderVars

-----------------------------------------------------------------------------
(* What a source means, however it is cut.                                 *)

RECURSIVE Drain(_, _, _)
Drain(d, f, out) ==
    LET p == Prepared(d, f) IN
    IF p.failed THEN <<p, out>>
    ELSE IF p.ready = NoRecord THEN <<p, out>>
    ELSE Drain(Taken(p), f, Append(out, p.ready))

(* The records of a source pushed in one piece; <<FALSE, ...>> if refused. *)
Whole(bytes, f) ==
    LET fst == Drain(IF bytes = <<>> THEN NewDecoder ELSE PushBytes(NewDecoder, f, bytes), f, <<>>)
        snd == IF fst[1].failed THEN fst ELSE Drain(FinishDecoder(fst[1], f), f, fst[2])
    IN  <<~snd[1].failed, snd[2]>>

Concatenated(recs) ==
    LET all[i \in 0..Len(recs)] ==
            IF i = 0 THEN <<>> ELSE all[i - 1] \o recs[i].payload \o recs[i].separator
    IN  all[Len(recs)]

(* A line of exactly the record limit whose CR arrives before its LF is    *)
(* refused, though the same line in one chunk is accepted.                 *)
TightCarriageReturn ==
    \E i \in DOMAIN input :
        /\ input[i] = "r"
        /\ i > MaxRecord
        /\ i > MaxRecord + 1 => input[i - MaxRecord - 1] \in {"r", "n"}

(* ADR 0005: what a filter sees does not depend on how the transport cut   *)
(* the source.  Text, CSV and a JSON source without part boundaries decode *)
(* to the records, or the refusal, of the source in one piece; binary and  *)
(* text records put together again are the source; a JSON source in parts  *)
(* is cut only at part boundaries, into documents.                         *)
ChunkFree ==
    LET over == decoder.failed \/ (decoder.finished /\ Drained)
        whole == Whole(input, format)
    IN  over =>
        /\ format \in {"text", "csv"} \/ (format = "json" /\ cuts = {}) =>
              \/ ~decoder.failed /\ whole = <<TRUE, records>>
              \/ decoder.failed /\ (~whole[1] \/ TightCarriageReturn)
        /\ format \in {"text", "binary"} /\ ~decoder.failed => Concatenated(records) = input
        /\ format = "json" /\ ~decoder.failed =>
              /\ Concatenated(records) = input
              /\ \A i \in DOMAIN records :
                    /\ IsDocument(records[i].payload)
                    /\ Len(Concatenated(SubSeq(records, 1, i))) \in cuts \cup {Len(input)}

=============================================================================
