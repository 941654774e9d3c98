-------------------------- MODULE RequestIntegrity --------------------------
(***************************************************************************)
(* SigV4 requests on their way from a client that signs correctly to the   *)
(* gateway: the checks of the authorization (scope, clock, signed headers, *)
(* seed signature) and the incremental verification of the body (payload   *)
(* hash, aws-chunked framing with its chain of chunk signatures, checksum  *)
(* trailer, decoded length), over a channel that delays, cuts, reorders,   *)
(* repeats or alters what was sent.  Hashes and signatures are the terms   *)
(* they are computed from: the channel can repeat one, never make one.     *)
(***************************************************************************)
EXTENDS Naturals, Sequences, SequencesExt, FiniteSets

CONSTANTS
    Bodies,        \* bodies a client sends: sequences of chunks, each of bytes
    Modes,         \* payload modes
    Headers,       \* optional headers that carry meaning
    Excluded,      \* optional headers that need no signature
    Skew,          \* the allowed clock skew
    MaxPresign,    \* MAX_PRESIGN_EXPIRY
    MaxChunks,     \* MAX_CHUNKS
    MaxTrailers,   \* MAX_TRAILERS
    MaxDelay,      \* how late a request may arrive
    MaxTampers     \* alterations by the channel

VARIABLES
    client,        \* what the client signed
    wire,          \* what has not reached the gateway yet: headers and body tokens
    now,           \* the gateway's clock; requests are signed at Skew + 1
    verifier,      \* the gateway's state for this request
    tampers

integrityVars == <<client, wire, now, verifier, tampers>>

SignedAt == Skew + 1

Required == {"host", "date", "hash"}

Streaming == {"signed", "signed_trailer", "unsigned_trailer"}
WithTrailer == {"signed_trailer", "unsigned_trailer"}

Flat(body) == FlattenSeq(body)

-----------------------------------------------------------------------------
(* The client.  Byte tokens carry a value, line tokens open a chunk.       *)

Token(t, v, chain) == [t |-> t, v |-> v, chain |-> chain]
Byte(b) == Token("byte", b, <<>>)
Crlf == Token("crlf", 0, <<>>)

DataOf(tokens) == [i \in DOMAIN tokens |-> tokens[i].v]

\* The signature of the i-th chunk signs its bytes and its predecessor.
Chain(body, i) == SubSeq(body, 1, i)

ChunkTokens(mode, body, i) ==
    LET bytes == [j \in DOMAIN body[i] |-> Byte(body[i][j])]
        chain == IF mode = "unsigned_trailer" THEN <<>> ELSE Chain(body, i)
    IN <<Token("line", Len(bytes), chain)>> \o bytes \o <<Crlf>>

Trailers(mode, body) ==
    IF mode \notin WithTrailer THEN <<Crlf>>
    ELSE <<Token("checksum", 0, <<Flat(body)>>)>>
         \o (IF mode = "signed_trailer"
             THEN <<Token("signature", 0, Append(Append(body, <<>>), Flat(body)))>> ELSE <<>>)
         \o <<Token("empty", 0, <<>>)>>

BodyTokens(mode, body) ==
    IF mode \notin Streaming THEN [j \in DOMAIN Flat(body) |-> Byte(Flat(body)[j])]
    ELSE FlattenSeq([i \in DOMAIN body |-> ChunkTokens(mode, body, i)])
         \o <<Token("line", 0, IF mode = "unsigned_trailer" THEN <<>> ELSE Append(body, <<>>))>>
         \o Trailers(mode, body)

-----------------------------------------------------------------------------
(* The authorization.                                                      *)

ValidateScope(q) == q.region = "expected"

ValidateTime(q) ==
    IF q.location = "header"
    THEN (IF now >= SignedAt THEN now - SignedAt ELSE SignedAt - now) <= Skew
    ELSE /\ q.expires <= MaxPresign
         /\ SignedAt <= now + Skew
         /\ now <= SignedAt + q.expires

\* A mutant: a header the client did not sign is let through.
MutRequiresSignature(h) == h \in Required

RequiresSignature(h) == h \notin Excluded

ValidateSignedHeaders(q) ==
    /\ "host" \in client.signed
    /\ q.location = "header" => {"date", "hash"} \subseteq client.signed
    /\ client.signed \subseteq DOMAIN wire.headers
    /\ \A h \in DOMAIN wire.headers : RequiresSignature(h) => h \in client.signed

\* The seed signature binds the path, the payload mode and the signed values.
VerifySeedSignature ==
    /\ wire.path = client.path
    /\ \A h \in client.signed : wire.headers[h] = client.headers[h]

\* BodyVerifier::from_headers: an unsigned payload needs a trusted channel or
\* a method without a body, as does an unsigned trailer.
PayloadModeAllowed(q) ==
    /\ q.mode = "unsigned" => q.tls \/ q.bodyless
    /\ q.mode = "unsigned_trailer" => q.tls

Parse(q) == ~q.twice

Authorized(q) ==
    /\ Parse(q)
    /\ ValidateScope(q)
    /\ ValidateTime(q)
    /\ ValidateSignedHeaders(q)
    /\ VerifySeedSignature
    /\ PayloadModeAllowed(q)

Decoder == [state |-> IF client.mode \in Streaming THEN "Header" ELSE "Fixed",
            remaining |-> 0, chunk |-> <<>>, expected |-> <<>>, previous |-> <<>>,
            decoded |-> 0, chunks |-> 0, trailers |-> 0, checksum |-> <<>>,
            signature |-> <<>>, out |-> <<>>, answer |-> "none"]

Authorize ==
    /\ verifier.answer = "waiting"
    /\ verifier' = IF Authorized(client) THEN Decoder ELSE [verifier EXCEPT !.answer = "denied"]
    /\ UNCHANGED <<client, wire, now, tampers>>

-----------------------------------------------------------------------------
(* The body.                                                               *)

Reject == [verifier EXCEPT !.answer = "rejected"]

Signs == client.mode # "unsigned_trailer"

\* A mutant: a chunk signature is not bound to the one before it.
MutSignatureMatches(v) == v.expected # <<>> /\ Last(v.expected) = v.chunk

\* The chunk signature covers the previous signature and the chunk's bytes.
SignatureMatches(v) == v.expected = Append(v.previous, v.chunk)

\* Signed modes verify the chunk as soon as its last byte is in.
VerifyChunkSignature(v, next) ==
    IF Signs /\ ~SignatureMatches(v) THEN Reject
    ELSE [v EXCEPT !.state = next, !.previous = IF Signs THEN v.expected ELSE <<>>,
                   !.expected = <<>>, !.chunk = <<>>]

StartChunk(token) ==
    LET v == [verifier EXCEPT !.chunks = @ + 1, !.remaining = token.v, !.chunk = <<>>,
                              !.expected = token.chain, !.decoded = @ + token.v]
    IN IF token.t # "line" \/ v.chunks > MaxChunks \/ (Signs /\ token.chain = <<>>)
             \/ v.decoded > client.length
       THEN Reject
       ELSE IF token.v = 0
       THEN VerifyChunkSignature(v, IF client.mode \in WithTrailer THEN "Trailers" ELSE "FinalCrlf")
       ELSE [v EXCEPT !.state = "Data"]

\* Decoded bytes go to the caller before their chunk is verified.
TakeData(token) ==
    LET v == [verifier EXCEPT !.remaining = @ - 1, !.chunk = Append(@, token.v),
                              !.out = Append(@, token.v)]
    IN IF v.remaining = 0 THEN VerifyChunkSignature(v, "DataCrlf") ELSE v

TakeCrlf(token, next) ==
    IF token.t = "crlf" THEN [verifier EXCEPT !.state = next] ELSE Reject

ParseTrailer(token) ==
    LET v == [verifier EXCEPT !.trailers = @ + 1] IN
    IF v.trailers > MaxTrailers THEN Reject
    ELSE IF token.t = "signature"
    THEN IF v.signature # <<>> \/ v.checksum = <<>> THEN Reject
         ELSE [v EXCEPT !.signature = token.chain]
    ELSE IF token.t = "checksum" /\ v.checksum = <<>> THEN [v EXCEPT !.checksum = token.chain]
    ELSE Reject

VerifyTrailers ==
    IF \/ verifier.checksum = <<>>
       \/ client.mode = "signed_trailer"
            /\ verifier.signature # Append(verifier.previous, verifier.checksum[1])
       \/ client.mode = "unsigned_trailer" /\ verifier.signature # <<>>
    THEN Reject
    ELSE [verifier EXCEPT !.state = "Done"]

Push ==
    /\ verifier.answer = "none"
    /\ wire.body # <<>>
    /\ LET token == Head(wire.body) IN
       verifier' = CASE verifier.state = "Fixed" ->
                          [verifier EXCEPT !.out = Append(@, token.v)]
                     [] verifier.state = "Header" -> StartChunk(token)
                     [] verifier.state = "Data" -> TakeData(token)
                     [] verifier.state = "DataCrlf" -> TakeCrlf(token, "Header")
                     [] verifier.state = "FinalCrlf" -> TakeCrlf(token, "Done")
                     [] verifier.state = "Trailers" ->
                          IF token.t = "empty" THEN VerifyTrailers ELSE ParseTrailer(token)
                     [] verifier.state = "Done" -> Reject
    /\ wire' = [wire EXCEPT !.body = Tail(@)]
    /\ UNCHANGED <<client, now, tampers>>

\* A mutant: a stream that stops at a chunk boundary counts as complete.
MutDecoderFinish(v) == v.state \in {"Done", "Header"}

DecoderFinish(v) == v.state = "Done" /\ v.decoded = client.length

\* The payload hash of a fixed body, the frames of a chunked one, and the
\* checksum of either are compared at the end.
VerifierFinish(v) ==
    /\ client.mode \in Streaming => DecoderFinish(v)
    /\ client.mode = "hashed" => v.out = Flat(client.body)
    /\ client.mode \in WithTrailer => v.checksum = <<v.out>>
    /\ client.checksum => v.out = Flat(client.body)

Finish ==
    /\ verifier.answer = "none"
    /\ wire.body = <<>>
    /\ verifier' = [verifier EXCEPT !.answer =
                       IF VerifierFinish(verifier) THEN "accepted" ELSE "rejected"]
    /\ UNCHANGED <<client, wire, now, tampers>>

-----------------------------------------------------------------------------
(* The channel.  A trusted one (TLS) only delays.                          *)

Delay ==
    /\ verifier.answer = "waiting"
    /\ now < SignedAt + MaxDelay
    /\ now' = now + 1
    /\ UNCHANGED <<client, wire, verifier, tampers>>

Tamper ==
    /\ ~client.tls
    /\ tampers < MaxTampers
    /\ tampers' = tampers + 1
    /\ LET n == Len(wire.body) IN
       \/ \E i \in 1..n : wire' = [wire EXCEPT !.body = RemoveAt(@, i)]
       \/ \E i \in 1..n : wire' = [wire EXCEPT !.body = InsertAt(@, i, wire.body[i])]
       \/ \E i \in 1..n : /\ wire.body[i].t = "byte"
                          /\ wire' = [wire EXCEPT !.body[i].v = 1 - @]
       \/ \E i \in 1..n, j \in 1..n :
             /\ i < j
             /\ wire.body[i].t = "line" /\ wire.body[j].t = "line"
             /\ LET size == wire.body[i].v + 2
                    first == SubSeq(wire.body, i, i + size - 1)
                    second == SubSeq(wire.body, j, j + wire.body[j].v + 1)
                IN /\ j = i + size
                   /\ wire.body[j].v > 0
                   /\ j + wire.body[j].v + 1 <= n
                   /\ wire' = [wire EXCEPT !.body = SubSeq(@, 1, i - 1) \o second \o first
                                                    \o SubSeq(@, j + Len(second), n)]
       \/ \E i \in 1..n : wire' = [wire EXCEPT !.body = SubSeq(@, 1, i - 1)]
       \/ /\ verifier.answer = "waiting"
          /\ \/ wire' = [wire EXCEPT !.path = "other"]
             \/ \E h \in Headers \cup Excluded : wire' = [wire EXCEPT !.headers =
                    [x \in DOMAIN @ \cup {h} |-> IF x = h THEN "forged" ELSE @[x]]]
             \/ \E h \in DOMAIN wire.headers : wire' = [wire EXCEPT !.headers =
                    [x \in DOMAIN @ \ {h} |-> @[x]]]
    /\ UNCHANGED <<client, now, verifier>>

-----------------------------------------------------------------------------
\* A correct client signs what it must and every header with a meaning.
IntegrityInit ==
    /\ \E mode \in Modes, body \in Bodies, extra \in SUBSET (Headers \cup Excluded),
          tls, checksum, twice \in BOOLEAN, region \in {"expected", "other"},
          location \in {"header", "query"}, expires \in {1, MaxPresign, MaxPresign + 1} :
        /\ location = "query" => mode = "unsigned"
        /\ location = "header" => expires = 1
        /\ mode = "unsigned" => ~checksum
        /\ mode \in WithTrailer => ~checksum
        /\ client = [mode |-> mode, body |-> body, length |-> Len(Flat(body)), tls |-> tls,
                     checksum |-> checksum, region |-> region, location |-> location,
                     expires |-> expires, twice |-> twice, path |-> "path",
                     bodyless |-> body = <<>>,
                     headers |-> [h \in Required \cup extra |-> "sent"],
                     signed |-> Required \cup (extra \ Excluded)]
    /\ wire = [path |-> "path", headers |-> client.headers,
               body |-> BodyTokens(client.mode, client.body)]
    /\ now \in {0, SignedAt}
    /\ verifier = [Decoder EXCEPT !.answer = "waiting"]
    /\ tampers = 0

IntegrityNext == Authorize \/ Push \/ Finish \/ Delay \/ Tamper

-----------------------------------------------------------------------------
Timely ==
    IF client.location = "header" THEN now <= SignedAt + Skew /\ SignedAt <= now + Skew
    ELSE now <= SignedAt + client.expires

\* Whatever the channel did, a request that is accepted in the end carried
\* the path, the meaningful headers and the body that the client signed, in
\* the time it signed them for; and a well-formed request that the channel
\* delivered as it was, and in time, is accepted.
AcceptedAsSigned ==
    /\ verifier.answer = "accepted" =>
          /\ wire.path = client.path
          /\ \A h \in DOMAIN wire.headers \ Excluded :
                h \in DOMAIN client.headers /\ wire.headers[h] = client.headers[h]
          /\ (Headers \cap DOMAIN client.headers) \subseteq DOMAIN wire.headers
          /\ verifier.out = Flat(client.body) \/ client.bodyless
          /\ Timely
    /\ verifier.answer \in {"denied", "rejected"} /\ tampers = 0 =>
          \/ client.twice \/ client.region = "other"
          \/ ~Timely \/ now + Skew < SignedAt \/ client.expires > MaxPresign
          \/ ~PayloadModeAllowed(client)
=============================================================================
