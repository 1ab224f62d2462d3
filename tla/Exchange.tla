------------------------------ MODULE Exchange ------------------------------
(***************************************************************************)
(* One request and its answer on a stream of the mount protocol: framing.rs *)
(* and auth.rs of agent-share-proto, serve_stream of agent-share-mount, and *)
(* what the two clients make of what comes back.                           *)
(*                                                                         *)
(* A stream is a sequence of units, one for every field of fixed width.    *)
(* Either direction may end anywhere.  A hash is one no two inputs of the  *)
(* instance share.  OP_WATCH, whose stream goes on, is the module Watch.   *)
(***************************************************************************)
EXTENDS Integers, Sequences, SequencesExt

CONSTANTS
    MaxReadLen,  \* MAX_READ_LEN
    MaxBody      \* the cap on an answer: MAX_CHUNK_LEN, MAX_CHUNK_MAP_BYTES, ...

OpManifest == 1
OpRead == 2
OpChunkMap == 6
OpChunk == 7
OpHave == 8
OpManifestSince == 9
Ops == {OpManifest, OpRead, OpChunkMap, OpChunk, OpHave, OpManifestSince}

\* ReadStatus
Ok == 0
BadIndex == 1
LenOverCap == 3
Statuses == 0..3

\* An Option: << >> for None.
Some(value) == <<value>>
IsSome(option) == option # << >>
The(option) == option[1]

HashOf(units) ==
    LET hash[n \in 0..Len(units)] == IF n = 0 THEN 1 ELSE 11 * hash[n - 1] + units[n]
    IN  hash[Len(units)]

-----------------------------------------------------------------------------
(* auth.rs                                                                   *)

share_token(secret, password) ==
    IF IsSome(password) THEN HashOf(<<secret, The(password)>>) ELSE secret

ShareAuth(secret, password) ==
    [token |-> share_token(secret, password), protected |-> IsSome(password)]

BadSecret == 1
Unauthorized == 2
RefusalCode(auth) == IF auth.protected THEN Unauthorized ELSE BadSecret

-----------------------------------------------------------------------------
(* The bodies.                                                               *)

\* token, op, then the fields of the request.
Request(token, op, args) == <<token, op>> \o args

BodyLen(op) ==
    CASE op = OpManifest -> 0
      [] op = OpRead -> 3
      [] OTHER -> 1

\* A row names its file by a root over its size and its addresses.
RootOf(row) == HashOf(<<row.size>> \o row.leaves)
EncodeChunkMap(row) == <<RootOf(row), row.size, Len(row.leaves)>> \o row.leaves

\* Read to the count it claims, which the body must carry.
DecodeChunkMap(body) ==
    IF Len(body) < 3 \/ Len(body) < 3 + body[3] THEN << >>
    ELSE Some([root |-> body[1], size |-> body[2], leaves |-> SubSeq(body, 4, 3 + body[3])])

EncodeSince(answer) ==
    <<answer.target, answer.signature, Len(answer.deltas)>>
    \o FlattenSeq([i \in DOMAIN answer.deltas |-> <<Len(answer.deltas[i])>> \o answer.deltas[i]])

\* Each delta behind its length, the last one ending the body.
DecodeSince(body) ==
    LET read[n \in 0..(IF Len(body) < 3 THEN 0 ELSE body[3])] ==
            IF n = 0 THEN Some([deltas |-> << >>, at |-> 4])
            ELSE IF ~IsSome(read[n - 1]) THEN << >>
            ELSE LET at == The(read[n - 1]).at
                 IN  IF at > Len(body) \/ at + body[at] > Len(body) \/ body[at] > MaxBody THEN << >>
                     ELSE Some([deltas |-> Append(The(read[n - 1]).deltas, SubSeq(body, at + 1, at + body[at])),
                                at |-> at + body[at] + 1])
        all == read[body[3]]
    IN  IF Len(body) < 3 THEN << >>
        ELSE IF ~IsSome(all) THEN << >>
        ELSE IF The(all).at # Len(body) + 1 THEN << >>
        ELSE Some([target |-> body[1], signature |-> body[2], deltas |-> The(all).deltas])

\* A bitmap of two bits to the unit.
Bits == 2
BitmapLen(chunks) == (chunks + Bits - 1) \div Bits
Holds(bitmap, k) ==
    (bitmap[k \div Bits + 1] \div (IF k % Bits = 0 THEN 1 ELSE 2)) % 2 = 1
Bitmap(chunks, held) ==
    [u \in 1..BitmapLen(chunks) |->
        (IF Bits * (u - 1) \in held THEN 1 ELSE 0) + (IF Bits * (u - 1) + 1 \in held THEN 2 ELSE 0)]

EncodeHave(chunks, held) == <<chunks>> \o Bitmap(chunks, held)
DecodeHave(body) ==
    IF Len(body) < 1 \/ Len(body) - 1 < BitmapLen(body[1]) THEN << >>
    ELSE Some([chunks |-> body[1], bitmap |-> SubSeq(body, 2, 1 + BitmapLen(body[1]))])

-----------------------------------------------------------------------------
(* serve_stream.  A source answers each request or not, and a read with a    *)
(* status of its own; `ops` is what the producer knows.                      *)

Body(status, body) == <<status, Len(body)>> \o body
Refuse == <<BadIndex>>

Answer(op, args, source) ==
    LET answer == source[op][args]
    IN  CASE op = OpRead ->
               (IF args[3] > MaxReadLen THEN Body(LenOverCap, << >>) ELSE Body(answer.status, answer.data))
          [] op = OpManifest -> (IF IsSome(answer) THEN Body(Ok, The(answer)) ELSE << >>)
          [] OTHER -> (IF IsSome(answer) THEN Body(Ok, The(answer)) ELSE Refuse)

Nothing == [sent |-> << >>, closed |-> 0]

\* Whoever presents another token loses the connection; a request that breaks off
\* or whose op is not known loses its stream.
Serve(auth, ops, source, units) ==
    IF Len(units) < 2 THEN Nothing
    ELSE IF units[1] # auth.token THEN [Nothing EXCEPT !.closed = RefusalCode(auth)]
    ELSE IF units[2] \notin ops \/ Len(units) < 2 + BodyLen(units[2]) THEN Nothing
    ELSE [Nothing EXCEPT !.sent = Answer(units[2], SubSeq(units, 3, 2 + BodyLen(units[2])), source)]

-----------------------------------------------------------------------------
(* The clients.  What one takes from a stream is a value, a refusal to fall  *)
(* back on, or an error.                                                     *)

Value(value) == [is |-> "value", value |-> value]
Declined == [is |-> "declined"]
Failed == [is |-> "failed"]

\* Mutant: what is there of a body is taken for the body.
FramedShort(units, cap) ==
    IF Len(units) < 2 THEN << >>
    ELSE IF units[2] > cap THEN << >>
    ELSE Some(SubSeq(units, 3, Min({2 + units[2], Len(units)})))

\* A length within the cap, and exactly so many units.
Framed(units, cap) ==
    IF Len(units) < 2 THEN << >>
    ELSE IF units[2] > cap \/ Len(units) < 2 + units[2] THEN << >>
    ELSE Some(SubSeq(units, 3, 2 + units[2]))

\* accept_manifest: the creator's signature over version and manifest, if the
\* ticket names one, and no version older than one accepted before.
Signature(author, version, manifest) == HashOf(<<author, version>> \o manifest)
Accepted(author, seen, envelope) ==
    /\ Len(envelope) >= 2
    /\ IsSome(author) =>
        /\ envelope[2] = Signature(The(author), envelope[1], SubSeq(envelope, 3, Len(envelope)))
        /\ envelope[1] >= seen

FetchManifest(author, seen, units) ==
    LET body == IF units = << >> \/ units[1] # Ok THEN << >> ELSE Framed(units, MaxBody)
    IN  IF ~IsSome(body) THEN Failed
        ELSE IF Accepted(author, seen, The(body)) THEN Value(The(body)) ELSE Failed

ReadRange(len, units) ==
    LET body == IF units = << >> \/ units[1] # Ok THEN << >> ELSE Framed(units, len)
    IN  IF IsSome(body) THEN Value(The(body)) ELSE Failed

\* A stream that ends unanswered is an older producer's to a browser; natively
\* only where the op is asked for as a shortcut.
Unanswered(native, op) == IF native /\ op # OpManifestSince THEN Failed ELSE Declined
Refusal(native, status) == IF native /\ status \notin Statuses THEN Failed ELSE Declined

\* The body of an answer of status Ok, or what its lack means.
Ask(native, op, units) ==
    IF units = << >> THEN Unanswered(native, op)
    ELSE IF units[1] # Ok THEN Refusal(native, units[1])
    ELSE LET body == Framed(units, MaxBody)
         IN  IF IsSome(body) THEN Value(The(body)) ELSE Failed

FetchChunkMap(native, units) ==
    LET body == Ask(native, OpChunkMap, units)
        row == IF body.is = "value" THEN DecodeChunkMap(body.value) ELSE << >>
    IN  IF body.is # "value" THEN body
        ELSE IF ~IsSome(row) THEN Failed
        ELSE IF RootOf(The(row)) # The(row).root THEN Failed
        ELSE Value([size |-> The(row).size, leaves |-> The(row).leaves])

\* Bytes that do not match their address: an error natively, a refusal to the
\* callers in a tab.
FetchChunk(native, address, units) ==
    LET bytes == Ask(native, OpChunk, units)
    IN  IF bytes.is # "value" THEN bytes
        ELSE IF HashOf(bytes.value) = address THEN bytes
        ELSE IF native THEN Failed ELSE Declined

FetchManifestSince(native, units) ==
    LET body == Ask(native, OpManifestSince, units)
        answer == IF body.is = "value" THEN DecodeSince(body.value) ELSE << >>
    IN  IF body.is # "value" THEN body
        ELSE IF IsSome(answer) THEN Value(The(answer)) ELSE Failed

\* Whatever is wrong with it, a peer's answer is planned without; a row of another
\* length than the one known is another file's.
FetchHave(chunks, units) ==
    LET body == Ask(FALSE, OpHave, units)
        have == IF body.is = "value" THEN DecodeHave(body.value) ELSE << >>
    IN  IF ~IsSome(have) THEN Declined
        ELSE IF The(have).chunks # chunks THEN Declined
        ELSE Value({k \in 0..chunks - 1 : Holds(The(have).bitmap, k)})

\* unauthorized_close, refused_for_password: whether to ask for another password.
AsksAgain(protected, closed) == protected /\ closed = Unauthorized

-----------------------------------------------------------------------------

Receive(native, op, args, author, seen, units) ==
    CASE op = OpManifest -> FetchManifest(author, seen, units)
      [] op = OpRead -> ReadRange(args[3], units)
      [] op = OpChunkMap -> FetchChunkMap(native, units)
      [] op = OpChunk -> FetchChunk(native, args[1], units)
      [] op = OpHave -> FetchHave(args[2], units)
      [] op = OpManifestSince -> FetchManifestSince(native, units)

\* What the client put on the wire: the chunks it knows a row to have are its own.
Sent(op, args) == IF op = OpHave THEN <<args[1]>> ELSE args

First(units, n) == SubSeq(units, 1, Min({n, Len(units)}))

\* A client never takes for an answer what its peer's source did not say to just
\* that request, wherever either direction broke off; it has the answer whenever
\* nothing did; and the connection goes only over a wrong token, in a way that
\* tells whether another password may help.  told is the answer in the client's
\* terms, << >> for none.
ExchangeIsTrue(native, op, args, token, auth, ops, source, told, upTo, heard) ==
    LET request == Request(token, op, Sent(op, args))
        served == Serve(auth, ops, source, First(request, upTo))
        got == Receive(native, op, args, << >>, 0, First(served.sent, heard))
        right == token = auth.token
    IN  /\ got.is = "value" => right /\ op \in ops /\ IsSome(told) /\ got.value = The(told)
        /\ (right /\ op \in ops /\ upTo >= Len(request) /\ heard >= Len(served.sent) /\ IsSome(told))
                => got.is = "value"
        /\ served.closed # 0 <=> ~right /\ upTo >= 2
        /\ served.closed # 0 => (AsksAgain(auth.protected, served.closed) <=> auth.protected)

\* What a client takes from a peer that sends any body at all: a row its root
\* names, deltas that are the whole body, chunks the file has, and of a creator
\* nothing older than was taken before.
TakesOnlyTheSound(native, author, seen, body) ==
    LET units == Body(Ok, body)
        row == FetchChunkMap(native, units)
        since == FetchManifestSince(native, units)
        have == FetchHave(2, units)
        envelope == FetchManifest(Some(author), seen, units)
    IN  /\ row.is = "value" => body[1] = RootOf(row.value) /\ Len(row.value.leaves) = body[3]
        /\ since.is = "value" => EncodeSince(since.value) = body
        /\ have.is = "value" => have.value \subseteq 0..1
        /\ envelope.is = "value" =>
             /\ body[1] >= seen
             /\ body[2] = Signature(author, body[1], SubSeq(body, 3, Len(body)))
=============================================================================
