----------------------------- MODULE MCExchange -----------------------------
(* Every exchange of a small share, for the model checker.                   *)
EXTENDS Exchange

\* A producer with one file of two chunks, of which it holds the second, and one
\* that answers nothing; either may be too old for the ops of chunks.
File == <<4, 5, 6>>
Row == [size |-> 3, leaves |-> <<HashOf(<<4, 5>>), HashOf(<<6>>)>>]
Difference == [target |-> 2, signature |-> 9, deltas |-> << <<1>>, << >>, <<2, 3>> >>]

ArgsOf(op) ==
    CASE op = OpManifest -> {<< >>}
      [] op = OpRead -> {<<i, o, n>> : i \in 0..1, o \in 0..3, n \in 0..3}
      [] op = OpChunkMap -> {<<0>>, <<1>>}
      [] op = OpChunk -> {<<a>> : a \in ToSet(Row.leaves)}
      [] op = OpHave -> {<<RootOf(Row), 2>>, <<7, 2>>}
      [] op = OpManifestSince -> {<<0>>, <<1>>}

\* The answer to a request in the client's terms; << >> for none.
Told(full, op, args) ==
    IF op = OpRead
    THEN (IF full /\ args[1] = 0 /\ args[3] <= MaxReadLen
          THEN Some(SubSeq(File, args[2] + 1, Min({args[2] + args[3], Len(File)}))) ELSE << >>)
    ELSE IF ~full THEN << >>
    ELSE CASE op = OpManifest -> Some(<<1, 9, 4>>)
           [] op = OpChunkMap -> (IF args = <<0>> THEN Some(Row) ELSE << >>)
           [] op = OpChunk -> (IF args[1] = Row.leaves[2] THEN Some(<<6>>) ELSE << >>)
           [] op = OpHave -> (IF args[1] = 7 THEN << >> ELSE Some({1}))
           [] op = OpManifestSince -> (IF args = <<1>> THEN Some(Difference) ELSE << >>)

OnTheWire(op, told) ==
    IF ~IsSome(told) THEN told
    ELSE Some(CASE op = OpChunkMap -> EncodeChunkMap(told[1])
                       [] op = OpHave -> EncodeHave(2, told[1])
                       [] op = OpManifestSince -> EncodeSince(told[1])
                       [] OTHER -> told[1])

Source(full) ==
    [op \in Ops |->
        [args \in {Sent(op, a) : a \in ArgsOf(op)} |->
            LET told == Told(full, op, args)
            IN  IF op # OpRead THEN OnTheWire(op, told)
                ELSE IF told = << >> THEN [status |-> BadIndex, data |-> << >>]
                ELSE [status |-> Ok, data |-> told[1]]]]

\* The answers are exact or there are none, for every op, producer, password and
\* point at which the stream ends.
ExchangesAreTrue ==
    \A native, full, protected \in BOOLEAN, op \in Ops,
       ops \in {Ops, {OpManifest, OpRead}}, given \in {<< >>, <<3>>, <<5>>} :
        \A args \in ArgsOf(op), upTo \in 0..5, heard \in 0..2 + MaxBody :
            ExchangeIsTrue(native, op, args, share_token(7, given),
                ShareAuth(7, IF protected THEN <<3>> ELSE << >>),
                ops, Source(full), Told(full, op, args), upTo, heard)

\* Bodies a peer might make up: any few units, behind the root of some row or a
\* signature of some manifest, or neither.
Heads ==
    {HashOf(u) : u \in UNION {[1..n -> 0..2] : n \in 0..3}}
    \cup {Signature(2, v, m) : v \in 0..2, m \in {<< >>, <<1>>}} \cup 0..2
MadeUp == {<<head>> \o rest : head \in Heads, rest \in UNION {[1..n -> 0..2] : n \in 0..4}}
          \cup {<<v, sig>> \o rest : v \in 0..2, sig \in Heads, rest \in {<< >>, <<1>>, <<2>>}}

MadeUpIsRefused ==
    \A native \in BOOLEAN, seen \in {0, 1}, body \in MadeUp :
        TakesOnlyTheSound(native, 2, seen, body)
=============================================================================
