---------------------------- MODULE StreamProofs ----------------------------
(***************************************************************************)
(* Theorems of Stream, for files, chunks and reads of every size, any      *)
(* ranges, and every number of requests and of workers: the worker matches *)
(* answers with reads, and what is played is kept.  And of Ticket and      *)
(* Exchange: what crosses a wire reads back as it was written or, wherever *)
(* it is cut, not at all, for every ticket, request, answer and body.      *)
(***************************************************************************)
EXTENDS MCStream, TLAPS, SequencesExt, FiniteSetTheorems, SequenceTheorems,
        WellFoundedInduction

ResponseState ==
    [pc : {"unused", "recovering", "pulling", "waiting", "refused", "404", "closed",
           "cancelled", "errored"},
     port : Nat, offset : Nat, start : Nat, end : Nat]

Messages(ports) == [type : {"register"}, port : 1..ports] \cup [type : {"release"}]

Types ==
    /\ channel \in Nat \ {0} /\ registered \in 0..channel
    /\ recovering \in BOOLEAN /\ timers \in Nat /\ asked \in Nat
    /\ life \in Nat /\ nextReqId \in Nat /\ kept \subseteq Chunks
    /\ response \in [Requests -> ResponseState]
    /\ toWorker \in Seq(Messages(channel))

\* The ports in use are ports the page has minted; a response never goes back
\* before its window, and a read is made inside it.
PortsAreMinted ==
    \A r \in Requests :
        /\ response[r].pc \in {"pulling", "waiting"} => response[r].port \in 1..channel
        /\ response[r].pc = "waiting" => response[r].offset <= response[r].end
        /\ response[r].start <= response[r].offset

\* Who waits is in the table once, and under an id of its own.
WaitsAreOnce ==
    /\ \A w \in waiting :
          /\ w.r \in Requests /\ response[w.r].pc \in {"waiting", "cancelled"}
          /\ w.reqId \in Nat /\ w.reqId < nextReqId /\ w.port \in 1..channel
    /\ \A w, v \in waiting : w.r = v.r \/ w.reqId = v.reqId => w = v
    /\ \A r \in Requests : response[r].pc = "waiting" => \E w \in waiting : w.r = r

\* A read of this worker's life, wherever it is on its way to the page and back,
\* is the one asked for under its id.
IsItsOwn(q) ==
    /\ q.life \in Nat /\ q.life <= life /\ q.reqId \in Nat /\ q.offset \in Nat /\ q.len \in Nat
    /\ q.life = life =>
        /\ q.reqId < nextReqId
        /\ \A w \in waiting : w.reqId = q.reqId /\ response[w.r].pc = "waiting" =>
            /\ q.offset = response[w.r].offset
            /\ q.len = Step(response[w.r].offset, response[w.r].end)

ReadsAreTheirOwn == \A q \in posted \cup reading \cup replies : IsItsOwn(q)

\* Bytes that are on their way have been kept.
AnswersAreKept ==
    \A reply \in replies :
        /\ reply.kind \in {"bytes", "empty", "error"}
        /\ reply.kind = "bytes" =>
               WholeChunks(reply.offset, reply.offset + reply.len - 1) \subseteq kept

\* A response whose answers all came from reads of the same worker has kept what
\* it was given, and goes on at the start of a chunk.
OneLife(r) == \A d \in delivered : d.r = r => d.asked = d.served

Progress(read) ==
    /\ WholeChunks(read.start, read.offset - 1) \subseteq kept
    /\ read.pc \in {"recovering", "pulling", "waiting"} =>
        \/ read.offset = read.start \/ read.offset > read.end
        \/ \E k \in Nat : read.offset = k * ChunkBytes

PlayedSoFar == \A r \in Requests : response[r].pc # "unused" /\ OneLife(r) => Progress(response[r])

StreamInv ==
    /\ Types /\ PortsAreMinted /\ WaitsAreOnce /\ ReadsAreTheirOwn /\ AnswersAreKept
    /\ AnswersMeetTheirReads /\ PlayedSoFar

-----------------------------------------------------------------------------

\* What a number times a chunk is, and that it grows with the number.
LEMMA Products ==
    ASSUME NEW a \in Nat, NEW b \in Nat
    PROVE  /\ a * ChunkBytes \in Nat
           /\ (a + 1) * ChunkBytes = a * ChunkBytes + ChunkBytes
           /\ a <= b => a * ChunkBytes <= b * ChunkBytes
           /\ a * ChunkBytes < b * ChunkBytes => a < b
<1> DEFINE n == ChunkBytes
<1>1. n \in Nat \ {0}
  BY StreamAssumption
<1> HIDE DEF n
<1>2. a * n \in Nat /\ b * n \in Nat /\ (a + 1) * n = a * n + n
  BY <1>1
<1>3. ASSUME a <= b  PROVE a * n <= b * n
  <2> DEFINE d == b - a
  <2>1. d \in Nat /\ b = a + d
    BY <1>3
  <2> HIDE DEF d
  <2>2. b * n = a * n + d * n /\ d * n \in Nat
    BY <1>1, <2>1
  <2>3. QED
    BY <1>2, <2>2
<1>4. ASSUME a * n < b * n  PROVE a < b
  <2> SUFFICES ASSUME b <= a  PROVE FALSE
    OBVIOUS
  <2> DEFINE d == a - b
  <2>1. d \in Nat /\ a = b + d
    OBVIOUS
  <2> HIDE DEF d
  <2>2. a * n = b * n + d * n /\ d * n \in Nat
    BY <1>1, <2>1
  <2>3. QED
    BY <1>2, <1>4, <2>2
<1>5. QED
  BY <1>2, <1>3, <1>4 DEF n

\* A read is not empty, and ends where its window does or where a chunk does.
LEMMA StepEnds ==
    ASSUME NEW offset \in Nat, NEW end \in Nat, offset <= end
    PROVE  /\ Step(offset, end) \in Nat \ {0}
           /\ \/ offset + Step(offset, end) = end + 1
              \/ \E k \in Nat : offset + Step(offset, end) = k * ChunkBytes
<1> DEFINE x == offset + Chunk
           k == x \div ChunkBytes
           aligned == k * ChunkBytes
<1>1. ChunkBytes \in Nat \ {0} /\ Chunk \in Nat /\ Chunk >= ChunkBytes
  BY StreamAssumption
<1>2. x \in Nat /\ x >= offset + ChunkBytes
  BY <1>1
<1>3. k \in Nat /\ aligned \in Nat /\ x < aligned + ChunkBytes
  <2> HIDE DEF x
  <2>1. /\ x \div ChunkBytes \in Int /\ x % ChunkBytes \in 0..ChunkBytes - 1
        /\ x = ChunkBytes * (x \div ChunkBytes) + (x % ChunkBytes)
    BY <1>1, <1>2
  <2>2. QED
    BY <1>1, <1>2, <2>1
<1>4. aligned > offset
  <2> HIDE DEF aligned, x
  <2> QED  BY <1>1, <1>2, <1>3
<1>5. Step(offset, end) = IF end - offset + 1 <= Chunk THEN end - offset + 1 ELSE aligned - offset
  BY <1>4 DEF Step
<1> HIDE DEF aligned, x
<1>6. CASE end - offset + 1 <= Chunk
  BY <1>5, <1>6
<1>7. CASE ~ (end - offset + 1 <= Chunk)
  <2>1. Step(offset, end) \in Nat \ {0} /\ offset + Step(offset, end) = aligned
    BY <1>3, <1>4, <1>5, <1>7
  <2>2. QED
    BY <1>3, <2>1 DEF aligned
<1>8. QED
  BY <1>6, <1>7

\* The bytes of a chunk.
LEMMA ChunkSpans ==
    ASSUME NEW c \in Chunks
    PROVE  /\ c \in Nat /\ c * ChunkBytes \in Nat /\ ChunkEnd(c) \in Nat
           /\ c * ChunkBytes <= ChunkEnd(c) /\ ChunkEnd(c) < (c + 1) * ChunkBytes
<1>1. c \in Nat /\ c * ChunkBytes < Size /\ Size \in Nat /\ ChunkBytes \in Nat \ {0}
  BY StreamAssumption DEF Chunks
<1>2. c * ChunkBytes \in Nat /\ (c + 1) * ChunkBytes = c * ChunkBytes + ChunkBytes
  BY <1>1, Products
<1>3. QED
  BY <1>1, <1>2 DEF ChunkEnd, Least

\* Where a read goes on at the start of a chunk, no chunk is whole in what was
\* streamed without being whole before it or in it.
LEMMA ChunksJoin ==
    ASSUME NEW start \in Nat, NEW offset \in Nat, NEW len \in Nat, start <= offset,
           offset = start \/ \E k \in Nat : offset = k * ChunkBytes
    PROVE  WholeChunks(start, offset + len - 1) \subseteq
              WholeChunks(start, offset - 1) \cup WholeChunks(offset, offset + len - 1)
<1> SUFFICES ASSUME NEW c \in WholeChunks(start, offset + len - 1), ~ (ChunkEnd(c) <= offset - 1)
             PROVE  offset <= c * ChunkBytes
  BY DEF WholeChunks
<1>1. c \in Chunks /\ start <= c * ChunkBytes
  BY DEF WholeChunks
<1>2. /\ c \in Nat /\ c * ChunkBytes \in Nat /\ ChunkEnd(c) \in Nat
      /\ c * ChunkBytes <= ChunkEnd(c) /\ ChunkEnd(c) < (c + 1) * ChunkBytes
  BY <1>1, ChunkSpans
<1>3. CASE offset = start
  BY <1>1, <1>3
<1>4. CASE \E k \in Nat : offset = k * ChunkBytes
  <2>1. PICK k \in Nat : offset = k * ChunkBytes
    BY <1>4
  <2>2. c + 1 \in Nat /\ (c + 1) * ChunkBytes \in Nat
    BY <1>2, Products
  <2>3. k * ChunkBytes < (c + 1) * ChunkBytes
    BY <1>2, <2>1, <2>2
  <2>4. k < c + 1
    BY <2>2, <2>3, Products
  <2>5. k <= c
    BY <1>2, <2>4
  <2>6. QED
    BY <1>2, <2>1, <2>5, Products
<1>5. QED
  BY <1>3, <1>4

\* No chunk is whole in nothing.
LEMMA NothingWhole ==
    ASSUME NEW start \in Nat
    PROVE  WholeChunks(start, start - 1) = {}
<1> SUFFICES ASSUME NEW c \in Chunks, start <= c * ChunkBytes, ChunkEnd(c) <= start - 1
             PROVE  FALSE
  BY DEF WholeChunks
<1>1. QED
  BY ChunkSpans

-----------------------------------------------------------------------------

(* Keeping the whole chunks of a range keeps chunks of the file only. *)
LEMMA KeptAreChunks ==
    ASSUME NEW first, NEW last
    PROVE  WholeChunks(first, last) \subseteq Chunks
BY DEF WholeChunks

\* What a queue of messages may become.
LEMMA Queues ==
    ASSUME Types
    PROVE  /\ Append(toWorker, [type |-> "release"]) \in Seq(Messages(channel))
           /\ Append(toWorker, [type |-> "register", port |-> channel + 1])
                    \in Seq(Messages(channel + 1))
           /\ toWorker # << >> => /\ Head(toWorker) \in Messages(channel)
                                  /\ Tail(toWorker) \in Seq(Messages(channel))
<1>1. toWorker \in Seq(Messages(channel)) /\ channel \in Nat
  BY DEF Types
<1>2. Messages(channel) \subseteq Messages(channel + 1)
  BY <1>1 DEF Messages
<1>3. /\ [type |-> "release"] \in Messages(channel)
      /\ [type |-> "register", port |-> channel + 1] \in Messages(channel + 1)
  BY <1>1 DEF Messages
<1>4. toWorker \in Seq(Messages(channel + 1))
  BY <1>1, <1>2
<1>5. Append(toWorker, [type |-> "release"]) \in Seq(Messages(channel))
  BY <1>1, <1>3
<1>6. Append(toWorker, [type |-> "register", port |-> channel + 1]) \in Seq(Messages(channel + 1))
  BY <1>3, <1>4
<1>7. toWorker # << >> =>
          Head(toWorker) \in Messages(channel) /\ Tail(toWorker) \in Seq(Messages(channel))
  BY <1>1, HeadTailProperties
<1>8. QED
  BY <1>5, <1>6, <1>7

\* The page's steps and the wire's: the worker's table and its responses stand
\* still, no read is made, and whatever is on the wire was on it before.
LEMMA PageSteps ==
    ASSUME StreamInv,
           \/ AnswerWhoOwns \/ Release
           \/ \E q \in posted : Receive(q)
           \/ \E q \in reading : Answer(q)
    PROVE  StreamInv'
<1>1. UNCHANGED <<registered, recovering, timers, life, nextReqId, waiting, response, delivered>>
  BY DEF AnswerWhoOwns, Release, Receive, Answer, workerVars
<1>2. /\ channel \in Nat \ {0} /\ channel' \in {channel, channel + 1}
      /\ kept \subseteq kept' /\ kept' \subseteq Chunks /\ asked' \in Nat
      /\ toWorker' \in Seq(Messages(channel'))
  <2>1. CASE AnswerWhoOwns
    <3>1. /\ kept' = kept /\ asked > 0 /\ asked' = asked - 1
          /\ \/ /\ channel' = channel + 1
                /\ toWorker' = Append(toWorker, [type |-> "register", port |-> channel + 1])
             \/ channel' = channel /\ toWorker' = toWorker
      BY <2>1 DEF AnswerWhoOwns
    <3>2. QED
      BY <3>1, Queues DEF StreamInv, Types
  <2>2. CASE Release
    <3>1. /\ UNCHANGED <<channel, kept, asked>>
          /\ toWorker' = Append(toWorker, [type |-> "release"])
      BY <2>2 DEF Release
    <3>2. QED
      BY <3>1, Queues DEF StreamInv, Types
  <2>3. CASE \E q \in posted : Receive(q)
    <3>1. UNCHANGED <<channel, kept, asked, toWorker>>
      BY <2>3 DEF Receive
    <3>2. QED
      BY <3>1 DEF StreamInv, Types
  <2>4. CASE \E q \in reading : Answer(q)
    <3>1. UNCHANGED <<channel, asked, toWorker>> /\ kept \subseteq kept' /\ kept' \subseteq kept \cup Chunks
      BY <2>4, KeptAreChunks DEF Answer
    <3>2. QED
      BY <3>1 DEF StreamInv, Types
  <2>5. QED
    BY <2>1, <2>2, <2>3, <2>4
<1>3. Types'
  BY <1>1, <1>2 DEF StreamInv, Types
<1>4. \A n \in 1..channel : n \in 1..channel'
  BY <1>2
<1>5. PortsAreMinted'
  BY <1>1, <1>4 DEF StreamInv, PortsAreMinted
<1>6. WaitsAreOnce'
  BY <1>1, <1>4 DEF StreamInv, WaitsAreOnce
<1>7. ReadsAreTheirOwn'
  <2>1. \A q : IsItsOwn(q) => IsItsOwn(q)'
    BY <1>1 DEF IsItsOwn
  <2>2. \A q \in posted' \cup reading' \cup replies' : IsItsOwn(q)
    <3>1. CASE AnswerWhoOwns
      BY <3>1 DEF AnswerWhoOwns, StreamInv, ReadsAreTheirOwn
    <3>2. CASE Release
      BY <3>2 DEF Release, StreamInv, ReadsAreTheirOwn
    <3>3. CASE \E q \in posted : Receive(q)
      BY <3>3 DEF Receive, StreamInv, ReadsAreTheirOwn
    <3>4. CASE \E q \in reading : Answer(q)
      <4>1. PICK q \in reading : Answer(q)
        BY <3>4
      <4>2. PICK kind : replies' \subseteq replies \cup
                {[port |-> channel, reqId |-> q.reqId, kind |-> kind,
                  offset |-> q.offset, len |-> q.len, life |-> q.life]}
        BY <4>1 DEF Answer
      <4> DEFINE reply == [port |-> channel, reqId |-> q.reqId, kind |-> kind,
                           offset |-> q.offset, len |-> q.len, life |-> q.life]
      <4>3. IsItsOwn(q)
        BY DEF StreamInv, ReadsAreTheirOwn
      <4>4. /\ reply.reqId = q.reqId /\ reply.offset = q.offset
            /\ reply.len = q.len /\ reply.life = q.life
        OBVIOUS
      <4> HIDE DEF reply
      <4>5. IsItsOwn(reply)
        BY <4>3, <4>4 DEF IsItsOwn
      <4>6. posted' = posted /\ reading' \subseteq reading /\ replies' \subseteq replies \cup {reply}
        BY <4>1, <4>2 DEF Answer, reply
      <4>7. QED
        BY <4>5, <4>6 DEF StreamInv, ReadsAreTheirOwn
    <3>5. QED
      BY <3>1, <3>2, <3>3, <3>4
  <2>3. QED
    BY <2>1, <2>2 DEF ReadsAreTheirOwn
<1>8. AnswersAreKept'
  <2>1. CASE AnswerWhoOwns \/ Release \/ \E q \in posted : Receive(q)
    <3>1. replies' = replies
      BY <2>1 DEF AnswerWhoOwns, Release, Receive
    <3>2. QED
      BY <1>2, <3>1 DEF StreamInv, AnswersAreKept
  <2>2. CASE \E q \in reading : Answer(q)
    <3>1. PICK q \in reading : Answer(q)
      BY <2>2
    <3>2. PICK kind \in {"bytes", "empty", "error"} :
            /\ kept' = IF kind = "bytes"
                       THEN kept \cup WholeChunks(q.offset, q.offset + q.len - 1) ELSE kept
            /\ replies' \subseteq replies \cup
                {[port |-> channel, reqId |-> q.reqId, kind |-> kind,
                  offset |-> q.offset, len |-> q.len, life |-> q.life]}
      BY <3>1 DEF Answer
    <3> SUFFICES ASSUME NEW reply \in replies'
                 PROVE  /\ reply.kind \in {"bytes", "empty", "error"}
                        /\ reply.kind = "bytes" =>
                              WholeChunks(reply.offset, reply.offset + reply.len - 1) \subseteq kept'
      BY DEF AnswersAreKept
    <3>3. CASE reply \in replies
      BY <1>2, <3>3 DEF StreamInv, AnswersAreKept
    <3>4. CASE reply \notin replies
      <4>1. reply = [port |-> channel, reqId |-> q.reqId, kind |-> kind,
                     offset |-> q.offset, len |-> q.len, life |-> q.life]
        BY <3>2, <3>4
      <4>2. reply.kind = kind /\ reply.offset = q.offset /\ reply.len = q.len
        BY <4>1
      <4>3. QED
        BY <3>2, <4>2
    <3>5. QED
      BY <3>3, <3>4
  <2>3. QED
    BY <2>1, <2>2
<1>9. AnswersMeetTheirReads'
  BY <1>1 DEF StreamInv, AnswersMeetTheirReads
<1>10. PlayedSoFar'
  BY <1>1, <1>2 DEF StreamInv, PlayedSoFar, OneLife, Progress
<1>11. QED
  BY <1>3, <1>5, <1>6, <1>7, <1>8, <1>9, <1>10 DEF StreamInv

-----------------------------------------------------------------------------

\* What a response may become while no read of it is made or answered.
TurnsTo(new, old) ==
    /\ new \in ResponseState
    /\ new.offset = old.offset /\ new.start = old.start /\ new.end = old.end
    /\ new.pc = "waiting" => old.pc = "waiting" /\ new.port = old.port
    /\ new.pc = "pulling" => new.port \in 1..channel /\ old.pc \in {"recovering", "pulling"}
    /\ new.pc = "recovering" => old.pc = "recovering"
    /\ old.pc = "unused" => new.pc = "unused"

\* Steps in which responses only turn, and what waits may be told so.
LEMMA ResponsesTurn ==
    ASSUME StreamInv, Types',
           UNCHANGED <<channel, life, nextReqId, kept, posted, reading, delivered>>,
           waiting' \subseteq waiting, replies' \subseteq replies,
           \A r \in Requests : TurnsTo(response'[r], response[r]),
           \A w \in waiting' : response'[w.r].pc \in {"waiting", "cancelled"},
           \A w \in waiting \ waiting' : response'[w.r].pc # "waiting"
    PROVE  StreamInv'
<1>1. PortsAreMinted'
  BY DEF StreamInv, PortsAreMinted, TurnsTo
<1>2. WaitsAreOnce'
  BY DEF StreamInv, WaitsAreOnce, TurnsTo
<1>3. ReadsAreTheirOwn'
  <2>1. \A w \in waiting' : w.r \in Requests
    BY DEF StreamInv, WaitsAreOnce
  <2>2. \A q : IsItsOwn(q) => IsItsOwn(q)'
    BY <2>1 DEF IsItsOwn, TurnsTo
  <2>3. QED
    BY <2>2 DEF StreamInv, ReadsAreTheirOwn
<1>4. AnswersAreKept'
  BY DEF StreamInv, AnswersAreKept
<1>5. AnswersMeetTheirReads'
  BY DEF StreamInv, AnswersMeetTheirReads
<1>6. PlayedSoFar'
  <2> SUFFICES ASSUME NEW r \in Requests, response'[r].pc # "unused", OneLife(r)'
               PROVE  Progress(response[r])'
    BY DEF PlayedSoFar
  <2>1. TurnsTo(response'[r], response[r]) /\ OneLife(r)
    BY DEF OneLife
  <2>2. Progress(response[r])
    BY <2>1 DEF StreamInv, PlayedSoFar, TurnsTo
  <2>3. QED
    BY <2>1, <2>2 DEF Progress, TurnsTo
<1>7. QED
  BY <1>1, <1>2, <1>3, <1>4, <1>5, <1>6 DEF StreamInv

\* Those who waited for the registration turn to it, or away.
LEMMA WokenTurn ==
    ASSUME StreamInv, NEW port \in 0..channel, response' = Woken(port)
    PROVE  /\ response' \in [Requests -> ResponseState]
           /\ \A r \in Requests : TurnsTo(response'[r], response[r])
           /\ \A r \in Requests : response[r].pc \in {"waiting", "cancelled"} =>
                    response'[r].pc = response[r].pc
<1> DEFINE pc(r) == IF port = 0 THEN "404"
                    ELSE IF response[r].start = Size THEN "refused" ELSE "pulling"
           woken(r) == [response[r] EXCEPT !.port = port, !.pc = pc(r)]
<1>1. port \in Nat /\ channel \in Nat /\ response \in [Requests -> ResponseState]
  BY DEF StreamInv, Types
<1>2. \A r \in Requests : response'[r] = IF response[r].pc # "recovering" THEN response[r] ELSE woken(r)
  BY DEF Woken
<1>3. response' = [r \in Requests |-> response'[r]]
  BY DEF Woken
<1>4. \A r \in Requests : pc(r) \in {"404", "refused", "pulling"} /\ (pc(r) = "pulling" => port \in 1..channel)
  BY <1>1
<1> HIDE DEF pc
<1>5. \A r \in Requests :
        /\ woken(r) \in ResponseState /\ woken(r).pc = pc(r) /\ woken(r).port = port
        /\ woken(r).offset = response[r].offset /\ woken(r).start = response[r].start
        /\ woken(r).end = response[r].end
  BY <1>1, <1>4 DEF ResponseState
<1> HIDE DEF woken
<1>6. ASSUME NEW r \in Requests  PROVE TurnsTo(response'[r], response[r])
  <2>1. response[r] \in ResponseState
    BY <1>1
  <2>2. CASE response[r].pc = "recovering"
    BY <1>2, <1>4, <1>5, <2>2 DEF TurnsTo
  <2>3. CASE response[r].pc # "recovering"
    BY <1>2, <2>1, <2>3 DEF TurnsTo, StreamInv, PortsAreMinted
  <2>4. QED
    BY <2>2, <2>3
<1>7. response' \in [Requests -> ResponseState]
  BY <1>3, <1>6 DEF TurnsTo
<1>8. QED
  BY <1>2, <1>6, <1>7

(* A registration, and the recovery that gave up waiting for one, keep the invariant. *)
LEMMA RegistrationSteps ==
    ASSUME StreamInv, Register \/ RecoverTimeout
    PROVE  StreamInv'
<1>1. UNCHANGED <<channel, life, nextReqId, kept, posted, reading, delivered, waiting, replies, asked>>
  BY DEF Register, RecoverTimeout, pageVars, wireVars
<1>2. /\ \E port \in 0..channel : response' = Woken(port)
      /\ registered' \in 0..channel /\ timers' \in Nat /\ recovering' = FALSE
      /\ toWorker' \in Seq(Messages(channel))
  <2>1. CASE Register
    <3>1. Head(toWorker) \in Messages(channel) /\ Tail(toWorker) \in Seq(Messages(channel))
      BY <2>1, Queues DEF Register, StreamInv
    <3>2. Head(toWorker).port \in 0..channel
      BY <2>1, <3>1 DEF Register, Messages
    <3>3. QED
      BY <2>1, <3>1, <3>2 DEF Register, StreamInv, Types
  <2>2. CASE RecoverTimeout
    BY <2>2 DEF RecoverTimeout, StreamInv, Types, wireVars
  <2>3. QED
    BY <2>1, <2>2
<1>3. /\ response' \in [Requests -> ResponseState]
      /\ \A r \in Requests : TurnsTo(response'[r], response[r])
      /\ \A r \in Requests : response[r].pc \in {"waiting", "cancelled"} =>
                response'[r].pc = response[r].pc
  BY <1>2, WokenTurn
<1>4. Types'
  BY <1>1, <1>2, <1>3 DEF StreamInv, Types
<1>5. \A w \in waiting' : response'[w.r].pc \in {"waiting", "cancelled"}
  BY <1>1, <1>3 DEF StreamInv, WaitsAreOnce
<1>6. QED
  BY <1>1, <1>3, <1>4, <1>5, ResponsesTurn

\* A body ends, or the element seeks away.
LEMMA EndSteps ==
    ASSUME StreamInv, NEW r \in Requests, Close(r) \/ Cancel(r)
    PROVE  StreamInv'
<1> DEFINE closed == [response[r] EXCEPT !.pc = "closed"]
           cancelled == [response[r] EXCEPT !.pc = "cancelled"]
<1>1. /\ UNCHANGED <<channel, registered, recovering, timers, asked, life, nextReqId, kept, toWorker,
                     posted, reading, delivered, waiting, replies>>
      /\ response \in [Requests -> ResponseState]
  BY DEF Close, Cancel, pageVars, workerVars, wireVars, StreamInv, Types
<1>2. \/ response' = [response EXCEPT ![r] = closed] /\ response[r].pc = "pulling"
      \/ response' = [response EXCEPT ![r] = cancelled] /\ response[r].pc # "unused"
  BY DEF Close, Cancel, Live
<1>3. /\ closed \in ResponseState /\ closed.pc = "closed" /\ closed.offset = response[r].offset
      /\ closed.start = response[r].start /\ closed.end = response[r].end
      /\ cancelled \in ResponseState /\ cancelled.pc = "cancelled"
      /\ cancelled.offset = response[r].offset
      /\ cancelled.start = response[r].start /\ cancelled.end = response[r].end
  BY <1>1 DEF ResponseState
<1> HIDE DEF closed, cancelled
<1>4. response' \in [Requests -> ResponseState]
  BY <1>1, <1>2, <1>3
<1>5. ASSUME NEW q \in Requests  PROVE TurnsTo(response'[q], response[q])
  <2>1. CASE q = r
    BY <1>1, <1>2, <1>3, <2>1 DEF TurnsTo
  <2>2. CASE q # r
    BY <1>1, <1>2, <2>2 DEF TurnsTo, StreamInv, PortsAreMinted
  <2>3. QED
    BY <2>1, <2>2
<1>6. \A w \in waiting' : response'[w.r].pc \in {"waiting", "cancelled"}
  BY <1>1, <1>2, <1>3 DEF StreamInv, WaitsAreOnce
<1>7. Types'
  BY <1>1, <1>4 DEF StreamInv, Types
<1>8. QED
  BY <1>1, <1>5, <1>6, <1>7, ResponsesTurn

\* What waits on a released registration fails with it.
LEMMA ReleasedStep ==
    ASSUME StreamInv, Released
    PROVE  StreamInv'
<1> DEFINE failed == {w \in waiting : w.port = registered}
           errored(r) == [response[r] EXCEPT !.pc = "errored"]
<1>1. /\ UNCHANGED <<channel, recovering, timers, asked, life, nextReqId, kept, posted, reading,
                     delivered>>
      /\ response \in [Requests -> ResponseState] /\ registered' = 0 /\ 0 \in 0..channel
  BY DEF Released, pageVars, StreamInv, Types
<1>2. toWorker' \in Seq(Messages(channel))
  BY Queues DEF Released, StreamInv
<1>3. /\ waiting' = waiting \ failed /\ replies' \subseteq replies
      /\ response' = [r \in Requests |->
                        IF response[r].pc = "waiting" /\ \E w \in failed : w.r = r
                        THEN errored(r) ELSE response[r]]
  BY DEF Released
<1>4. \A r \in Requests :
        /\ errored(r) \in ResponseState /\ errored(r).pc = "errored"
        /\ errored(r).offset = response[r].offset
        /\ errored(r).start = response[r].start /\ errored(r).end = response[r].end
  BY <1>1 DEF ResponseState
<1> HIDE DEF errored, failed
<1>5. \A r \in Requests :
        response'[r] = IF response[r].pc = "waiting" /\ \E w \in failed : w.r = r
                       THEN errored(r) ELSE response[r]
  BY <1>3
<1>6. response' \in [Requests -> ResponseState]
  BY <1>1, <1>3, <1>4, <1>5
<1>7. ASSUME NEW r \in Requests  PROVE TurnsTo(response'[r], response[r])
  <2>1. response'[r] \in {errored(r), response[r]}
        /\ (response'[r] = errored(r) => response[r].pc = "waiting" \/ response'[r] = response[r])
    BY <1>5
  <2>2. CASE response'[r] = response[r]
    BY <1>1, <2>2 DEF TurnsTo, StreamInv, PortsAreMinted
  <2>3. CASE response'[r] = errored(r) /\ response[r].pc = "waiting"
    BY <1>4, <2>3 DEF TurnsTo
  <2>4. QED
    BY <2>1, <2>2, <2>3
<1>8. \A w \in waiting' : response'[w.r].pc \in {"waiting", "cancelled"}
  <2> SUFFICES ASSUME NEW w \in waiting, w \notin failed  PROVE response'[w.r] = response[w.r]
    BY <1>3 DEF StreamInv, WaitsAreOnce
  <2>1. \A v \in failed : v.r # w.r
    BY DEF StreamInv, WaitsAreOnce, failed
  <2>2. QED
    BY <1>5, <2>1 DEF StreamInv, WaitsAreOnce
<1>9. \A w \in waiting \ waiting' : response'[w.r].pc # "waiting"
  <2> SUFFICES ASSUME NEW w \in waiting, w \in failed  PROVE response'[w.r].pc # "waiting"
    BY <1>3
  <2>1. w.r \in Requests
    BY DEF StreamInv, WaitsAreOnce
  <2>2. QED
    BY <1>4, <1>5, <2>1
<1>10. Types'
  BY <1>1, <1>2, <1>6 DEF StreamInv, Types
<1>11. QED
  BY <1>1, <1>3, <1>7, <1>8, <1>9, <1>10, ResponsesTurn

-----------------------------------------------------------------------------

(* A range header gives two numbers, whatever it says. *)
LEMMA RangesAreNumbers ==
    ASSUME NEW header \in Headers
    PROVE  ParseRange(header).start \in Nat /\ ParseRange(header).end \in Nat
<1>1. Size \in Nat \ {0} /\ Size - 1 \in Nat /\ 0 \in Nat
  BY StreamAssumption
<1>2. /\ Whole.start \in Nat /\ Whole.end \in Nat
      /\ Unsatisfiable.start \in Nat /\ Unsatisfiable.end \in Nat
  BY <1>1 DEF Whole, Unsatisfiable, Window
<1>3. CASE header \in [kind : {"none"}]
  BY <1>2, <1>3 DEF ParseRange
<1>4. CASE header \in [kind : {"suffix"}, last : Nat]
  <2> DEFINE first == IF header.last < Size THEN Size - header.last ELSE 0
  <2>1. first \in Nat /\ header.kind = "suffix"
    BY <1>1, <1>4
  <2> HIDE DEF first
  <2>2. Window(first, Size - 1).start \in Nat /\ Window(first, Size - 1).end \in Nat
    BY <1>1, <2>1 DEF Window
  <2>3. ParseRange(header) = IF header.last = 0 THEN Unsatisfiable ELSE Window(first, Size - 1)
    BY <2>1 DEF ParseRange, first
  <2>4. QED
    BY <1>2, <2>2, <2>3
<1>5. CASE header \in [kind : {"from"}, first : Nat]
  <2>1. Window(header.first, Size - 1).start \in Nat /\ Window(header.first, Size - 1).end \in Nat
    BY <1>1, <1>5 DEF Window
  <2>2. ParseRange(header) \in {Unsatisfiable, Window(header.first, Size - 1)}
    BY <1>5 DEF ParseRange
  <2>3. QED
    BY <1>2, <2>1, <2>2
<1>6. CASE header \in [kind : {"between"}, first : Nat, last : Nat]
  <2> DEFINE last == Least(header.last, Size - 1)
  <2>1. last \in Nat /\ header.first \in Nat
    BY <1>1, <1>6 DEF Least
  <2> HIDE DEF last
  <2>2. Window(header.first, last).start \in Nat /\ Window(header.first, last).end \in Nat
    BY <2>1 DEF Window
  <2>3. ParseRange(header) \in {Unsatisfiable, Window(header.first, last)}
    BY <1>6 DEF ParseRange, last
  <2>4. QED
    BY <1>2, <2>2, <2>3
<1>7. QED
  BY <1>3, <1>4, <1>5, <1>6, StreamAssumption

\* A new request waits for nothing yet and has played nothing.
LEMMA FetchStep ==
    ASSUME StreamInv, NEW r \in Requests, NEW header \in Headers, Fetch(r, header)
    PROVE  StreamInv'
<1> DEFINE window == ParseRange(header)
           known == registered # 0
           pc == IF known THEN "pulling" ELSE "recovering"
           fresh == [pc |-> pc, port |-> registered,
                     offset |-> window.start, start |-> window.start, end |-> window.end]
           refused == [fresh EXCEPT !.pc = "refused"]
           new == response'[r]
<1>1. /\ UNCHANGED <<channel, registered, life, nextReqId, kept, toWorker, posted, reading, delivered,
                     waiting, replies>>
      /\ response \in [Requests -> ResponseState] /\ response[r].pc = "unused"
  BY DEF Fetch, pageVars, StreamInv, Types
<1>2. recovering' \in BOOLEAN /\ timers' \in Nat /\ asked' \in Nat
  <2>1. recovering \in BOOLEAN /\ timers \in Nat /\ asked \in Nat
    BY DEF StreamInv, Types
  <2>2. Recover \/ UNCHANGED <<recovering, timers, asked>>
    BY DEF Fetch
  <2>3. CASE Recover
    <3>1. timers' \in {timers, timers + 1} /\ asked' \in {asked, asked + 1}
      BY <2>3 DEF Recover
    <3>2. recovering' \in BOOLEAN
      BY <2>3 DEF Recover
    <3>3. QED
      BY <2>1, <3>1, <3>2
  <2>4. CASE UNCHANGED <<recovering, timers, asked>>
    BY <2>1, <2>4
  <2>5. QED
    BY <2>2, <2>3, <2>4
<1>3. \/ known /\ response' = [response EXCEPT ![r] = refused]
      \/ known /\ response' = [response EXCEPT ![r] = fresh]
      \/ ~known /\ response' = [response EXCEPT ![r] = fresh]
  BY DEF Fetch
<1>4. window.start \in Nat /\ window.end \in Nat /\ registered \in Nat /\ registered \in 0..channel
      /\ channel \in Nat
  BY RangesAreNumbers DEF StreamInv, Types
<1> HIDE DEF window
<1>5. fresh \in ResponseState /\ fresh.pc = pc /\ fresh.port = registered
      /\ fresh.offset = window.start /\ fresh.start = window.start /\ fresh.end = window.end
  BY <1>4 DEF ResponseState
<1> HIDE DEF fresh
<1>6. refused \in ResponseState /\ refused.pc = "refused" /\ refused.offset = window.start
      /\ refused.start = window.start
  BY <1>5 DEF ResponseState
<1> HIDE DEF refused
<1>7. /\ response' \in [Requests -> ResponseState] /\ new \in {fresh, refused}
      /\ \A q \in Requests \ {r} : response'[q] = response[q]
  BY <1>1, <1>3, <1>5, <1>6
<1>8. /\ new.pc \in {"pulling", "recovering", "refused"}
      /\ new.pc = "pulling" => new.port \in 1..channel
      /\ new.offset = window.start /\ new.start = window.start
  <2>1. known => registered \in 1..channel
    BY <1>4
  <2>2. pc = "pulling" => known
    OBVIOUS
  <2> HIDE DEF new, known
  <2>3. QED
    BY <1>5, <1>6, <1>7, <2>1, <2>2
<1>9. \A w \in waiting : w.r \in Requests /\ w.r # r /\ response'[w.r] = response[w.r]
  BY <1>1, <1>7 DEF StreamInv, WaitsAreOnce
<1>10. Types'
  BY <1>1, <1>2, <1>7 DEF StreamInv, Types
<1>11. PortsAreMinted'
  <2>1. window.start <= window.start
    BY <1>4
  <2>2. QED
    BY <1>1, <1>7, <1>8, <2>1 DEF StreamInv, PortsAreMinted
<1>12. WaitsAreOnce'
  BY <1>1, <1>7, <1>8, <1>9 DEF StreamInv, WaitsAreOnce
<1>13. ReadsAreTheirOwn'
  <2>1. \A q : IsItsOwn(q) => IsItsOwn(q)'
    BY <1>1, <1>9 DEF IsItsOwn
  <2>2. QED
    BY <1>1, <2>1 DEF StreamInv, ReadsAreTheirOwn
<1>14. AnswersAreKept' /\ AnswersMeetTheirReads'
  BY <1>1 DEF StreamInv, AnswersAreKept, AnswersMeetTheirReads
<1>15. PlayedSoFar'
  <2> SUFFICES ASSUME NEW q \in Requests, response'[q].pc # "unused", OneLife(q)'
               PROVE  Progress(response[q])'
    BY DEF PlayedSoFar
  <2>1. CASE q = r
    <3>1. WholeChunks(new.start, new.offset - 1) = {}
      BY <1>4, <1>8, NothingWhole
    <3>2. QED
      BY <1>8, <2>1, <3>1 DEF Progress
  <2>2. CASE q # r
    <3>1. response'[q] = response[q] /\ OneLife(q)
      BY <1>1, <1>7, <2>2 DEF OneLife
    <3>2. Progress(response[q])
      BY <3>1 DEF StreamInv, PlayedSoFar
    <3>3. QED
      BY <1>1, <3>1, <3>2 DEF Progress
  <2>3. QED
    BY <2>1, <2>2
<1>16. QED
  BY <1>10, <1>11, <1>12, <1>13, <1>14, <1>15 DEF StreamInv

\* A read goes out under a new id, for the bytes where its response is.
LEMMA PullStep ==
    ASSUME StreamInv, NEW r \in Requests, Pull(r)
    PROVE  StreamInv'
<1> DEFINE at == response[r].offset
           end == response[r].end
           wait == [port |-> response[r].port, reqId |-> nextReqId, r |-> r]
           new == [response[r] EXCEPT !.pc = "waiting"]
<1>1. /\ UNCHANGED <<channel, registered, recovering, timers, asked, life, kept, toWorker, reading,
                     delivered, replies>>
      /\ response \in [Requests -> ResponseState] /\ response[r].pc = "pulling" /\ at <= end
      /\ nextReqId \in Nat /\ life \in Nat /\ channel \in Nat
  BY DEF Pull, pageVars, StreamInv, Types
<1> PICK read : read = [port |-> response[r].port, reqId |-> nextReqId, offset |-> at,
                        len |-> Step(at, end), life |-> life]
  OBVIOUS
<1>2. /\ posted' = posted \cup {read} /\ waiting' = waiting \cup {wait}
      /\ nextReqId' = nextReqId + 1
      /\ response' = [response EXCEPT ![r].pc = "waiting"]
  BY DEF Pull
<1>3. /\ at \in Nat /\ end \in Nat /\ response[r].port \in 1..channel
      /\ Step(at, end) \in Nat
  <2>1. at \in Nat /\ end \in Nat
    BY <1>1 DEF ResponseState
  <2>2. Step(at, end) \in Nat
    <3> HIDE DEF at, end
    <3> QED  BY <1>1, <2>1, StepEnds
  <2>3. QED
    BY <1>1, <2>1, <2>2 DEF StreamInv, PortsAreMinted
<1>4. response' = [response EXCEPT ![r] = new]
  BY <1>1, <1>2
<1>5. new \in ResponseState /\ new.pc = "waiting" /\ new.offset = at /\ new.end = end
      /\ new.start = response[r].start /\ new.port = response[r].port
  BY <1>1 DEF ResponseState
<1>6. wait.port = response[r].port /\ wait.reqId = nextReqId /\ wait.r = r
  OBVIOUS
<1>7. read.reqId = nextReqId /\ read.offset = at /\ read.len = Step(at, end) /\ read.life = life
  OBVIOUS
<1> HIDE DEF new, wait
<1>8. /\ response' \in [Requests -> ResponseState] /\ response'[r] = new
      /\ \A q \in Requests \ {r} : response'[q] = response[q]
  BY <1>1, <1>4, <1>5
<1>9. \A w \in waiting : /\ w.r \in Requests /\ w.r # r /\ response'[w.r] = response[w.r]
                         /\ w.reqId \in Nat /\ w.reqId < nextReqId
  BY <1>1, <1>8 DEF StreamInv, WaitsAreOnce
<1>10. Types'
  BY <1>1, <1>2, <1>8 DEF StreamInv, Types
<1>11. PortsAreMinted'
  BY <1>1, <1>3, <1>5, <1>8 DEF StreamInv, PortsAreMinted
<1>12. WaitsAreOnce'
  <2>1. \A w \in waiting' :
          /\ w.r \in Requests /\ response'[w.r].pc \in {"waiting", "cancelled"}
          /\ w.reqId \in Nat /\ w.reqId < nextReqId' /\ w.port \in 1..channel'
    <3>1. ASSUME NEW w \in waiting  PROVE /\ response'[w.r].pc \in {"waiting", "cancelled"}
                                          /\ w.reqId < nextReqId + 1 /\ w.port \in 1..channel
      <4>1. w.reqId \in Nat /\ w.reqId < nextReqId
        BY <1>9
      <4>2. w.reqId < nextReqId + 1
        BY <1>1, <4>1
      <4>3. QED
        BY <1>9, <4>2 DEF StreamInv, WaitsAreOnce
    <3>2. wait.reqId < nextReqId + 1 /\ wait.reqId \in Nat
      BY <1>1, <1>6
    <3>3. QED
      BY <1>1, <1>2, <1>3, <1>5, <1>6, <1>8, <1>9, <3>1, <3>2
  <2>2. \A w \in waiting : w.r # wait.r /\ w.reqId # wait.reqId
    <3> TAKE w \in waiting
    <3>1. w.r # r /\ w.reqId \in Nat /\ w.reqId < nextReqId
      BY <1>9
    <3>2. QED
      BY <1>1, <1>6, <3>1
  <2>3. \A w, v \in waiting' : w.r = v.r \/ w.reqId = v.reqId => w = v
    BY <1>2, <2>2 DEF StreamInv, WaitsAreOnce
  <2>4. \A q \in Requests : response'[q].pc = "waiting" => \E w \in waiting' : w.r = q
    BY <1>2, <1>6, <1>8 DEF StreamInv, WaitsAreOnce
  <2>5. QED
    BY <2>1, <2>3, <2>4 DEF WaitsAreOnce
<1>13. ReadsAreTheirOwn'
  <2>1. ASSUME NEW q, IsItsOwn(q)  PROVE IsItsOwn(q)'
    <3>1. /\ q.life \in Nat /\ q.life <= life /\ q.reqId \in Nat /\ q.offset \in Nat /\ q.len \in Nat
      BY <2>1 DEF IsItsOwn
    <3>2. q.life = life => q.reqId < nextReqId /\ q.reqId < nextReqId + 1
      BY <1>1, <2>1, <3>1 DEF IsItsOwn
    <3>3. q.life = life => q.reqId # wait.reqId
      BY <1>1, <1>6, <3>1, <3>2
    <3>4. QED
      BY <1>1, <1>2, <1>9, <2>1, <3>1, <3>2, <3>3 DEF IsItsOwn
  <2>2. IsItsOwn(read)'
    <3>1. \A w \in waiting : w.reqId # nextReqId
      <4> TAKE w \in waiting
      <4>1. w.reqId \in Nat /\ w.reqId < nextReqId
        BY <1>9
      <4>2. QED
        BY <1>1, <4>1
    <3>2. nextReqId < nextReqId + 1
      BY <1>1
    <3> DEFINE step == Step(at, end)
    <3>3. at \in Nat /\ end \in Nat /\ step \in Nat /\ read.len = step /\ read.offset = at
      BY <1>3, <1>7
    <3>4. response'[wait.r].offset = at /\ response'[wait.r].end = end
      BY <1>5, <1>6, <1>8
    <3> HIDE DEF at, end
    <3>5. Step(response'[wait.r].offset, response'[wait.r].end) = step
      BY <3>4
    <3> HIDE DEF step
    <3>6. QED
      BY <1>1, <1>2, <1>7, <3>1, <3>2, <3>3, <3>4, <3>5 DEF IsItsOwn
  <2>3. QED
    BY <1>1, <1>2, <2>1, <2>2 DEF StreamInv, ReadsAreTheirOwn
<1>14. AnswersAreKept' /\ AnswersMeetTheirReads'
  BY <1>1 DEF StreamInv, AnswersAreKept, AnswersMeetTheirReads
<1>15. PlayedSoFar'
  <2> SUFFICES ASSUME NEW q \in Requests, response'[q].pc # "unused", OneLife(q)'
               PROVE  Progress(response[q])'
    BY DEF PlayedSoFar
  <2>1. OneLife(q) /\ response[q].pc # "unused" /\ Progress(response[q])
    BY <1>1, <1>8 DEF OneLife, StreamInv, PlayedSoFar
  <2>2. QED
    BY <1>1, <1>5, <1>8, <2>1 DEF Progress
<1>16. QED
  BY <1>10, <1>11, <1>12, <1>13, <1>14, <1>15 DEF StreamInv

-----------------------------------------------------------------------------

\* An answer that nobody waits for is dropped.
LEMMA DroppedStep ==
    ASSUME StreamInv, NEW reply \in replies, Settle(reply),
           {w \in waiting : w.port = reply.port /\ w.reqId = reply.reqId} = {}
    PROVE  StreamInv'
<1>1. /\ UNCHANGED <<channel, registered, recovering, timers, asked, life, nextReqId, kept, toWorker,
                     posted, reading>>
      /\ replies' \subseteq replies /\ response \in [Requests -> ResponseState]
  BY DEF Settle, pageVars, StreamInv, Types
<1>2. waiting' = waiting /\ delivered' = delivered
  BY DEF Settle
<1>3. response' = [r \in Requests |-> response[r]]
  BY DEF Settle
<1>4. response' = response
  BY <1>1, <1>3
<1>5. Types'
  BY <1>1, <1>4 DEF StreamInv, Types
<1>6. \A r \in Requests : TurnsTo(response'[r], response[r])
  BY <1>1, <1>4 DEF TurnsTo, StreamInv, PortsAreMinted
<1>7. \A w \in waiting' : response'[w.r].pc \in {"waiting", "cancelled"}
  BY <1>2, <1>4 DEF StreamInv, WaitsAreOnce
<1>8. QED
  BY <1>1, <1>2, <1>5, <1>6, <1>7, ResponsesTurn

\* An answer to the read that waits for it: what the response becomes.
LEMMA AfterIs ==
    ASSUME StreamInv, NEW r \in Requests, NEW reply \in replies
    PROVE  LET new == After(response[r], reply)
           IN  \/ response[r].pc # "waiting" /\ new = response[r]
               \/ /\ response[r].pc = "waiting" /\ reply.kind = "bytes"
                  /\ new \in ResponseState /\ new.pc = "pulling"
                  /\ new.offset = response[r].offset + reply.len
                  /\ new.port = response[r].port
                  /\ new.start = response[r].start /\ new.end = response[r].end
               \/ /\ response[r].pc = "waiting" /\ reply.kind # "bytes"
                  /\ new \in ResponseState /\ new.pc \in {"closed", "errored"}
                  /\ new.offset = response[r].offset /\ new.port = response[r].port
                  /\ new.start = response[r].start /\ new.end = response[r].end
<1> DEFINE new == After(response[r], reply)
           next == response[r].offset + reply.len
           more == [response[r] EXCEPT !.pc = "pulling", !.offset = next]
           empty == IF FromOrigin THEN "closed" ELSE "errored"
           ended == [response[r] EXCEPT !.pc = empty]
           errored == [response[r] EXCEPT !.pc = "errored"]
<1>1. /\ response[r] \in ResponseState /\ response[r].offset \in Nat /\ reply.len \in Nat
      /\ reply.kind \in {"bytes", "empty", "error"}
  BY DEF StreamInv, Types, ReadsAreTheirOwn, IsItsOwn, AnswersAreKept, ResponseState
<1>2. next \in Nat /\ empty \in {"closed", "errored"}
  BY <1>1
<1>3. /\ response[r].pc # "waiting" => new = response[r]
      /\ response[r].pc = "waiting" /\ reply.kind = "bytes" => new = more
      /\ response[r].pc = "waiting" /\ reply.kind = "empty" => new = ended
      /\ response[r].pc = "waiting" /\ reply.kind = "error" => new = errored
  BY <1>1 DEF After
<1> HIDE DEF new, next, empty
<1>4. /\ more \in ResponseState /\ more.pc = "pulling" /\ more.offset = next
      /\ more.port = response[r].port /\ more.start = response[r].start /\ more.end = response[r].end
  BY <1>1, <1>2 DEF ResponseState
<1>5. /\ ended \in ResponseState /\ ended.pc = empty /\ ended.offset = response[r].offset
      /\ ended.port = response[r].port /\ ended.start = response[r].start
      /\ ended.end = response[r].end
  BY <1>1, <1>2 DEF ResponseState
<1>6. /\ errored \in ResponseState /\ errored.pc = "errored" /\ errored.offset = response[r].offset
      /\ errored.port = response[r].port /\ errored.start = response[r].start
      /\ errored.end = response[r].end
  BY <1>1 DEF ResponseState
<1> HIDE DEF more, ended, errored
<1>7. next = response[r].offset + reply.len
  BY DEF next
<1>8. CASE response[r].pc # "waiting"
  BY <1>3, <1>8 DEF new
<1>9. CASE response[r].pc = "waiting" /\ reply.kind = "bytes"
  BY <1>3, <1>4, <1>7, <1>9 DEF new
<1>10. CASE response[r].pc = "waiting" /\ reply.kind # "bytes"
  BY <1>1, <1>2, <1>3, <1>5, <1>6, <1>10 DEF new
<1>11. QED
  BY <1>8, <1>9, <1>10

\* What an answer takes off the table, and does to the response that waited.
LEMMA MatchedIs ==
    ASSUME StreamInv, NEW reply \in replies, Settle(reply),
           NEW w \in waiting, w.port = reply.port, w.reqId = reply.reqId
    PROVE  /\ waiting' = waiting \ {w} /\ w.r \in Requests
           /\ response' \in [Requests -> ResponseState]
           /\ response'[w.r] = After(response[w.r], reply)
           /\ \A q \in Requests \ {w.r} : response'[q] = response[q]
           /\ delivered' = IF reply.kind = "bytes" /\ response[w.r].pc = "waiting"
                           THEN delivered \cup
                                {[r |-> w.r, at |-> response[w.r].offset, offset |-> reply.offset,
                                  len |-> reply.len, asked |-> reply.life, served |-> life]}
                           ELSE delivered
<1> DEFINE matched == {v \in waiting : v.port = reply.port /\ v.reqId = reply.reqId}
           record(v) == [r |-> v.r, at |-> response[v.r].offset, offset |-> reply.offset,
                         len |-> reply.len, asked |-> reply.life, served |-> life]
           fits == reply.kind = "bytes"
<1>1. matched = {w}
  BY DEF StreamInv, WaitsAreOnce
<1>2. /\ waiting' = waiting \ matched
      /\ response' = [r \in Requests |-> IF \E v \in matched : v.r = r THEN After(response[r], reply)
                                         ELSE response[r]]
      /\ delivered' = delivered \cup
            {record(v) : v \in {v \in matched : fits /\ response[v.r].pc = "waiting"}}
  BY DEF Settle
<1> HIDE DEF matched, record, fits
<1>3. w.r \in Requests /\ response \in [Requests -> ResponseState]
  BY DEF StreamInv, WaitsAreOnce, Types
<1>4. /\ response' = [r \in Requests |-> IF w.r = r THEN After(response[r], reply) ELSE response[r]]
  BY <1>1, <1>2
<1>5. \A r \in Requests : After(response[r], reply) \in ResponseState
  BY <1>3, AfterIs
<1>6. response' \in [Requests -> ResponseState]
  BY <1>3, <1>4, <1>5
<1>7. {v \in matched : fits /\ response[v.r].pc = "waiting"} =
          IF fits /\ response[w.r].pc = "waiting" THEN {w} ELSE {}
  BY <1>1
<1>8. delivered' = IF fits /\ response[w.r].pc = "waiting" THEN delivered \cup {record(w)}
                   ELSE delivered
  BY <1>2, <1>7
<1>9. QED
  BY <1>1, <1>2, <1>3, <1>4, <1>6, <1>8 DEF record, fits

\* The bytes a response gets from a read of its own worker's life carry it on
\* from where it was to the end of a chunk, and are kept.
LEMMA BytesCarryOn ==
    ASSUME StreamInv, NEW w \in waiting, NEW reply \in replies, w.reqId = reply.reqId,
           reply.kind = "bytes", response[w.r].pc = "waiting",
           reply.life = life, OneLife(w.r),
           NEW read, read.start = response[w.r].start, read.end = response[w.r].end,
           read.offset = response[w.r].offset + reply.len
    PROVE  Progress(read)
<1> DEFINE start == response[w.r].start
           offset == response[w.r].offset
           end == response[w.r].end
           len == reply.len
<1>1. /\ start \in Nat /\ offset \in Nat /\ end \in Nat /\ start <= offset /\ offset <= end
      /\ w.r \in Requests
  BY DEF StreamInv, Types, WaitsAreOnce, PortsAreMinted, ResponseState
<1>2. reply.offset = offset /\ len = Step(offset, end)
  BY DEF StreamInv, ReadsAreTheirOwn, IsItsOwn
<1>3. WholeChunks(reply.offset, reply.offset + reply.len - 1) \subseteq kept
  BY DEF StreamInv, AnswersAreKept
<1>4. /\ WholeChunks(start, offset - 1) \subseteq kept
      /\ offset = start \/ offset > end \/ \E k \in Nat : offset = k * ChunkBytes
  BY <1>1 DEF StreamInv, PlayedSoFar, Progress
<1>5. WholeChunks(offset, offset + len - 1) \subseteq kept
  BY <1>2, <1>3
<1> HIDE DEF start, offset, end, len
<1>6. len \in Nat /\ (offset + len = end + 1 \/ \E k \in Nat : offset + len = k * ChunkBytes)
  BY <1>1, <1>2, StepEnds
<1>7. WholeChunks(start, offset + len - 1) \subseteq kept
  <2>1. offset = start \/ \E k \in Nat : offset = k * ChunkBytes
    BY <1>1, <1>4
  <2>2. QED
    BY <1>1, <1>4, <1>5, <1>6, <2>1, ChunksJoin
<1>8. offset + len > end \/ \E k \in Nat : offset + len = k * ChunkBytes
  BY <1>1, <1>6
<1>9. read.start = start /\ read.end = end /\ read.offset = offset + len
  BY DEF start, offset, end, len
<1>10. WholeChunks(read.start, read.offset - 1) \subseteq kept
  <2>1. read.offset - 1 = offset + len - 1
    BY <1>1, <1>6, <1>9
  <2>2. QED
    BY <1>7, <1>9, <2>1, Zenon
<1>11. read.offset > read.end \/ \E k \in Nat : read.offset = k * ChunkBytes
  BY <1>8, <1>9
<1>12. QED
  BY <1>10, <1>11 DEF Progress

\* An answer settles the read it is matched with.
LEMMA SettleStep ==
    ASSUME StreamInv, NEW reply \in replies, Settle(reply)
    PROVE  StreamInv'
<1>1. CASE {w \in waiting : w.port = reply.port /\ w.reqId = reply.reqId} = {}
  BY <1>1, DroppedStep
<1>2. ASSUME NEW w \in waiting, w.port = reply.port, w.reqId = reply.reqId
      PROVE  StreamInv'
  <2> DEFINE r == w.r
             new == response'[r]
             got == reply.kind = "bytes" /\ response[r].pc = "waiting"
             given == [r |-> w.r, at |-> response[w.r].offset, offset |-> reply.offset,
                       len |-> reply.len, asked |-> reply.life, served |-> life]
  <2>1. /\ UNCHANGED <<channel, registered, recovering, timers, asked, life, nextReqId, kept,
                       toWorker, posted, reading>>
        /\ replies' \subseteq replies /\ response \in [Requests -> ResponseState]
    BY DEF Settle, pageVars, StreamInv, Types
  <2>2. /\ waiting' = waiting \ {w} /\ r \in Requests
        /\ response' \in [Requests -> ResponseState] /\ new = After(response[r], reply)
        /\ \A q \in Requests \ {r} : response'[q] = response[q]
        /\ delivered' = IF got THEN delivered \cup {given} ELSE delivered
    BY <1>2, MatchedIs
  <2>3. \/ response[r].pc # "waiting" /\ new = response[r]
        \/ /\ got /\ new.pc = "pulling" /\ new.offset = response[r].offset + reply.len
           /\ new.port = response[r].port
           /\ new.start = response[r].start /\ new.end = response[r].end
        \/ /\ response[r].pc = "waiting" /\ reply.kind # "bytes"
           /\ new.pc \in {"closed", "errored"}
           /\ new.offset = response[r].offset /\ new.port = response[r].port
           /\ new.start = response[r].start /\ new.end = response[r].end
    BY <2>2, AfterIs
  <2>4. \A v \in waiting' : /\ v \in waiting /\ v.r \in Requests /\ v.r # r
                            /\ response'[v.r] = response[v.r]
    BY <2>2 DEF StreamInv, WaitsAreOnce
  <2>5. IsItsOwn(reply) /\ reply.offset \in Nat /\ reply.len \in Nat
    BY DEF StreamInv, ReadsAreTheirOwn, IsItsOwn
  <2>6. /\ response[r].start \in Nat /\ response[r].offset \in Nat
        /\ response[r].start <= response[r].offset
    BY <2>1, <2>2 DEF StreamInv, PortsAreMinted, ResponseState
  <2>7. given.r = w.r /\ given.at = response[w.r].offset /\ given.offset = reply.offset
        /\ given.asked = reply.life /\ given.served = life
    OBVIOUS
  <2> HIDE DEF given, new, got
  <2>8. Types'
    BY <2>1, <2>2 DEF StreamInv, Types
  <2>9. PortsAreMinted'
    <3> SUFFICES ASSUME NEW q \in Requests
                 PROVE  /\ response'[q].pc \in {"pulling", "waiting"} => response'[q].port \in 1..channel
                        /\ response'[q].pc = "waiting" => response'[q].offset <= response'[q].end
                        /\ response'[q].start <= response'[q].offset
      BY <2>1 DEF PortsAreMinted
    <3>1. CASE q # r
      BY <2>2, <3>1 DEF StreamInv, PortsAreMinted
    <3>2. CASE q = r
      <4>1. response[r].start <= response[r].offset + reply.len
        BY <2>5, <2>6
      <4>2. response[r].pc = "waiting" => response[r].port \in 1..channel
        BY <2>2 DEF StreamInv, PortsAreMinted
      <4>3. CASE response[r].pc # "waiting"
        BY <2>2, <2>3, <3>2, <4>3 DEF StreamInv, PortsAreMinted, new, got
      <4>4. CASE response[r].pc = "waiting"
        BY <2>3, <2>6, <3>2, <4>1, <4>2, <4>4 DEF new
      <4>5. QED
        BY <4>3, <4>4
    <3>3. QED
      BY <3>1, <3>2
  <2>10. WaitsAreOnce'
    <3>1. \A q \in Requests : response'[q].pc = "waiting" => \E v \in waiting' : v.r = q
      <4> SUFFICES ASSUME NEW q \in Requests, response'[q].pc = "waiting"
                   PROVE  \E v \in waiting' : v.r = q
        OBVIOUS
      <4>1. q # r
        BY <2>3 DEF new, got
      <4>2. response[q].pc = "waiting"
        BY <2>2, <4>1
      <4>3. PICK v \in waiting : v.r = q
        BY <4>2 DEF StreamInv, WaitsAreOnce
      <4>4. QED
        BY <2>2, <4>1, <4>3
    <3>2. QED
      BY <2>1, <2>4, <3>1 DEF StreamInv, WaitsAreOnce
  <2>11. ReadsAreTheirOwn'
    <3>1. \A q : IsItsOwn(q) => IsItsOwn(q)'
      BY <2>1, <2>4 DEF IsItsOwn
    <3>2. QED
      BY <2>1, <3>1 DEF StreamInv, ReadsAreTheirOwn
  <2>12. AnswersAreKept'
    BY <2>1 DEF StreamInv, AnswersAreKept
  <2>13. AnswersMeetTheirReads'
    <3>1. got /\ given.asked = given.served => given.offset = given.at
      BY <1>2, <2>5, <2>7 DEF IsItsOwn, got
    <3>2. QED
      BY <2>2, <3>1 DEF StreamInv, AnswersMeetTheirReads
  <2>14. PlayedSoFar'
    <3> SUFFICES ASSUME NEW q \in Requests, response'[q].pc # "unused", OneLife(q)'
                 PROVE  Progress(response[q])'
      BY DEF PlayedSoFar
    <3>1. OneLife(q)
      BY <2>2 DEF OneLife
    <3>2. CASE q # r
      BY <2>1, <2>2, <3>1, <3>2 DEF StreamInv, PlayedSoFar, Progress
    <3>3. CASE q = r /\ got
      <4>1. given \in delivered'
        BY <2>2, <3>3
      <4>2. reply.life = life
        BY <2>7, <3>3, <4>1 DEF OneLife
      <4>3. PICK read : read = response'[r]
        OBVIOUS
      <4>4. /\ read.start = response[w.r].start /\ read.end = response[w.r].end
            /\ read.offset = response[w.r].offset + reply.len
        BY <2>3, <3>3, <4>3 DEF new, got
      <4>5. Progress(read)
        BY <1>2, <3>1, <3>3, <4>2, <4>4, BytesCarryOn DEF got
      <4>6. QED
        BY <2>1, <3>3, <4>3, <4>5 DEF Progress
    <3>4. CASE q = r /\ ~got
      <4>1. Progress(response[r])
        BY <2>3, <3>1, <3>4 DEF StreamInv, PlayedSoFar, got, new
      <4>2. QED
        BY <2>1, <2>3, <3>4, <4>1 DEF Progress, new
    <3>5. QED
      BY <3>2, <3>3, <3>4
  <2>15. QED
    BY <2>8, <2>9, <2>10, <2>11, <2>12, <2>13, <2>14 DEF StreamInv
<1>3. QED
  BY <1>1, <1>2

\* A worker dies with its table; what its life asked for is of another life now.
LEMMA DieStep ==
    ASSUME StreamInv, Die
    PROVE  StreamInv'
<1>1. /\ UNCHANGED <<channel, kept, toWorker, asked, posted, reading, response, delivered>>
      /\ life' = life + 1 /\ life \in Nat /\ waiting' = {} /\ replies' = {}
      /\ registered' = 0 /\ nextReqId' = 1 /\ recovering' = FALSE /\ timers' = 0
      /\ \A r \in Requests : response[r].pc \notin {"waiting"}
      /\ channel \in Nat \ {0} /\ 0 \in 0..channel
  BY DEF Die, Live, pageVars, StreamInv, Types
<1>2. Types'
  <2>1. /\ life + 1 \in Nat /\ 1 \in Nat /\ 0 \in Nat /\ FALSE \in BOOLEAN
    BY <1>1
  <2>2. /\ kept \subseteq Chunks /\ asked \in Nat /\ toWorker \in Seq(Messages(channel))
        /\ response \in [Requests -> ResponseState]
    BY DEF StreamInv, Types
  <2>3. QED
    BY <1>1, <2>1, <2>2 DEF Types
<1>3. PortsAreMinted' /\ WaitsAreOnce'
  BY <1>1 DEF StreamInv, PortsAreMinted, WaitsAreOnce
<1>4. ReadsAreTheirOwn'
  <2>1. ASSUME NEW q, IsItsOwn(q)  PROVE IsItsOwn(q)'
    <3>1. q.life \in Nat /\ q.life <= life /\ q.life # life + 1 /\ q.life <= life + 1
      BY <1>1, <2>1 DEF IsItsOwn
    <3>2. QED
      BY <1>1, <2>1, <3>1 DEF IsItsOwn
  <2>2. QED
    BY <1>1, <2>1 DEF StreamInv, ReadsAreTheirOwn
<1>5. AnswersAreKept' /\ AnswersMeetTheirReads' /\ PlayedSoFar'
  BY <1>1 DEF StreamInv, AnswersAreKept, AnswersMeetTheirReads, PlayedSoFar, OneLife, Progress
<1>6. QED
  BY <1>2, <1>3, <1>4, <1>5 DEF StreamInv

-----------------------------------------------------------------------------

(* The invariant holds of a worker that has just started. *)
LEMMA StreamInit == Init => StreamInv
<1> SUFFICES ASSUME Init  PROVE StreamInv
  OBVIOUS
<1>1. toWorker \in Seq(Messages(channel))
  <2>1. [type |-> "register", port |-> 1] \in Messages(1)
    BY DEF Messages
  <2>2. QED
    BY <2>1 DEF Init
<1>2. Types
  <2>1. Unused \in ResponseState
    BY DEF Unused, ResponseState
  <2>2. response \in [Requests -> ResponseState]
    BY <2>1 DEF Init
  <2>3. /\ channel = 1 /\ registered = 0 /\ recovering = FALSE /\ timers = 0 /\ asked = 0
        /\ life = 1 /\ nextReqId = 1 /\ kept = {}
    BY DEF Init
  <2>4. FALSE \in BOOLEAN /\ 1 \in Nat \ {0} /\ 0 \in 0..1 /\ 0 \in Nat /\ {} \subseteq Chunks
    OBVIOUS
  <2>5. QED
    BY <1>1, <2>2, <2>3, <2>4 DEF Types
<1>3. PortsAreMinted /\ WaitsAreOnce /\ ReadsAreTheirOwn /\ AnswersAreKept
      /\ AnswersMeetTheirReads /\ PlayedSoFar
  BY DEF Init, Unused, PortsAreMinted, WaitsAreOnce, ReadsAreTheirOwn, AnswersAreKept,
         AnswersMeetTheirReads, PlayedSoFar
<1>4. QED
  BY <1>2, <1>3 DEF StreamInv

(* Every step keeps the invariant. *)
LEMMA StreamStep ==
    ASSUME StreamInv, [Next]_vars
    PROVE  StreamInv'
<1>1. ASSUME NEW r \in Requests, NEW header \in Headers, Fetch(r, header)  PROVE StreamInv'
  BY <1>1, FetchStep
<1>2. ASSUME NEW r \in Requests, Pull(r)  PROVE StreamInv'
  BY <1>2, PullStep
<1>3. ASSUME NEW r \in Requests, Close(r) \/ Cancel(r)  PROVE StreamInv'
  BY <1>3, EndSteps
<1>4. CASE PageStep \/ Release
  BY <1>4, PageSteps DEF PageStep
<1>5. CASE Register \/ RecoverTimeout
  BY <1>5, RegistrationSteps
<1>6. CASE Released
  BY <1>6, ReleasedStep
<1>7. ASSUME NEW reply \in replies, Settle(reply)  PROVE StreamInv'
  BY <1>7, SettleStep
<1>8. CASE Die
  BY <1>8, DieStep
<1>9. CASE UNCHANGED vars
  BY <1>9 DEF vars, pageVars, workerVars, wireVars, StreamInv, Types, PortsAreMinted, WaitsAreOnce,
              ReadsAreTheirOwn, IsItsOwn, AnswersAreKept, AnswersMeetTheirReads, PlayedSoFar,
              OneLife, Progress
<1>10. QED
  BY <1>1, <1>2, <1>3, <1>4, <1>5, <1>6, <1>7, <1>8, <1>9 DEF Next, WorkerStep

\* The worker's table, its responses and the reads on their way between it and
\* the page agree in every state, whatever is dropped, overtaken or restarted.
THEOREM StreamInvariant == Spec => []StreamInv
BY StreamInit, StreamStep, PTL DEF Spec

\* Who waits is waited for once; within one life of the worker every read gets
\* its own bytes; and what one worker played to the end of its window leaves
\* every chunk inside it kept, whatever the sizes of files, chunks and reads.
THEOREM StreamsStayTrue == Spec => []StreamsAreTrue
<1>1. StreamInv => TypeOK
  <2> SUFFICES ASSUME StreamInv  PROVE TypeOK
    OBVIOUS
  <2>1. ASSUME NEW r \in Requests, response[r].pc = "waiting"
        PROVE  Cardinality({w \in waiting : w.r = r}) = 1
    <3>1. PICK w \in waiting : w.r = r
      BY <2>1 DEF StreamInv, WaitsAreOnce
    <3>2. {v \in waiting : v.r = r} = {w}
      BY <3>1 DEF StreamInv, WaitsAreOnce
    <3>3. QED
      BY <3>2, FS_Singleton
  <2>2. QED
    BY <2>1 DEF StreamInv, Types, WaitsAreOnce, TypeOK
<1>2. StreamInv => AnswersMeetTheirReads
  BY DEF StreamInv
<1>3. StreamInv => PlayedIsKept
  <2> SUFFICES ASSUME StreamInv, NEW r \in Requests,
                      response[r].pc = "closed", response[r].offset > response[r].end,
                      \A d \in delivered : d.r = r => d.asked = d.served
               PROVE  WholeChunks(response[r].start, response[r].end) \subseteq kept
    BY DEF PlayedIsKept
  <2>1. WholeChunks(response[r].start, response[r].offset - 1) \subseteq kept
    BY DEF StreamInv, PlayedSoFar, OneLife, Progress
  <2>2. response[r].offset \in Nat /\ response[r].end \in Nat
    BY DEF StreamInv, Types, ResponseState
  <2>3. \A c \in Chunks : ChunkEnd(c) <= response[r].end => ChunkEnd(c) <= response[r].offset - 1
    <3> TAKE c \in Chunks
    <3>1. ChunkEnd(c) \in Nat
      BY ChunkSpans
    <3>2. QED
      BY <2>2, <3>1
  <2>4. QED
    BY <2>1, <2>3 DEF WholeChunks
<1>4. QED
  BY <1>1, <1>2, <1>3, StreamInvariant, PTL DEF StreamsAreTrue

-----------------------------------------------------------------------------
(* What crosses a wire: tickets, and the streams of the mount protocol.      *)

LEMMA LeastOfNaturals ==
    ASSUME NEW S, S \subseteq Nat, S # {}
    PROVE  \E n \in S : \A i \in S : n <= i
<1>1. PICK n \in S : \A i \in S : ~ (<<i, n>> \in OpToRel(<, Nat))
  BY NatLessThanWellFounded, WFMin
<1>2. \A i \in S : ~ (i < n)
  BY <1>1 DEF OpToRel
<1>3. QED
  BY <1>2

LEMMA EmptyIn == ASSUME NEW S PROVE << >> \in Seq(S)
OBVIOUS

LEMMA EmptyIs == ToSet(<< >>) = {} /\ IsInjective(<< >>) /\ Len(<< >>) = 0
BY DEF ToSet, IsInjective

LEMMA ToSetIs ==
    ASSUME NEW S, NEW s \in Seq(S), NEW n, Len(s) = n
    PROVE  ToSet(s) = {s[a] : a \in 1..n}
BY DEF ToSet

LEMMA SeqIs ==
    ASSUME NEW S, NEW s \in Seq(S)
    PROVE  /\ Len(s) \in Nat /\ DOMAIN s = 1..Len(s) /\ \A a \in 1..Len(s) : s[a] \in S
           /\ ToSet(s) = {s[a] : a \in 1..Len(s)} /\ ToSet(s) \subseteq S
           /\ IsInjective(s) <=> \A a, b \in 1..Len(s) : s[a] = s[b] => a = b
BY DEF ToSet, IsInjective

LEMMA AppendIs ==
    ASSUME NEW S, NEW s \in Seq(S), NEW x \in S
    PROVE  /\ Append(s, x) \in Seq(S) /\ Len(Append(s, x)) = Len(s) + 1
           /\ Append(s, x)[Len(s) + 1] = x /\ \A a \in 1..Len(s) : Append(s, x)[a] = s[a]
           /\ ToSet(Append(s, x)) = ToSet(s) \cup {x}
           /\ IsInjective(s) /\ x \notin ToSet(s) => IsInjective(Append(s, x))
<1>1. PICK t : t = Append(s, x)
  OBVIOUS
<1>2. /\ t \in Seq(S) /\ Len(t) = Len(s) + 1 /\ Len(s) \in Nat
      /\ t[Len(s) + 1] = x /\ \A a \in 1..Len(s) : t[a] = s[a]
  BY <1>1
<1>3. ToSet(t) = {t[a] : a \in 1..Len(s) + 1} /\ ToSet(s) = {s[a] : a \in 1..Len(s)}
  BY <1>2, SeqIs
<1>4. \A a : a \in 1..Len(s) + 1 <=> a \in 1..Len(s) \/ a = Len(s) + 1
  BY <1>2
<1>5. ToSet(t) = ToSet(s) \cup {x}
  BY <1>2, <1>3, <1>4
<1>6. ASSUME IsInjective(s), x \notin ToSet(s) PROVE IsInjective(t)
  <2>1. \A a, b \in 1..Len(s) : s[a] = s[b] => a = b
    BY <1>6, SeqIs
  <2>2. \A a \in 1..Len(s) : s[a] # x
    BY <1>3, <1>6
  <2>3. \A a, b \in 1..Len(t) : t[a] = t[b] => a = b
    BY <1>2, <1>4, <2>1, <2>2
  <2>4. QED
    BY <1>2, <2>3, SeqIs
<1>7. QED
  BY <1>1, <1>2, <1>5, <1>6

LEMMA ConcatIs ==
    ASSUME NEW S, NEW s \in Seq(S), NEW t \in Seq(S)
    PROVE  /\ s \o t \in Seq(S) /\ ToSet(s \o t) = ToSet(s) \cup ToSet(t)
           /\ IsInjective(s) /\ IsInjective(t) /\ ToSet(s) \cap ToSet(t) = {} => IsInjective(s \o t)
<1>1. PICK u : u = s \o t
  OBVIOUS
<1>2. PICK m, n : m = Len(s) /\ n = Len(t)
  OBVIOUS
<1>3. /\ u \in Seq(S) /\ Len(u) = m + n /\ m \in Nat /\ n \in Nat
      /\ \A a \in 1..m : u[a] = s[a]
      /\ \A a \in (m + 1)..(m + n) : u[a] = t[a - m]
  BY <1>1, <1>2
<1>4. \A a \in 1..n : a + m \in 1..m + n /\ u[a + m] = t[a]
  BY <1>3
<1>5. /\ \A a \in 1..m : a \in 1..m + n
      /\ \A a \in 1..m + n : a \in 1..m \/ (a - m \in 1..n /\ a \in (m + 1)..(m + n))
  BY <1>3
<1>6. ToSet(s) = {s[a] : a \in 1..m} /\ ToSet(t) = {t[a] : a \in 1..n} /\ ToSet(u) = {u[a] : a \in 1..m + n}
  BY <1>2, <1>3, ToSetIs
<1>7. ToSet(u) = ToSet(s) \cup ToSet(t)
  <2>1. ASSUME NEW a \in 1..m + n PROVE u[a] \in ToSet(s) \cup ToSet(t)
    BY <1>3, <1>5, <1>6
  <2>2. \A a \in 1..m : s[a] \in ToSet(u)
    BY <1>3, <1>5, <1>6
  <2>3. \A a \in 1..n : t[a] \in ToSet(u)
    BY <1>4, <1>6
  <2>4. QED
    BY <1>6, <2>1, <2>2, <2>3
<1>8. ASSUME IsInjective(s), IsInjective(t), ToSet(s) \cap ToSet(t) = {} PROVE IsInjective(u)
  <2>1. /\ \A a, b \in 1..m : s[a] = s[b] => a = b
        /\ \A a, b \in 1..n : t[a] = t[b] => a = b
    BY <1>2, <1>8, SeqIs
  <2>2. \A a \in 1..m, b \in 1..n : s[a] # t[b]
    BY <1>6, <1>8
  <2>3. ASSUME NEW a \in 1..m + n, NEW b \in 1..m + n, u[a] = u[b] PROVE a = b
    <3>1. CASE a \in 1..m /\ b \in 1..m
      BY <1>3, <2>1, <2>3, <3>1
    <3>2. CASE a \in 1..m /\ b \notin 1..m
      BY <1>3, <1>5, <2>2, <2>3, <3>2
    <3>3. CASE a \notin 1..m /\ b \in 1..m
      BY <1>3, <1>5, <2>2, <2>3, <3>3
    <3>4. CASE a \notin 1..m /\ b \notin 1..m
      <4>1. a - m \in 1..n /\ b - m \in 1..n /\ t[a - m] = t[b - m]
        BY <1>3, <1>5, <2>3, <3>4
      <4>2. a - m = b - m
        BY <2>1, <4>1
      <4>3. QED
        BY <1>3, <4>2
    <3>5. QED
      BY <3>1, <3>2, <3>3, <3>4
  <2>4. QED
    BY <1>3, <2>3, SeqIs
<1>9. QED
  BY <1>1, <1>3, <1>7, <1>8

\* A set of naturals with zero and every successor has them all.
LEMMA SetInduction ==
    ASSUME NEW S, 0 \in S, \A n \in Nat : n \in S => n + 1 \in S
    PROVE  Nat \subseteq S
<1> DEFINE others == Nat \ S
<1> SUFFICES ASSUME others # {}  PROVE FALSE
  OBVIOUS
<1>1. PICK n \in others : \A k \in others : n <= k
  BY LeastOfNaturals
<1>2. n \in Nat /\ n # 0 /\ n - 1 \in Nat /\ ~(n <= n - 1) /\ n = (n - 1) + 1
  OBVIOUS
<1>3. n - 1 \in S
  BY <1>1, <1>2
<1>4. QED
  BY <1>2, <1>3

\* FlattenSeq holds what its parts hold.
LEMMA FlattenIs ==
    ASSUME NEW S, NEW seqs \in Seq(Seq(S))
    PROVE  /\ FlattenSeq(seqs) \in Seq(S)
           /\ ToSet(FlattenSeq(seqs)) = UNION {ToSet(seqs[i]) : i \in 1..Len(seqs)}
<1>1. PICK n \in Nat : n = Len(seqs)
  OBVIOUS
<1>2. DOMAIN seqs = 1..n /\ \A i \in 1..n : seqs[i] \in Seq(S)
  BY <1>1
<1>3. CASE n = 0
  <2>1. seqs = << >> /\ 1..Len(seqs) = {}
    <3>1. Len(seqs) = 0
      BY <1>1, <1>3
    <3>2. seqs = << >>
      BY <3>1
    <3>3. QED
      BY <3>1, <3>2
  <2>2. FlattenSeq(seqs) = seqs
    BY <1>1, <1>3 DEF FlattenSeq
  <2>3. << >> \in Seq(S) /\ ToSet(<< >>) = {}
    BY EmptyIs
  <2>4. UNION {ToSet(seqs[i]) : i \in {}} = {}
    OBVIOUS
  <2>5. QED
    BY <2>1, <2>2, <2>3, <2>4
<1>4. CASE n # 0
  <2> DEFINE Flat(f, k) == f = [i \in 1..k |-> IF i = 1 THEN seqs[i] ELSE f[i - 1] \o seqs[i]]
             K == {k \in Nat : \E f : Flat(f, k)}
  <2>1. 0 \in K
    <3>1. 1..0 = {}
      OBVIOUS
    <3>2. Flat([i \in 1..0 |-> << >>], 0)
      BY <3>1
    <3>3. QED
      BY <3>2
  <2>2. ASSUME NEW k \in Nat, k \in K PROVE k + 1 \in K
    <3>1. PICK g : Flat(g, k)
      BY <2>2
    <3> DEFINE h == [i \in 1..k + 1 |-> IF i = k + 1
                                         THEN IF i = 1 THEN seqs[i] ELSE g[k] \o seqs[i]
                                         ELSE g[i]]
               body(i) == IF i = 1 THEN seqs[i] ELSE h[i - 1] \o seqs[i]
    <3>2. \A i \in 1..k + 1 : h[i] = body(i)
      <4> TAKE i \in 1..k + 1
      <4>1. CASE i = k + 1
        <5>1. /\ h[i] = IF i = 1 THEN seqs[i] ELSE g[k] \o seqs[i]
              /\ i # 1 => i - 1 \in 1..k + 1 /\ i - 1 # k + 1 /\ i - 1 = k
          BY <4>1
        <5>2. i # 1 => h[i - 1] = g[k]
          BY <5>1
        <5>3. QED
          <6> HIDE DEF h
          <6> QED  BY <5>1, <5>2
      <4>2. CASE i # k + 1
        <5>1. i \in 1..k /\ h[i] = g[i] /\ (i # 1 => i - 1 \in 1..k /\ h[i - 1] = g[i - 1])
          BY <4>2
        <5>2. g[i] = IF i = 1 THEN seqs[i] ELSE g[i - 1] \o seqs[i]
          BY <3>1, <5>1
        <5>3. QED
          <6> HIDE DEF h
          <6> QED  BY <5>1, <5>2
      <4>3. QED
        BY <4>1, <4>2
    <3>3. h = [i \in 1..k + 1 |-> h[i]]
      OBVIOUS
    <3>4. Flat(h, k + 1)
      <4> HIDE DEF h
      <4> QED  BY <3>2, <3>3
    <3>5. QED
      <4> HIDE DEF h, Flat
      <4> QED  BY <3>4
  <2>3. \E f : Flat(f, n)
    <3>1. n \in K
      <4> HIDE DEF K
      <4> QED  BY <2>1, <2>2, SetInduction
    <3>2. QED
      <4> HIDE DEF Flat
      <4> QED  BY <3>1
  <2>4. FlattenSeq(seqs) = (CHOOSE f : Flat(f, n))[n]
    BY <1>1, <1>4 DEF FlattenSeq
  <2>5. PICK f : Flat(f, n) /\ FlattenSeq(seqs) = f[n]
    <3> HIDE DEF Flat
    <3> QED  BY <2>3, <2>4
  <2> DEFINE Held(k) == UNION {ToSet(seqs[i]) : i \in 1..k}
             J == {k \in Nat : k \in 1..n => f[k] \in Seq(S) /\ ToSet(f[k]) = Held(k)}
  <2>6. 0 \in J
    OBVIOUS
  <2>7. ASSUME NEW k \in Nat, k \in J PROVE k + 1 \in J
    <3> SUFFICES ASSUME k + 1 \in 1..n PROVE f[k + 1] \in Seq(S) /\ ToSet(f[k + 1]) = Held(k + 1)
      OBVIOUS
    <3>1. CASE k = 0
      <4>1. k + 1 = 1 /\ 1 \in 1..n /\ 1..1 = {1}
        BY <3>1
      <4>2. f[1] = seqs[1]
        BY <2>5, <4>1
      <4>3. Held(1) = ToSet(seqs[1])
        BY <4>1
      <4>4. QED
        <5> HIDE DEF Held
        <5> QED  BY <1>2, <4>1, <4>2, <4>3
    <3>2. CASE k # 0
      <4>1. k \in 1..n /\ k + 1 # 1 /\ (k + 1) - 1 = k
        BY <3>2
      <4>2. f[k + 1] = f[k] \o seqs[k + 1]
        BY <2>5, <4>1
      <4>3. f[k] \in Seq(S) /\ ToSet(f[k]) = Held(k)
        BY <2>7, <4>1
      <4>4. f[k + 1] \in Seq(S) /\ ToSet(f[k + 1]) = ToSet(f[k]) \cup ToSet(seqs[k + 1])
        BY <1>2, <4>2, <4>3, ConcatIs
      <4>5. \A i : i \in 1..k + 1 <=> i \in 1..k \/ i = k + 1
        OBVIOUS
      <4>6. Held(k + 1) = Held(k) \cup ToSet(seqs[k + 1])
        BY <4>5
      <4>7. QED
        <5> HIDE DEF Held
        <5> QED  BY <4>3, <4>4, <4>6
    <3>3. QED
      BY <3>1, <3>2
  <2>8. n \in J
    <3> HIDE DEF J
    <3> QED  BY <2>6, <2>7, SetInduction
  <2>9. n \in 1..n
    BY <1>4
  <2>10. f[n] \in Seq(S) /\ ToSet(f[n]) = Held(n)
    <3> HIDE DEF Held
    <3> QED  BY <2>8, <2>9
  <2>11. QED
    BY <1>1, <2>5, <2>10
<1>5. QED
  BY <1>3, <1>4

\* What is computed step by step exists ...
IsStep(step, V, n) == step \in [(1..n) \X V -> V]
Computes(f, V, first, step, n) ==
    /\ f \in [0..n -> V] /\ f[0] = first
    /\ \A k \in 1..n : f[k - 1] \in V /\ f[k] = step[<<k, f[k - 1]>>]
LEMMA RecursionIs ==
    ASSUME NEW V, NEW first, first \in V, NEW n, n \in Nat, NEW step, IsStep(step, V, n)
    PROVE  \E f : Computes(f, V, first, step, n)
<1> USE DEF IsStep, Computes
<1> DEFINE Upto(f, m) == /\ f \in [0..m -> V] /\ f[0] = first
                         /\ \A k \in 1..m : f[k] = step[<<k, f[k - 1]>>]
           S == {m \in Nat : m <= n => \E f : Upto(f, m)}
<1>1. 0 \in S
  <2>1. Upto([k \in 0..0 |-> first], 0)
    OBVIOUS
  <2>2. QED
    BY <2>1
<1>2. ASSUME NEW m \in Nat, m \in S PROVE m + 1 \in S
  <2> SUFFICES ASSUME m + 1 <= n PROVE \E f : Upto(f, m + 1)
    OBVIOUS
  <2>1. PICK f : Upto(f, m)
    BY <1>2
  <2>2. PICK last : last = step[<<m + 1, f[m]>>]
    OBVIOUS
  <2>3. last \in V
    <3>1. m \in 0..m /\ m + 1 \in 1..n
      OBVIOUS
    <3>2. <<m + 1, f[m]>> \in (1..n) \X V
      BY <2>1, <3>1
    <3>3. QED
      BY <2>2, <3>2
  <2>4. PICK h : h = [k \in 0..m + 1 |-> IF k = m + 1 THEN last ELSE f[k]]
    OBVIOUS
  <2>5. h \in [0..m + 1 -> V] /\ h[m + 1] = last /\ \A k \in 0..m : h[k] = f[k]
    <3>1. \A k \in 0..m + 1 : k = m + 1 \/ k \in 0..m
      OBVIOUS
    <3>2. m + 1 \in 0..m + 1 /\ \A k \in 0..m : k \in 0..m + 1 /\ k # m + 1
      OBVIOUS
    <3>3. QED
      BY <2>1, <2>3, <2>4, <3>1, <3>2
  <2>6. \A k \in 1..m + 1 : h[k] = step[<<k, h[k - 1]>>]
    <3> TAKE k \in 1..m + 1
    <3>1. k - 1 \in 0..m /\ (k = m + 1 \/ k \in 1..m) /\ (k = m + 1 => k - 1 = m) /\ (k \in 1..m => k \in 0..m)
      OBVIOUS
    <3>2. h[k - 1] = f[k - 1]
      BY <2>5, <3>1
    <3>3. QED
      BY <2>1, <2>2, <2>5, <3>1, <3>2
  <2>7. h[0] = first
    BY <2>1, <2>5
  <2>8. Upto(h, m + 1)
    BY <2>5, <2>6, <2>7
  <2>9. QED
    BY <2>8
<1>3. n \in S
  <2> HIDE DEF S
  <2> QED  BY <1>1, <1>2, SetInduction
<1>4. PICK f : Upto(f, n)
  BY <1>3
<1>5. \A k \in 1..n : k - 1 \in 0..n
  OBVIOUS
<1>6. QED
  BY <1>4, <1>5

\* ... and is one only.
IsRow(f, n) == f = [k \in 0..n |-> f[k]]
LEMMA SameFrom ==
    ASSUME NEW n \in Nat, NEW f, NEW g, IsRow(f, n), IsRow(g, n),
           f[0] = g[0], \A k \in 1..n : f[k - 1] = g[k - 1] => f[k] = g[k]
    PROVE  f = g
<1> DEFINE S == {m \in Nat : m <= n => f[m] = g[m]}
<1>1. 0 \in S
  OBVIOUS
<1>2. ASSUME NEW m \in Nat, m \in S PROVE m + 1 \in S
  <2> SUFFICES ASSUME m + 1 <= n PROVE f[m + 1] = g[m + 1]
    OBVIOUS
  <2>1. m + 1 \in 1..n /\ (m + 1) - 1 = m /\ f[m] = g[m]
    BY <1>2
  <2>2. QED
    BY <2>1
<1>3. Nat \subseteq S
  <2> HIDE DEF S
  <2> QED  BY <1>1, <1>2, SetInduction
<1>4. \A k \in 0..n : f[k] = g[k]
  BY <1>3
<1>5. QED
  BY <1>4 DEF IsRow

\* A sequence of parts, one behind the other.
LEMMA FlattenSteps ==
    ASSUME NEW S, NEW seqs \in Seq(Seq(S))
    PROVE  \E f \in [0..Len(seqs) -> Seq(S)] :
               /\ f[0] = << >> /\ \A k \in 1..Len(seqs) : f[k] = f[k - 1] \o seqs[k]
               /\ FlattenSeq(seqs) = f[Len(seqs)]
<1>1. PICK n \in Nat : n = Len(seqs)
  OBVIOUS
<1>2. DOMAIN seqs = 1..n /\ \A i \in 1..n : seqs[i] \in Seq(S)
  BY <1>1
<1>3. PICK step : step = [x \in (1..n) \X Seq(S) |-> x[2] \o seqs[x[1]]]
  OBVIOUS
<1>4. IsStep(step, Seq(S), n)
  <2>1. \A x \in (1..n) \X Seq(S) : x[2] \o seqs[x[1]] \in Seq(S)
    BY <1>2, ConcatProperties
  <2>2. QED
    BY <1>3, <2>1 DEF IsStep
<1>5. PICK none : none = << >>
  OBVIOUS
<1>6. PICK f \in [0..n -> Seq(S)] :
        f[0] = << >> /\ \A k \in 1..n : f[k - 1] \in Seq(S) /\ f[k] = step[<<k, f[k - 1]>>]
  <2>1. none \in Seq(S)
    BY <1>5, EmptyIn
  <2>2. PICK f : Computes(f, Seq(S), none, step, n)
    BY <1>4, <2>1, RecursionIs
  <2>3. QED
    BY <1>5, <2>2 DEF Computes
<1>7. \A k \in 1..n : f[k] = f[k - 1] \o seqs[k]
  <2> TAKE k \in 1..n
  <2>1. <<k, f[k - 1]>> \in (1..n) \X Seq(S)
    BY <1>6
  <2>2. QED
    BY <1>3, <1>6, <2>1
<1>8. FlattenSeq(seqs) = f[n]
  <2>1. CASE n = 0
    <3>1. Len(seqs) = 0 /\ f[n] = << >>
      BY <1>1, <1>6, <2>1
    <3>2. seqs = << >>
      BY <3>1
    <3>3. QED
      BY <3>1, <3>2 DEF FlattenSeq
  <2>2. CASE n # 0
    <3> DEFINE Flat(h) == h = [i \in 1..n |-> IF i = 1 THEN seqs[i] ELSE h[i - 1] \o seqs[i]]
    <3>1. PICK g : g = [i \in 1..n |-> f[i]]
      OBVIOUS
    <3>2. \A i \in 1..n : g[i] = IF i = 1 THEN seqs[i] ELSE g[i - 1] \o seqs[i]
      <4> TAKE i \in 1..n
      <4>1. i # 1 => i - 1 \in 1..n
        OBVIOUS
      <4>4. g[i] = f[i] /\ (i # 1 => g[i - 1] = f[i - 1])
        BY <3>1, <4>1
      <4>5. f[i] = f[i - 1] \o seqs[i]
        BY <1>7
      <4>2. i = 1 => f[i - 1] = << >> /\ << >> \o seqs[i] = seqs[i]
        BY <1>2, <1>6, ConcatEmptySeq
      <4>3. QED
        BY <4>2, <4>4, <4>5
    <3>3. Flat(g)
      BY <3>1, <3>2
    <3>4. FlattenSeq(seqs) = (CHOOSE h : Flat(h))[n]
      BY <1>1, <2>2 DEF FlattenSeq
    <3>5. PICK h : Flat(h) /\ FlattenSeq(seqs) = h[n]
      <4> HIDE DEF Flat
      <4> QED  BY <3>3, <3>4
    <3>6. PICK e : e = [k \in 0..n |-> IF k = 0 THEN << >> ELSE h[k]]
      OBVIOUS
    <3>7. e[0] = << >> /\ \A k \in 1..n : e[k] = h[k]
      BY <3>6
    <3>8. \A k \in 1..n : e[k] = e[k - 1] \o seqs[k]
      <4> TAKE k \in 1..n
      <4>1. CASE k = 1
        <5>1. h[1] = seqs[1] /\ k - 1 = 0
          BY <3>5, <4>1
        <5>2. << >> \o seqs[1] = seqs[1]
          BY <1>2, <4>1, ConcatEmptySeq
        <5>3. QED
          BY <3>7, <4>1, <5>1, <5>2
      <4>2. CASE k # 1
        <5>1. k - 1 \in 1..n
          BY <4>2
        <5>3. h[k] = h[k - 1] \o seqs[k]
          BY <3>5, <4>2
        <5>2. QED
          BY <3>7, <5>1, <5>3
      <4>3. QED
        BY <4>1, <4>2
    <3>9. e = f
      <4>1. IsRow(e, n) /\ IsRow(f, n)
        BY <1>6, <3>6 DEF IsRow
      <4>2. e[0] = f[0] /\ \A k \in 1..n : e[k - 1] = f[k - 1] => e[k] = f[k]
        BY <1>6, <1>7, <3>7, <3>8
      <4>3. QED
        BY <4>1, <4>2, SameFrom
    <3>10. n \in 1..n
      BY <2>2
    <3>11. QED
      <4> HIDE DEF Flat
      <4> QED  BY <3>5, <3>7, <3>9, <3>10
  <2>3. QED
    BY <2>1, <2>2
<1>9. QED
  BY <1>1, <1>6, <1>7, <1>8

Bytes == Seq(Nat)

\* `written` has `part` right behind its first `at` units.
Holding(written, at, part) ==
    /\ at \in Nat /\ at + Len(part) <= Len(written)
    /\ \A i \in 1..Len(part) : written[at + i] = part[i]

\* `units` is what came of `written` before it broke off.
CutOff(units, written) ==
    /\ units \in Bytes /\ Len(units) <= Len(written)
    /\ \A i \in 1..Len(units) : units[i] = written[i]

LEMMA BytesAre ==
    ASSUME NEW s \in Bytes
    PROVE  s \in Seq(Nat) /\ Len(s) \in Nat /\ DOMAIN s = 1..Len(s) /\ \A i \in 1..Len(s) : s[i] \in Nat
BY DEF Bytes

LEMMA HoldsItself == ASSUME NEW written \in Bytes PROVE Holding(written, 0, written)
BY BytesAre DEF Holding

LEMMA JoinedAre ==
    ASSUME NEW a \in Bytes, NEW b \in Bytes
    PROVE  /\ a \o b \in Bytes /\ Len(a \o b) = Len(a) + Len(b)
           /\ \A i \in 1..Len(a) : (a \o b)[i] = a[i]
           /\ \A i \in 1..Len(b) : (a \o b)[Len(a) + i] = b[i]
<1>1. PICK c, m, n : c = a \o b /\ m = Len(a) /\ n = Len(b)
  OBVIOUS
<1>2. c \in Bytes /\ Len(c) = m + n /\ \A i \in 1..m + n : c[i] = IF i <= m THEN a[i] ELSE b[i - m]
  BY <1>1, ConcatProperties DEF Bytes
<1>3. m \in Nat /\ n \in Nat
  BY <1>1, BytesAre
<1>4. \A i \in 1..m : i \in 1..m + n /\ i <= m
  BY <1>3
<1>5. \A i \in 1..n : m + i \in 1..m + n /\ ~(m + i <= m) /\ (m + i) - m = i
  BY <1>3
<1>6. QED
  BY <1>1, <1>2, <1>4, <1>5

LEMMA HoldsParts ==
    ASSUME NEW written \in Bytes, NEW at, NEW a \in Bytes, NEW b \in Bytes, Holding(written, at, a \o b)
    PROVE  Holding(written, at, a) /\ Holding(written, at + Len(a), b)
<1>1. PICK c, m, n : c = a \o b /\ m = Len(a) /\ n = Len(b)
  OBVIOUS
<1>2. /\ m \in Nat /\ n \in Nat /\ Len(c) = m + n
      /\ \A i \in 1..m : c[i] = a[i]
      /\ \A i \in 1..n : c[m + i] = b[i]
  BY <1>1, JoinedAre, BytesAre
<1>3. at \in Nat /\ at + (m + n) <= Len(written) /\ \A i \in 1..m + n : written[at + i] = c[i]
  BY <1>1, <1>2 DEF Holding
<1>4. Len(written) \in Nat
  BY BytesAre
<1>5. \A i \in 1..m : i \in 1..m + n
  BY <1>2
<1>6. \A i \in 1..n : m + i \in 1..m + n /\ at + (m + i) = (at + m) + i
  BY <1>2, <1>3
<1>7. at + m \in Nat /\ at + m <= Len(written) /\ (at + m) + n <= Len(written)
  BY <1>2, <1>3, <1>4
<1>8. QED
  BY <1>1, <1>2, <1>3, <1>5, <1>6, <1>7 DEF Holding

\* Two sequences with the same units are one.
LEMMA SameBytes ==
    ASSUME NEW a \in Bytes, NEW b \in Bytes, Len(a) = Len(b), \A i \in 1..Len(a) : a[i] = b[i]
    PROVE  a = b
BY SeqEqual DEF Bytes

LEMMA PartIs ==
    ASSUME NEW s \in Bytes, NEW at \in Nat, NEW n \in Nat, at + n <= Len(s)
    PROVE  /\ SubSeq(s, at + 1, at + n) \in Bytes /\ Len(SubSeq(s, at + 1, at + n)) = n
           /\ \A i \in 1..n : SubSeq(s, at + 1, at + n)[i] = s[at + i]
<1>1. \A i \in at + 1..at + n : s[i] \in Nat
  BY BytesAre
<1>2. at + 1 \in Int /\ at + n \in Int
  OBVIOUS
<1>3. PICK lo, hi : lo = at + 1 /\ hi = at + n
  OBVIOUS
<1>4. PICK p : p = SubSeq(s, lo, hi)
  OBVIOUS
<1>5. /\ p \in Seq(Nat) /\ Len(p) = IF lo <= hi THEN hi - lo + 1 ELSE 0
      /\ \A i \in 1..hi - lo + 1 : p[i] = s[lo + i - 1]
  BY <1>1, <1>2, <1>3, <1>4, SubSeqProperties
<1>6. hi - lo + 1 = n /\ (~(lo <= hi) => n = 0)
  BY <1>3
<1>7. \A i \in 1..n : lo + i - 1 = at + i
  BY <1>3
<1>8. QED
  BY <1>3, <1>4, <1>5, <1>6, <1>7 DEF Bytes

LEMMA TextIs ==
    ASSUME NEW t \in Bytes
    PROVE  Wire!Text(t) = <<Len(t)>> \o t /\ <<Len(t)>> \in Bytes /\ Len(<<Len(t)>>) = 1
           /\ Wire!Text(t) \in Bytes /\ Len(Wire!Text(t)) = Len(t) + 1
<1>1. PICK n : n = Len(t)
  OBVIOUS
<1>2. <<n>> \in Bytes /\ Len(<<n>>) = 1
  BY <1>1, BytesAre DEF Bytes
<1>3. QED
  BY <1>1, <1>2, JoinedAre, BytesAre DEF Wire!Text

\* A text read where one was written: all of it, or nothing.
LEMMA ReadTextIs ==
    ASSUME NEW written \in Bytes, NEW units, CutOff(units, written), NEW at \in Nat, NEW t \in Bytes,
           Holding(written, at, Wire!Text(t))
    PROVE  Wire!ReadText(units, at + 1) =
             IF at + Len(t) + 1 <= Len(units) THEN Wire!Read(t, at + Len(t) + 2) ELSE Wire!Refused
<1>1. PICK n : n = Len(t)
  OBVIOUS
<1>2. n \in Nat /\ Len(units) \in Nat /\ Len(written) \in Nat /\ units \in Bytes
  BY <1>1, BytesAre DEF CutOff
<1>3. <<n>> \in Bytes /\ Len(<<n>>) = 1 /\ Wire!Text(t) = <<n>> \o t
  BY <1>1, TextIs
<1>4. Holding(written, at, <<n>>) /\ Holding(written, at + 1, t)
  BY <1>3, HoldsParts
<1>5. written[at + 1] = n /\ at + 1 <= Len(written) /\ \A i \in 1..n : written[(at + 1) + i] = t[i]
  BY <1>1, <1>3, <1>4 DEF Holding
<1>6. CASE at + 1 > Len(units)
  <2>1. ~(at + n + 1 <= Len(units))
    BY <1>2, <1>6
  <2>2. QED
    BY <1>1, <1>6, <2>1 DEF Wire!ReadText
<1>7. CASE at + 1 <= Len(units)
  <2>1. at + 1 \in 1..Len(units)
    BY <1>2, <1>7
  <2>2. units[at + 1] = n
    BY <1>5, <2>1 DEF CutOff
  <2>3. CASE at + n + 1 <= Len(units)
    <3>1. PICK p, m : p = SubSeq(units, (at + 1) + 1, (at + 1) + n) /\ m = at + 1
      OBVIOUS
    <3>9. m \in Nat /\ m + n <= Len(units) /\ p = SubSeq(units, m + 1, m + n)
      BY <1>2, <2>3, <3>1
    <3>10. p \in Bytes /\ Len(p) = n /\ \A i \in 1..n : p[i] = units[m + i]
      BY <1>2, <3>9, PartIs
    <3>2. p \in Bytes /\ Len(p) = n /\ \A i \in 1..n : p[i] = units[(at + 1) + i]
      BY <3>1, <3>10
    <3>3. \A i \in 1..n : (at + 1) + i \in 1..Len(units)
      BY <1>2, <2>3
    <3>4. \A i \in 1..n : p[i] = t[i]
      BY <1>5, <3>2, <3>3 DEF CutOff
    <3>5. p = t
      BY <1>1, <3>2, <3>4, SameBytes
    <3>6. ~(at + 1 > Len(units)) /\ ~((at + 1) + n > Len(units)) /\ (at + 1) + n + 1 = at + n + 2
      BY <1>2, <1>7, <2>3
    <3>7. Wire!ReadText(units, at + 1) = Wire!Read(p, (at + 1) + n + 1)
      BY <2>2, <3>1, <3>6 DEF Wire!ReadText
    <3>8. QED
      BY <1>1, <2>3, <3>5, <3>6, <3>7
  <2>4. CASE ~(at + n + 1 <= Len(units))
    <3>1. (at + 1) + n > Len(units)
      BY <1>2, <2>4
    <3>2. QED
      BY <1>1, <2>2, <2>4, <3>1 DEF Wire!ReadText
  <2>5. QED
    BY <2>3, <2>4
<1>8. QED
  BY <1>2, <1>6, <1>7

Behind(l) == [i \in DOMAIN l |-> Wire!Text(l[i])]

\* Where each text of a row begins, the first one behind `at` units.
RowIn(written, at, l, start) ==
    /\ start \in [0..Len(l) -> Nat] /\ start[0] = at
    /\ \A k \in 1..Len(l) :
          start[k] = start[k - 1] + Len(l[k]) + 1 /\ Holding(written, start[k - 1], Wire!Text(l[k]))

LEMMA BehindIs ==
    ASSUME NEW l \in Seq(Bytes)
    PROVE  /\ Behind(l) \in Seq(Seq(Nat)) /\ Len(Behind(l)) = Len(l) /\ Len(l) \in Nat
           /\ \A k \in 1..Len(l) : l[k] \in Bytes /\ Behind(l)[k] = Wire!Text(l[k])
<1>1. PICK n : n = Len(l)
  OBVIOUS
<1>2. n \in Nat /\ DOMAIN l = 1..n /\ \A k \in 1..n : l[k] \in Bytes
  BY <1>1
<1>3. PICK b : b = Behind(l)
  OBVIOUS
<1>4. b = [k \in 1..n |-> Wire!Text(l[k])]
  BY <1>2, <1>3 DEF Behind
<1>5. \A k \in 1..n : Wire!Text(l[k]) \in Seq(Nat)
  BY <1>2, TextIs DEF Bytes
<1>6. b \in [1..n -> Seq(Nat)]
  BY <1>4, <1>5
<1>7. b \in Seq(Seq(Nat)) /\ Len(b) = n
  BY <1>2, <1>6
<1>8. QED
  BY <1>1, <1>2, <1>3, <1>4, <1>7

LEMMA RowsAreIn ==
    ASSUME NEW written \in Bytes, NEW at, NEW l \in Seq(Bytes), Holding(written, at, FlattenSeq(Behind(l)))
    PROVE  \E start : /\ RowIn(written, at, l, start)
                      /\ start[Len(l)] = at + Len(FlattenSeq(Behind(l)))
<1>1. PICK n, seqs : n = Len(l) /\ seqs = Behind(l)
  OBVIOUS
<1>2. /\ seqs \in Seq(Seq(Nat)) /\ Len(seqs) = n /\ n \in Nat
      /\ \A k \in 1..n : l[k] \in Bytes /\ seqs[k] = Wire!Text(l[k])
  BY <1>1, BehindIs
<1>3. PICK f \in [0..n -> Bytes] :
        /\ f[0] = << >> /\ \A k \in 1..n : f[k] = f[k - 1] \o seqs[k]
        /\ FlattenSeq(seqs) = f[n]
  BY <1>2, FlattenSteps DEF Bytes
<1>4. \A k \in 1..n : k \in 0..n /\ k - 1 \in 0..n /\ f[k] \in Bytes /\ f[k - 1] \in Bytes
  <2>1. \A k \in 1..n : k \in 0..n /\ k - 1 \in 0..n
    BY <1>2
  <2>2. QED
    BY <2>1
<1>5. \A k \in 1..n : seqs[k] \in Bytes /\ Len(seqs[k]) = Len(l[k]) + 1
  BY <1>2, TextIs
<1>6. \A k \in 1..n : Holding(written, at, f[k]) =>
                          Holding(written, at, f[k - 1]) /\ Holding(written, at + Len(f[k - 1]), seqs[k])
  BY <1>3, <1>4, <1>5, HoldsParts
<1> DEFINE S == {d \in Nat : d <= n => Holding(written, at, f[n - d])}
<1>7. 0 \in S
  BY <1>1, <1>2, <1>3
<1>8. ASSUME NEW d \in Nat, d \in S PROVE d + 1 \in S
  <2> SUFFICES ASSUME d + 1 <= n PROVE Holding(written, at, f[n - (d + 1)])
    OBVIOUS
  <2>1. PICK k : k = n - d
    OBVIOUS
  <2>2. k \in 1..n /\ n - (d + 1) = k - 1 /\ Holding(written, at, f[k])
    BY <1>2, <1>8, <2>1
  <2>3. QED
    BY <1>6, <2>2
<1>9. \A k \in 0..n : Holding(written, at, f[k])
  <2> HIDE DEF S
  <2>1. Nat \subseteq S
    BY <1>7, <1>8, SetInduction
  <2>2. \A k \in 0..n : n - k \in Nat /\ n - k <= n /\ n - (n - k) = k
    BY <1>2
  <2>3. \A k \in 0..n : Holding(written, at, f[n - (n - k)])
    BY <2>1, <2>2 DEF S
  <2>4. QED
    BY <2>2, <2>3
<1>10. PICK start : start = [k \in 0..n |-> at + Len(f[k])]
  OBVIOUS
<1>11. at \in Nat /\ \A k \in 0..n : Len(f[k]) \in Nat
  <2>1. at \in Nat
    BY <1>1 DEF Holding
  <2>2. QED
    BY <1>3, <2>1, BytesAre
<1>12. start \in [0..n -> Nat]
  BY <1>10, <1>11
<1>13. start[0] = at
  <2>1. Len(f[0]) = 0 /\ 0 \in 0..n
    BY <1>2, <1>3, EmptyIs
  <2>2. QED
    BY <1>10, <1>11, <2>1
<1>14. ASSUME NEW k \in 1..n
       PROVE  start[k] = start[k - 1] + Len(l[k]) + 1 /\ Holding(written, start[k - 1], Wire!Text(l[k]))
  <2>1. start[k] = at + Len(f[k]) /\ start[k - 1] = at + Len(f[k - 1])
    BY <1>4, <1>10
  <2>2. PICK a, b, c : a = f[k - 1] /\ b = seqs[k] /\ c = f[k]
    OBVIOUS
  <2>3. a \in Bytes /\ b \in Bytes /\ c = a \o b
    BY <1>3, <1>4, <1>5, <2>2
  <2>6. Len(c) = Len(a) + Len(b) /\ Len(a) \in Nat
    BY <2>3, JoinedAre, BytesAre
  <2>7. PICK size : size = Len(l[k])
    OBVIOUS
  <2>8. Len(b) = size + 1 /\ size \in Nat
    BY <1>2, <1>5, <2>2, <2>7, BytesAre
  <2>9. at \in Nat /\ start[k] = at + Len(c) /\ start[k - 1] = at + Len(a)
    BY <1>11, <2>1, <2>2
  <2>4. start[k] = start[k - 1] + Len(l[k]) + 1
    <3>1. PICK x, y : x = Len(a) /\ y = Len(b)
      OBVIOUS
    <3>2. x \in Nat /\ y = size + 1 /\ size \in Nat /\ at \in Nat
          /\ start[k] = at + (x + y) /\ start[k - 1] = at + x
      BY <2>6, <2>8, <2>9, <3>1
    <3>3. at + (x + y) = (at + x) + size + 1
      BY <3>2
    <3>4. QED
      BY <2>7, <3>2, <3>3
  <2>5. QED
    BY <1>2, <1>4, <1>6, <1>9, <2>1, <2>4
<1>15. RowIn(written, at, l, start)
  BY <1>1, <1>12, <1>13, <1>14 DEF RowIn
<1>16. start[n] = at + Len(FlattenSeq(seqs))
  BY <1>2, <1>3, <1>10
<1>17. QED
  BY <1>1, <1>15, <1>16

LEMMA OneMorePart ==
    ASSUME NEW S, NEW l \in Seq(S), NEW k \in 1..Len(l)
    PROVE  Append(SubSeq(l, 1, k - 1), l[k]) = SubSeq(l, 1, k)
<1>1. k \in k..Len(l) /\ 1 \in 1..Len(l) /\ k \in 1..Len(l) /\ l[k] \in S
  OBVIOUS
<1>2. PICK j, x : j = k - 1 /\ x = l[k]
  OBVIOUS
<1>3. SubSeq(l, 1, k) = SubSeq(l, 1, j) \o <<x>>
  BY <1>1, <1>2, SubSeqRecursiveSecond
<1>4. SubSeq(l, 1, j) \in Seq(S)
  <2>1. j \in Int /\ \A i \in 1..j : l[i] \in S
    BY <1>2
  <2>2. QED
    BY <2>1, SubSeqProperties
<1>5. x \in S
  BY <1>1, <1>2
<1>6. Append(SubSeq(l, 1, j), x) = SubSeq(l, 1, j) \o <<x>>
  BY <1>4, <1>5, AppendIsConcat
<1>7. QED
  BY <1>2, <1>3, <1>6

\* What a reader of texts has after one more of them.
LadderStep(units, read) ==
    IF ~read.ok THEN Wire!Refused
    ELSE LET text == Wire!ReadText(units, read.pos)
         IN  IF text.ok THEN Wire!Read(Append(read.value, text.value), text.pos) ELSE Wire!Refused

\* A row of texts read where one was written: all of it, or nothing.
LEMMA ReadLadderIs ==
    ASSUME NEW written \in Bytes, NEW units, CutOff(units, written), NEW at \in Nat,
           NEW l \in Seq(Bytes), l # << >>, NEW start, RowIn(written, at, l, start)
    PROVE  Wire!ReadLadder(units, at + 1, Len(l)) =
             IF start[Len(l)] <= Len(units) THEN Wire!Read(l, start[Len(l)] + 1) ELSE Wire!Refused
<1>1. PICK n, length : n = Len(l) /\ length = Len(units)
  OBVIOUS
<1>2. n \in Nat \ {0} /\ length \in Nat /\ \A k \in 1..n : l[k] \in Bytes
  BY <1>1, BytesAre DEF CutOff
<1>3. /\ \A k \in 0..n : start[k] \in Nat
      /\ start[0] = at
      /\ \A k \in 1..n : start[k] = start[k - 1] + Len(l[k]) + 1 /\ Holding(written, start[k - 1], Wire!Text(l[k]))
  BY <1>1 DEF RowIn
<1>13. PICK part : \A k \in 0..n : part[k] = SubSeq(l, 1, k)
  <2>1. PICK part : part = [k \in 0..n |-> SubSeq(l, 1, k)]
    OBVIOUS
  <2>2. \A k \in 0..n : part[k] = SubSeq(l, 1, k)
    BY <2>1, Zenon
  <2>3. QED
    BY <2>2, Zenon
<1>14. part[0] = << >> /\ part[n] = l /\ \A k \in 1..n : Append(part[k - 1], l[k]) = part[k]
  <2>1. SubSeq(l, 1, 0) = << >> /\ 0 \in 0..n /\ n \in 0..n
    BY <1>2, SubSeqEmpty
  <2>2. SubSeq(l, 1, n) = l
    BY <1>1, SubSeqFull
  <2>3. ASSUME NEW k \in 1..n PROVE Append(part[k - 1], l[k]) = part[k]
    <3>1. k - 1 \in 0..n /\ k \in 0..n
      BY <1>2
    <3>2. Append(SubSeq(l, 1, k - 1), l[k]) = SubSeq(l, 1, k)
      BY <1>1, OneMorePart
    <3>3. QED
      BY <1>13, <3>1, <3>2
  <2>4. QED
    BY <1>13, <2>1, <2>2, <2>3
<1>4. PICK c : c = [k \in 0..n |-> IF k = 0 \/ start[k] <= length
                                   THEN Wire!Read(part[k], start[k] + 1) ELSE Wire!Refused]
  OBVIOUS
<1>5. c[0] = Wire!Read(<< >>, at + 1)
  BY <1>2, <1>3, <1>4, <1>14
<1>6. ASSUME NEW k \in 1..n PROVE c[k] = LadderStep(units, c[k - 1])
  <2>1. PICK j, t, size : j = k - 1 /\ t = l[k] /\ size = Len(t)
    OBVIOUS
  <2>2. j \in 0..n /\ k \in 0..n /\ k # 0 /\ t \in Bytes /\ size \in Nat
    BY <1>2, <2>1, BytesAre
  <2>3. PICK here, next : here = start[j] /\ next = start[k]
    OBVIOUS
  <2>4. here \in Nat /\ next = here + size + 1 /\ next \in Nat /\ Holding(written, here, Wire!Text(t))
    BY <1>3, <2>1, <2>2, <2>3
  <2>5. Wire!ReadText(units, here + 1) = IF next <= length THEN Wire!Read(t, next + 1) ELSE Wire!Refused
    <3>1. Wire!ReadText(units, here + 1) =
            IF here + size + 1 <= length THEN Wire!Read(t, here + size + 2) ELSE Wire!Refused
      BY <1>1, <2>1, <2>2, <2>4, ReadTextIs
    <3>2. here + size + 2 = next + 1
      BY <2>2, <2>4
    <3>3. QED
      BY <2>4, <3>1, <3>2
  <2>6. /\ c[j] = IF j = 0 \/ here <= length THEN Wire!Read(part[j], here + 1) ELSE Wire!Refused
        /\ c[k] = IF next <= length THEN Wire!Read(part[k], next + 1) ELSE Wire!Refused
    BY <1>4, <2>2, <2>3
  <2>7. CASE j = 0 \/ here <= length
    <3>1. c[j].ok /\ c[j].pos = here + 1 /\ c[j].value = part[j]
      BY <2>6, <2>7 DEF Wire!Read
    <3>2. Append(part[j], t) = part[k]
      BY <1>14, <2>1
    <3>3. CASE next <= length
      <4>1. Wire!ReadText(units, here + 1) = Wire!Read(t, next + 1)
        BY <2>5, <3>3
      <4>2. LadderStep(units, c[j]) = Wire!Read(part[k], next + 1)
        <5>1. PICK read, text : read = c[j] /\ text = Wire!ReadText(units, here + 1)
          OBVIOUS
        <5>2. text.ok /\ text.value = t /\ text.pos = next + 1
          BY <4>1, <5>1 DEF Wire!Read
        <5>3. read.ok /\ Wire!ReadText(units, read.pos) = text /\ Append(read.value, text.value) = part[k]
          BY <3>1, <3>2, <5>1, <5>2
        <5>4. QED
          BY <5>1, <5>2, <5>3 DEF LadderStep
      <4>3. QED
        BY <2>1, <2>6, <3>3, <4>2
    <3>4. CASE ~(next <= length)
      <4>1. Wire!ReadText(units, here + 1) = Wire!Refused
        BY <2>5, <3>4
      <4>2. LadderStep(units, c[j]) = Wire!Refused
        BY <3>1, <4>1 DEF LadderStep, Wire!Refused
      <4>3. QED
        BY <2>1, <2>6, <3>4, <4>2
    <3>5. QED
      BY <3>3, <3>4
  <2>8. CASE ~(j = 0 \/ here <= length)
    <3>1. ~(next <= length)
      BY <1>2, <2>2, <2>4, <2>8
    <3>2. c[k] = Wire!Refused /\ c[j] = Wire!Refused
      BY <2>6, <2>8, <3>1
    <3>3. QED
      BY <2>1, <3>2 DEF LadderStep, Wire!Refused
  <2>9. QED
    BY <2>7, <2>8
<1> DEFINE Reads(g) == g = [k \in 0..n |-> IF k = 0 THEN Wire!Read(<< >>, at + 1) ELSE LadderStep(units, g[k - 1])]
<1>7. Reads(c)
  <2>1. \A k \in 0..n : k = 0 \/ k \in 1..n
    OBVIOUS
  <2>2. \A k \in 0..n : c[k] = IF k = 0 THEN Wire!Read(<< >>, at + 1) ELSE LadderStep(units, c[k - 1])
    BY <1>5, <1>6, <2>1
  <2>3. c = [k \in 0..n |-> c[k]]
    BY <1>4
  <2>4. QED
    BY <2>2, <2>3
<1>8. PICK g : Reads(g) /\ Wire!ReadLadder(units, at + 1, n) = g[n]
  <2>1. Wire!ReadLadder(units, at + 1, n) = (CHOOSE g : Reads(g))[n]
    BY DEF Wire!ReadLadder, LadderStep
  <2>2. QED
    <3> HIDE DEF Reads
    <3> QED  BY <1>7, <2>1
<1>9. g = c
  <2>1. IsRow(g, n) /\ IsRow(c, n)
    BY <1>4, <1>8 DEF IsRow
  <2>2. g[0] = c[0]
    BY <1>2, <1>5, <1>8
  <2>3. \A k \in 1..n : g[k - 1] = c[k - 1] => g[k] = c[k]
    <3> TAKE k \in 1..n
    <3>1. k \in 0..n /\ k # 0
      OBVIOUS
    <3>2. g[k] = LadderStep(units, g[k - 1])
      BY <1>8, <3>1
    <3>3. QED
      BY <1>6, <3>2
  <2>4. QED
    BY <1>2, <2>1, <2>2, <2>3, SameFrom
<1>11. c[n] = IF start[n] <= length THEN Wire!Read(l, start[n] + 1) ELSE Wire!Refused
  BY <1>2, <1>4, <1>14
<1>12. QED
  <2> HIDE DEF Reads
  <2> QED  BY <1>1, <1>8, <1>9, <1>11

LEMMA SameTruth == ASSUME NEW a \in BOOLEAN, NEW b \in BOOLEAN, a <=> b PROVE a = b
OBVIOUS

LEMMA WireFlattens == ASSUME NEW s PROVE Wire!FlattenSeq(s) = FlattenSeq(s)
BY DEF Wire!FlattenSeq, FlattenSeq

LEMMA HoldsOne ==
    ASSUME NEW written, NEW at, NEW x, Holding(written, at, <<x>>)
    PROVE  written[at + 1] = x
<1>1. PICK part : part = <<x>>
  OBVIOUS
<1>2. Len(part) = 1 /\ part[1] = x /\ 1 \in 1..1
  BY <1>1
<1>3. QED
  BY <1>1, <1>2 DEF Holding

AllLookups ==
    [mdns : BOOLEAN, dht : BOOLEAN, relay : {"disabled", "pinned"}, ladder : {<< >>}]
    \cup {o \in [mdns : BOOLEAN, dht : BOOLEAN, relay : {"custom"}, ladder : Seq(Bytes)] :
            Len(o.ladder) \in 1..MaxRelayLadder}

FlagsOf(o) ==
    (IF o.mdns THEN 1 ELSE 0) + (IF o.dht THEN 2 ELSE 0)
    + CASE o.relay = "disabled" -> 0
        [] o.relay = "pinned" -> Wire!RelayEnabled
        [] o.relay = "custom" -> Wire!RelayEnabled + Wire!RelayCustom

\* Each option has a bit of its own.
LEMMA FlagsAre ==
    ASSUME NEW o \in AllLookups
    PROVE  LET f == FlagsOf(o)
           IN  /\ f \in Nat
               /\ Wire!Bit(f, 1) = o.mdns /\ Wire!Bit(f, 2) = o.dht
               /\ Wire!Bit(f, Wire!RelayEnabled) <=> o.relay # "disabled"
               /\ Wire!Bit(f, Wire!RelayCustom) <=> o.relay = "custom"
<1>1. o.mdns \in BOOLEAN /\ o.dht \in BOOLEAN /\ o.relay \in {"disabled", "pinned", "custom"}
  BY DEF AllLookups
<1>2. PICK m, d, r : /\ m = (IF o.mdns THEN 1 ELSE 0) /\ d = (IF o.dht THEN 2 ELSE 0)
                     /\ r = CASE o.relay = "disabled" -> 0
                              [] o.relay = "pinned" -> Wire!RelayEnabled
                              [] o.relay = "custom" -> Wire!RelayEnabled + Wire!RelayCustom
  OBVIOUS
<1>3. \/ r = 0 /\ o.relay = "disabled"
      \/ r = 4 /\ o.relay = "pinned"
      \/ r = 12 /\ o.relay = "custom"
  BY <1>1, <1>2 DEF Wire!RelayEnabled, Wire!RelayCustom
<1>4. (m = 1 /\ o.mdns = TRUE) \/ (m = 0 /\ o.mdns = FALSE)
  BY <1>1, <1>2
<1>5. (d = 2 /\ o.dht = TRUE) \/ (d = 0 /\ o.dht = FALSE)
  BY <1>1, <1>2
<1>6. PICK f : f = FlagsOf(o)
  OBVIOUS
<1>7. f = m + d + r
  BY <1>2, <1>6 DEF FlagsOf
<1>8. f \in Nat
  BY <1>3, <1>4, <1>5, <1>7
<1>9. f % 2 = 1 <=> m = 1
  BY <1>3, <1>4, <1>5, <1>7
<1>10. (f \div 2) % 2 = 1 <=> d = 2
  BY <1>3, <1>4, <1>5, <1>7
<1>11. (f \div 4) % 2 = 1 <=> r # 0
  BY <1>3, <1>4, <1>5, <1>7
<1>12. (f \div 8) % 2 = 1 <=> r = 12
  BY <1>3, <1>4, <1>5, <1>7
<1>13. f \div 1 = f
  BY <1>8
<1>14. /\ Wire!Bit(f, 1) <=> m = 1
       /\ Wire!Bit(f, 2) <=> d = 2
       /\ Wire!Bit(f, Wire!RelayEnabled) <=> r # 0
       /\ Wire!Bit(f, Wire!RelayCustom) <=> r = 12
  BY <1>9, <1>10, <1>11, <1>12, <1>13 DEF Wire!Bit, Wire!RelayEnabled, Wire!RelayCustom
<1>15. Wire!Bit(f, 1) \in BOOLEAN /\ Wire!Bit(f, 2) \in BOOLEAN
  BY DEF Wire!Bit
<1>16. Wire!Bit(f, 1) = o.mdns
  <2>1. m = 1 <=> o.mdns
    BY <1>4
  <2>2. Wire!Bit(f, 1) <=> o.mdns
    BY <1>14, <2>1, Zenon
  <2>3. QED
    BY <1>1, <1>15, <2>2, SameTruth, Zenon
<1>17. Wire!Bit(f, 2) = o.dht
  <2>1. d = 2 <=> o.dht
    BY <1>5
  <2>2. Wire!Bit(f, 2) <=> o.dht
    BY <1>14, <2>1, Zenon
  <2>3. QED
    BY <1>1, <1>15, <2>2, SameTruth, Zenon
<1>18. QED
  BY <1>3, <1>6, <1>8, <1>14, <1>16, <1>17

\* What is written of the lookups.
LEMMA EncodeLookupsIs ==
    ASSUME NEW o \in AllLookups
    PROVE  /\ Wire!EncodeLookups(o) \in Bytes
           /\ Wire!EncodeLookups(o) =
                <<FlagsOf(o)>> \o (IF o.relay = "custom"
                                  THEN <<Len(o.ladder)>> \o FlattenSeq(Behind(o.ladder)) ELSE << >>)
<1>1. PICK f, texts : f = FlagsOf(o) /\ texts = Behind(o.ladder)
  OBVIOUS
<1>2. texts = [i \in DOMAIN o.ladder |-> Wire!Text(o.ladder[i])]
  BY <1>1 DEF Behind
<1>3. Wire!EncodeLookups(o) =
        <<f>> \o (IF o.relay = "custom" THEN <<Len(o.ladder)>> \o FlattenSeq(texts) ELSE << >>)
  BY ONLY <1>1, <1>2, WireFlattens DEF Wire!EncodeLookups, FlagsOf
<1>4. <<f>> \in Bytes
  BY <1>1, FlagsAre DEF Bytes
<1>5. CASE o.relay = "custom"
  <2>1. o.ladder \in Seq(Bytes)
    BY <1>5 DEF AllLookups
  <2>2. FlattenSeq(texts) \in Bytes
    <3>1. texts \in Seq(Seq(Nat))
      BY <1>1, <2>1, BehindIs
    <3>2. QED
      BY <3>1, FlattenIs DEF Bytes
  <2>3. <<Len(o.ladder)>> \in Bytes
    BY <2>1 DEF Bytes
  <2>4. <<f>> \o (<<Len(o.ladder)>> \o FlattenSeq(texts)) \in Bytes
    BY <1>4, <2>2, <2>3, JoinedAre
  <2>5. QED
    BY <1>1, <1>3, <1>5, <2>4
<1>6. CASE o.relay # "custom"
  <2>1. <<f>> \o << >> = <<f>>
    BY <1>4, ConcatEmptySeq DEF Bytes
  <2>2. QED
    BY <1>1, <1>3, <1>4, <1>6, <2>1
<1>7. QED
  BY <1>5, <1>6

\* The lookups read where some were written: all of them, or nothing.
LEMMA DecodeLookupsIs ==
    ASSUME NEW written \in Bytes, NEW units, CutOff(units, written), NEW at \in Nat,
           NEW o \in AllLookups, Holding(written, at, Wire!EncodeLookups(o))
    PROVE  /\ Wire!EncodeLookups(o) \in Bytes
           /\ Wire!DecodeLookups(units, at + 1) =
                IF at + Len(Wire!EncodeLookups(o)) <= Len(units)
                THEN Wire!Read(o, at + Len(Wire!EncodeLookups(o)) + 1) ELSE Wire!Refused
<1>1. PICK f, enc, length : f = FlagsOf(o) /\ enc = Wire!EncodeLookups(o) /\ length = Len(units)
  OBVIOUS
<1>2. /\ f \in Nat /\ Wire!Bit(f, 1) = o.mdns /\ Wire!Bit(f, 2) = o.dht
      /\ Wire!Bit(f, Wire!RelayEnabled) <=> o.relay # "disabled"
      /\ Wire!Bit(f, Wire!RelayCustom) <=> o.relay = "custom"
  BY <1>1, FlagsAre
<1>3. enc = <<f>> \o (IF o.relay = "custom"
                      THEN <<Len(o.ladder)>> \o FlattenSeq(Behind(o.ladder)) ELSE << >>)
  BY <1>1, EncodeLookupsIs, Zenon
<1>4. <<f>> \in Bytes /\ Len(<<f>>) = 1 /\ length \in Nat
  BY <1>1, <1>2, BytesAre DEF Bytes, CutOff
<1>5. CASE o.relay # "custom"
  <2>1. enc = <<f>>
    BY <1>3, <1>4, <1>5, ConcatEmptySeq DEF Bytes
  <2>2. written[at + 1] = f /\ Len(enc) = 1 /\ enc \in Bytes
    BY <1>1, <1>4, <2>1 DEF Holding
  <2>3. o = [mdns |-> o.mdns, dht |-> o.dht, relay |-> o.relay, ladder |-> << >>]
        /\ o.relay \in {"disabled", "pinned"}
    BY <1>5 DEF AllLookups
  <2>4. CASE at + 1 > length
    <3>1. ~(at + Len(enc) <= length)
      BY <1>4, <2>2, <2>4
    <3>2. QED
      BY <1>1, <2>2, <2>4, <3>1 DEF Wire!DecodeLookups
  <2>5. CASE ~(at + 1 > length)
    <3>1. at + 1 \in 1..length /\ at + Len(enc) <= length /\ at + Len(enc) + 1 = (at + 1) + 1
      BY <1>4, <2>2, <2>5
    <3>2. units[at + 1] = f
      BY <1>1, <2>2, <3>1 DEF CutOff
    <3>3. Wire!DecodeLookups(units, at + 1) = Wire!Read(o, (at + 1) + 1)
      <4>1. CASE o.relay = "disabled"
        BY <1>1, <1>2, <1>5, <2>3, <2>5, <3>2, <4>1 DEF Wire!DecodeLookups
      <4>2. CASE o.relay = "pinned"
        BY <1>1, <1>2, <1>5, <2>3, <2>5, <3>2, <4>2 DEF Wire!DecodeLookups
      <4>3. QED
        BY <2>3, <4>1, <4>2
    <3>4. QED
      BY <1>1, <2>2, <3>1, <3>3
  <2>6. QED
    BY <2>4, <2>5
<1>6. CASE o.relay = "custom"
  <2>1. PICK l, c : l = o.ladder /\ c = Len(o.ladder)
    OBVIOUS
  <2>2. /\ l \in Seq(Bytes) /\ c \in 1..MaxRelayLadder /\ c = Len(l) /\ c \in Nat /\ l # << >>
        /\ o = [mdns |-> o.mdns, dht |-> o.dht, relay |-> "custom", ladder |-> l]
    <3>1. o \in [mdns : BOOLEAN, dht : BOOLEAN, relay : {"custom"}, ladder : Seq(Bytes)]
          /\ Len(o.ladder) \in 1..MaxRelayLadder
      BY <1>6 DEF AllLookups
    <3>2. l \in Seq(Bytes) /\ c = Len(l) /\ c \in 1..MaxRelayLadder
      BY <2>1, <3>1
    <3>3. l # << >> /\ c \in Nat
      BY <3>2, EmptyIs
    <3>4. QED
      BY <1>6, <2>1, <3>1, <3>2, <3>3
  <2>3. PICK flat, rest : flat = FlattenSeq(Behind(l)) /\ rest = <<c>> \o flat
    OBVIOUS
  <2>4. flat \in Bytes
    <3>1. Behind(l) \in Seq(Seq(Nat))
      BY <2>2, BehindIs
    <3>2. QED
      BY <2>3, <3>1, FlattenIs DEF Bytes
  <2>5. <<c>> \in Bytes /\ Len(<<c>>) = 1
    BY <2>2 DEF Bytes
  <2>6. rest \in Bytes /\ Len(rest) = 1 + Len(flat) /\ Len(flat) \in Nat
    BY <2>3, <2>4, <2>5, JoinedAre, BytesAre
  <2>7. enc = <<f>> \o rest
    BY <1>3, <1>6, <2>1, <2>3
  <2>8. enc \in Bytes /\ Len(enc) = 2 + Len(flat)
    <3>1. enc \in Bytes /\ Len(enc) = 1 + Len(rest)
      BY <1>4, <2>6, <2>7, JoinedAre
    <3>2. QED
      BY <2>6, <3>1
  <2>9. Holding(written, at, <<f>>) /\ Holding(written, at + 1, rest)
    BY <1>1, <1>4, <2>6, <2>7, HoldsParts
  <2>10. Holding(written, at + 1, <<c>>) /\ Holding(written, (at + 1) + 1, flat)
    BY <2>3, <2>4, <2>5, <2>9, HoldsParts
  <2>11. written[at + 1] = f /\ written[(at + 1) + 1] = c
    BY <2>9, <2>10, HoldsOne
  <2>12. PICK start : /\ RowIn(written, at + 2, l, start)
                      /\ start[c] = at + 2 + Len(flat)
    <3>1. (at + 1) + 1 = at + 2
      OBVIOUS
    <3>2. QED
      BY <2>2, <2>3, <2>10, <3>1, RowsAreIn
  <2>13. PICK last : last = at + 2 + Len(flat)
    OBVIOUS
  <2>14. last = at + Len(enc) /\ last \in Nat /\ last >= at + 2
    BY <2>6, <2>8, <2>13
  <2>15. Wire!ReadLadder(units, (at + 2) + 1, c) = IF last <= length THEN Wire!Read(l, last + 1) ELSE Wire!Refused
    <3>1. PICK from : from = at + 2
      OBVIOUS
    <3>2. from \in Nat /\ RowIn(written, from, l, start)
      BY <2>12, <3>1
    <3>3. Wire!ReadLadder(units, from + 1, Len(l)) =
             IF start[Len(l)] <= Len(units) THEN Wire!Read(l, start[Len(l)] + 1) ELSE Wire!Refused
      BY <2>2, <3>2, ReadLadderIs
    <3>4. QED
      BY <1>1, <2>2, <2>12, <2>13, <3>1, <3>3
  <2>16. CASE at + 1 > length
    <3>1. ~(last <= length)
      BY <1>4, <2>14, <2>16
    <3>2. QED
      BY <1>1, <2>8, <2>14, <2>16, <3>1 DEF Wire!DecodeLookups
  <2>17. CASE at + 1 = length
    <3>1. at + 1 \in 1..length /\ ~(at + 1 > length) /\ (at + 1) + 1 > length /\ ~(last <= length)
      BY <1>4, <2>14, <2>17
    <3>2. units[at + 1] = f
      BY <1>1, <2>11, <3>1 DEF CutOff
    <3>3. Wire!DecodeLookups(units, at + 1) = Wire!Refused
      BY <1>1, <1>2, <1>6, <3>1, <3>2 DEF Wire!DecodeLookups
    <3>4. QED
      BY <1>1, <2>8, <2>14, <3>1, <3>3
  <2>18. CASE at + 1 < length
    <3>1. /\ at + 1 \in 1..length /\ (at + 1) + 1 \in 1..length
          /\ ~(at + 1 > length) /\ ~((at + 1) + 1 > length) /\ (at + 1) + 2 = (at + 2) + 1
      BY <1>4, <2>18
    <3>2. units[at + 1] = f /\ units[(at + 1) + 1] = c
      BY <1>1, <2>11, <3>1 DEF CutOff
    <3>3. PICK ladder : ladder = Wire!ReadLadder(units, (at + 1) + 2, c)
      OBVIOUS
    <3>4. ladder = IF last <= length THEN Wire!Read(l, last + 1) ELSE Wire!Refused
      BY <2>15, <3>1, <3>3
    <3>5. Wire!DecodeLookups(units, at + 1) =
            IF ladder.ok THEN Wire!Read([mdns |-> o.mdns, dht |-> o.dht, relay |-> "custom",
                                         ladder |-> ladder.value], ladder.pos)
            ELSE Wire!Refused
      BY <1>1, <1>2, <1>6, <2>2, <3>1, <3>2, <3>3 DEF Wire!DecodeLookups
    <3>6. CASE last <= length
      <4>1. ladder.ok /\ ladder.value = l /\ ladder.pos = last + 1
        BY <3>4, <3>6 DEF Wire!Read
      <4>2. Wire!DecodeLookups(units, at + 1) = Wire!Read(o, last + 1)
        BY <2>2, <3>5, <4>1
      <4>3. QED
        BY <1>1, <2>8, <2>14, <3>6, <4>2
    <3>7. CASE ~(last <= length)
      <4>1. ~ladder.ok
        BY <3>4, <3>7 DEF Wire!Refused
      <4>2. QED
        BY <1>1, <2>8, <2>14, <3>5, <3>7, <4>1
    <3>8. QED
      BY <3>6, <3>7
  <2>19. QED
    BY <1>4, <2>16, <2>17, <2>18
<1>7. QED
  BY <1>5, <1>6

\* Whatever mint writes: the signed flag goes with the author.
AllTickets ==
    {t \in [secret : Nat, kind : Nat, addr : Bytes, lookups : AllLookups,
            flags : Nat, meshId : Bytes, author : Nat] :
        t.author # Wire!None <=> Wire!Bit(t.flags, Wire!SignedFlag)}

\* The units of a ticket before its flags.
Address(t) == Len(Wire!EncodeLookups(t.lookups)) + Len(t.addr) + 3

LEMMA TicketIs ==
    ASSUME NEW t \in AllTickets
    PROVE  /\ t.secret \in Nat /\ t.kind \in Nat /\ t.addr \in Bytes /\ t.lookups \in AllLookups
           /\ t.flags \in Nat /\ t.meshId \in Bytes /\ t.author \in Nat
           /\ t.author # 0 <=> Wire!Bit(t.flags, 2)
           /\ t = [secret |-> t.secret, kind |-> t.kind, addr |-> t.addr, lookups |-> t.lookups,
                   flags |-> t.flags, meshId |-> t.meshId, author |-> t.author]
           /\ Wire!EncodeLookups(t.lookups) \in Bytes
           /\ Len(Wire!EncodeLookups(t.lookups)) \in Nat /\ Len(t.addr) \in Nat /\ Len(t.meshId) \in Nat
           /\ Address(t) \in Nat
<1>1. /\ t.secret \in Nat /\ t.kind \in Nat /\ t.addr \in Bytes /\ t.lookups \in AllLookups
      /\ t.flags \in Nat /\ t.meshId \in Bytes /\ t.author \in Nat
      /\ t.author # 0 <=> Wire!Bit(t.flags, 2)
      /\ t = [secret |-> t.secret, kind |-> t.kind, addr |-> t.addr, lookups |-> t.lookups,
              flags |-> t.flags, meshId |-> t.meshId, author |-> t.author]
  BY DEF AllTickets, Wire!None, Wire!SignedFlag
<1>2. Wire!EncodeLookups(t.lookups) \in Bytes
  BY <1>1, EncodeLookupsIs
<1>3. Len(Wire!EncodeLookups(t.lookups)) \in Nat /\ Len(t.addr) \in Nat /\ Len(t.meshId) \in Nat
  BY <1>1, <1>2, BytesAre
<1>4. QED
  BY <1>1, <1>2, <1>3 DEF Address

\* Where each field of a ticket is written.
LEMMA EncodeIs ==
    ASSUME NEW t \in AllTickets, NEW written, written = Wire!Encode(t)
    PROVE  /\ written \in Bytes /\ Address(t) <= Len(written)
           /\ Address(t) >= 3 /\ written[1] = t.secret /\ written[2] = t.kind
           /\ Holding(written, 2, Wire!EncodeLookups(t.lookups))
           /\ Holding(written, 2 + Len(Wire!EncodeLookups(t.lookups)), Wire!Text(t.addr))
           /\ t.flags = 0 => Len(written) = Address(t)
           /\ t.flags # 0 =>
                /\ Len(written) = Address(t) + Len(t.meshId) + 2 + (IF t.author = 0 THEN 0 ELSE 1)
                /\ written[Address(t) + 1] = t.flags
                /\ Holding(written, Address(t) + 1, Wire!Text(t.meshId))
                /\ t.author # 0 => written[Address(t) + Len(t.meshId) + 3] = t.author
<1>1. PICK e, a, m, head, lead, tail :
        /\ e = Wire!EncodeLookups(t.lookups) /\ a = Wire!Text(t.addr) /\ m = Wire!Text(t.meshId)
        /\ head = <<t.secret, t.kind>> /\ lead = (head \o e) \o a
        /\ tail = IF t.flags = 0 THEN << >>
                  ELSE (<<t.flags>> \o m) \o (IF t.author = 0 THEN << >> ELSE <<t.author>>)
  OBVIOUS
<1>2. written = lead \o tail
  BY <1>1 DEF Wire!Encode, Wire!None
<1>3. PICK k, j, n : k = Len(e) /\ j = Len(t.addr) /\ n = Len(t.meshId)
  OBVIOUS
<1>4. /\ e \in Bytes /\ k \in Nat /\ a \in Bytes /\ Len(a) = j + 1 /\ j \in Nat
      /\ m \in Bytes /\ Len(m) = n + 1 /\ n \in Nat
  BY <1>1, <1>3, TicketIs, TextIs
<1>5. head \in Bytes /\ Len(head) = 2 /\ head[1] = t.secret /\ head[2] = t.kind
  BY <1>1, TicketIs DEF Bytes
<1>6. <<t.flags>> \in Bytes /\ Len(<<t.flags>>) = 1 /\ <<t.author>> \in Bytes /\ Len(<<t.author>>) = 1
      /\ << >> \in Bytes /\ Len(<< >>) = 0
  BY TicketIs DEF Bytes
<1>7. PICK last : last = IF t.author = 0 THEN << >> ELSE <<t.author>>
  OBVIOUS
<1>8. last \in Bytes /\ Len(last) = IF t.author = 0 THEN 0 ELSE 1
  BY <1>6, <1>7
<1>9. head \o e \in Bytes /\ Len(head \o e) = 2 + k
  BY <1>3, <1>4, <1>5, JoinedAre
<1>10. PICK addr : addr = Address(t)
  OBVIOUS
<1>11. addr = k + j + 3
  BY <1>1, <1>3, <1>10 DEF Address
<1>12. lead \in Bytes /\ Len(lead) = addr
  <2>1. lead \in Bytes /\ Len(lead) = Len(head \o e) + Len(a)
    BY <1>1, <1>4, <1>9, JoinedAre
  <2>2. QED
    BY <1>4, <1>9, <1>11, <2>1
<1>13. <<t.flags>> \o m \in Bytes /\ Len(<<t.flags>> \o m) = n + 2
  <2>1. <<t.flags>> \o m \in Bytes /\ Len(<<t.flags>> \o m) = Len(<<t.flags>>) + Len(m)
    BY <1>4, <1>6, JoinedAre
  <2>2. QED
    BY <1>4, <1>6, <2>1
<1>14. tail \in Bytes /\ Len(tail) = IF t.flags = 0 THEN 0 ELSE n + 2 + (IF t.author = 0 THEN 0 ELSE 1)
  <2>1. CASE t.flags = 0
    BY <1>1, <1>6, <2>1
  <2>2. CASE t.flags # 0
    <3>1. tail = (<<t.flags>> \o m) \o last
      BY <1>1, <1>7, <2>2
    <3>2. tail \in Bytes /\ Len(tail) = Len(<<t.flags>> \o m) + Len(last)
      BY <1>8, <1>13, <3>1, JoinedAre
    <3>3. QED
      BY <1>4, <1>8, <1>13, <2>2, <3>2
  <2>3. QED
    BY <2>1, <2>2
<1>15. written \in Bytes /\ Len(written) = addr + Len(tail)
  <2>1. tail \in Bytes
    BY <1>14
  <2>2. lead \o tail \in Bytes /\ Len(lead \o tail) = Len(lead) + Len(tail)
    BY <1>12, <2>1, JoinedAre
  <2>3. QED
    BY ONLY <1>2, <1>12, <2>2
<1>16. Holding(written, 0, lead) /\ Holding(written, addr, tail)
  <2>1. Holding(written, 0, lead \o tail)
    BY <1>2, <1>15, HoldsItself
  <2>2. Holding(written, 0, lead) /\ Holding(written, 0 + Len(lead), tail)
    BY <1>12, <1>14, <1>15, <2>1, HoldsParts
  <2>3. QED
    BY <1>4, <1>11, <1>12, <2>2
<1>17. Holding(written, 0, head) /\ Holding(written, 2, e) /\ Holding(written, 2 + k, a)
  <2>1. Holding(written, 0, head \o e) /\ Holding(written, 0 + Len(head \o e), a)
    BY <1>1, <1>4, <1>9, <1>15, <1>16, HoldsParts
  <2>2. Holding(written, 0, head) /\ Holding(written, 0 + Len(head), e)
    BY <1>4, <1>5, <1>15, <2>1, HoldsParts
  <2>3. QED
    BY <1>4, <1>5, <1>9, <2>1, <2>2
<1>18. written[1] = t.secret /\ written[2] = t.kind
  <2>1. written[0 + 1] = head[1] /\ written[0 + 2] = head[2]
    BY <1>5, <1>17 DEF Holding
  <2>2. QED
    BY <1>5, <2>1
<1>19. ASSUME t.flags # 0
       PROVE  /\ written[addr + 1] = t.flags
              /\ Holding(written, addr + 1, m)
              /\ t.author # 0 => written[addr + n + 3] = t.author
  <2>1. tail = (<<t.flags>> \o m) \o last
    BY <1>1, <1>7, <1>19
  <2>2. Holding(written, addr, <<t.flags>> \o m) /\ Holding(written, addr + (n + 2), last)
    BY <1>8, <1>13, <1>15, <1>16, <2>1, HoldsParts
  <2>3. Holding(written, addr, <<t.flags>>) /\ Holding(written, addr + 1, m)
    BY <1>4, <1>6, <1>15, <2>2, HoldsParts
  <2>4. written[addr + 1] = t.flags
    BY <2>3, HoldsOne
  <2>5. ASSUME t.author # 0 PROVE written[addr + n + 3] = t.author
    <3>1. written[(addr + (n + 2)) + 1] = t.author
      BY <1>7, <2>2, <2>5, HoldsOne
    <3>2. (addr + (n + 2)) + 1 = addr + n + 3
      BY <1>4, <1>11
    <3>3. QED
      BY <3>1, <3>2
  <2>6. QED
    BY <2>3, <2>4, <2>5
<1>20. addr <= Len(written) /\ addr >= 3 /\ (t.flags = 0 => Len(written) = addr)
       /\ (t.flags # 0 => Len(written) = addr + n + 2 + (IF t.author = 0 THEN 0 ELSE 1))
  <2>1. PICK x, y : x = Len(tail) /\ y = Len(written)
    OBVIOUS
  <2>2. x = (IF t.flags = 0 THEN 0 ELSE n + 2 + (IF t.author = 0 THEN 0 ELSE 1)) /\ y = addr + x
    BY <1>14, <1>15, <2>1
  <2>3. QED
    BY <1>4, <1>11, <2>1, <2>2
<1>21. QED
  BY <1>1, <1>3, <1>10, <1>15, <1>17, <1>18, <1>19, <1>20

\* The ticket a reader makes of one: its tail may be missing.
ReadOf(t, flags, meshId, author) ==
    [secret |-> t.secret, kind |-> t.kind, lookups |-> t.lookups, addr |-> t.addr,
     flags |-> flags, meshId |-> meshId, author |-> author]

\* The mesh id and the author, read behind flags that were written.
LEMMA TailIs ==
    ASSUME NEW t \in AllTickets, NEW written, written = Wire!Encode(t), NEW units, CutOff(units, written),
           t.flags # 0, Address(t) + 1 <= Len(units)
    PROVE  LET rest == Address(t) + 2
               meshId == Wire!ReadMeshId(units, rest)
               author == Wire!ReadAuthor(units, rest, t.flags)
           IN  \/ meshId = Wire!Refused /\ Len(units) < Len(written)
               \/ /\ meshId.ok /\ meshId.value \in {<< >>, t.meshId} /\ author \in {0, t.author}
                  /\ Len(units) = Len(written) => meshId.value = t.meshId /\ author = t.author
<1>1. PICK a, n, length, rest, m, author :
        /\ a = Address(t) /\ n = Len(t.meshId) /\ length = Len(units) /\ rest = Address(t) + 2
        /\ m = Wire!ReadMeshId(units, rest) /\ author = Wire!ReadAuthor(units, rest, t.flags)
  OBVIOUS
<1>2. a \in Nat /\ n \in Nat /\ length \in Nat /\ t.meshId \in Bytes /\ written \in Bytes
      /\ rest = a + 2 /\ (t.author # 0 <=> Wire!Bit(t.flags, 2)) /\ a + 1 <= length
      /\ a >= 3 /\ Len(written) = a + n + 2 + (IF t.author = 0 THEN 0 ELSE 1)
      /\ length <= Len(written)
  BY <1>1, TicketIs, EncodeIs, BytesAre DEF CutOff
<1>3. Holding(written, a + 1, Wire!Text(t.meshId)) /\ (t.author # 0 => written[a + n + 3] = t.author)
  BY <1>1, EncodeIs
<1>4. CASE rest > length
  <2>1. m = Wire!Read(<< >>, rest)
    BY <1>1, <1>4 DEF Wire!ReadMeshId
  <2>2. m.ok /\ m.value = << >>
    BY <2>1 DEF Wire!Read
  <2>3. author = 0
    <3>1. ~(rest <= length) /\ rest + 1 + 0 > length
      BY <1>2, <1>4
    <3>2. QED
      BY <1>1, <3>1 DEF Wire!ReadAuthor, Wire!None
  <2>4. length < Len(written)
    BY <1>2, <1>4
  <2>5. QED
    BY <1>1, <2>2, <2>3, <2>4
<1>5. CASE rest <= length
  <2>1. m = IF a + n + 2 <= length THEN Wire!Read(t.meshId, a + n + 3) ELSE Wire!Refused
    <3>1. PICK at : at = a + 1
      OBVIOUS
    <3>2. at \in Nat /\ Holding(written, at, Wire!Text(t.meshId)) /\ at + 1 = rest
      BY <1>2, <1>3, <3>1
    <3>3. Wire!ReadText(units, at + 1) =
             IF at + n + 1 <= length THEN Wire!Read(t.meshId, at + n + 2) ELSE Wire!Refused
      BY <1>1, <1>2, <3>2, ReadTextIs
    <3>4. m = Wire!ReadText(units, rest)
      <4>1. ~(rest > length)
        BY <1>2, <1>5
      <4>2. QED
        BY <1>1, <4>1 DEF Wire!ReadMeshId
    <3>5. at + n + 1 = a + n + 2 /\ at + n + 2 = a + n + 3
      BY <1>2, <3>1
    <3>6. QED
      BY <3>2, <3>3, <3>4, <3>5
  <2>2. units[rest] = n
    <3>1. PICK at : at = a + 1
      OBVIOUS
    <3>2. Wire!Text(t.meshId) = <<n>> \o t.meshId /\ <<n>> \in Bytes
      BY <1>1, <1>2, TextIs
    <3>3. Holding(written, at, <<n>>)
      BY <1>2, <1>3, <3>1, <3>2, HoldsParts
    <3>4. written[at + 1] = n /\ at + 1 = rest
      BY <1>2, <3>1, <3>3, HoldsOne
    <3>5. rest \in 1..Len(units)
      BY <1>1, <1>2, <1>5
    <3>6. QED
      BY <3>4, <3>5 DEF CutOff
  <2>3. CASE a + n + 2 <= length
    <3>1. m = Wire!Read(t.meshId, a + n + 3)
      BY <2>1, <2>3
    <3>5. m.ok /\ m.value = t.meshId
      BY <3>1 DEF Wire!Read
    <3>2. PICK after : after = a + n + 3
      OBVIOUS
    <3>3. author = IF ~Wire!Bit(t.flags, 2) \/ after > length THEN 0 ELSE units[after]
      <4>1. rest + 1 + n = after
        BY <1>2, <3>2
      <4>2. QED
        BY <1>1, <1>5, <2>2, <4>1 DEF Wire!ReadAuthor, Wire!None, Wire!SignedFlag
    <3>4. CASE t.author = 0
      <4>1. author = 0
        BY <1>2, <3>3, <3>4
      <4>2. QED
        BY <1>1, <3>4, <3>5, <4>1
    <3>6. CASE t.author # 0
      <4>1. CASE after > length
        <5>1. author = 0 /\ length < Len(written)
          BY <1>2, <3>2, <3>3, <3>6, <4>1
        <5>2. QED
          BY <1>1, <3>5, <5>1
      <4>2. CASE ~(after > length)
        <5>1. after \in 1..Len(units)
          <6>1. a \in Nat /\ n \in Nat /\ length \in Nat /\ length = Len(units)
            BY <1>1, <1>2
          <6>2. after \in 1..length
            BY ONLY <3>2, <4>2, <6>1
          <6>3. QED
            BY <6>1, <6>2
        <5>2. units[after] = t.author
          BY <1>3, <3>2, <3>6, <5>1 DEF CutOff
        <5>3. author = t.author
          BY <1>2, <3>3, <3>6, <4>2, <5>2
        <5>4. QED
          BY <1>1, <3>5, <5>3
      <4>3. QED
        BY <4>1, <4>2
    <3>7. QED
      BY <3>4, <3>6
  <2>4. CASE ~(a + n + 2 <= length)
    <3>1. length < Len(written)
      BY <1>2, <2>4
    <3>2. QED
      BY <1>1, <2>1, <2>4, <3>1
  <2>5. QED
    BY <2>3, <2>4
<1>6. QED
  BY <1>2, <1>4, <1>5

LEMMA CarriedIs ==
    ASSUME NEW t \in AllTickets
    PROVE  Wire!Carried(t) = IF t.flags = 0 THEN ReadOf(t, 0, << >>, 0)
                             ELSE ReadOf(t, t.flags, t.meshId, t.author)
<1>1. t = [secret |-> t.secret, kind |-> t.kind, addr |-> t.addr, lookups |-> t.lookups,
           flags |-> t.flags, meshId |-> t.meshId, author |-> t.author]
  BY TicketIs
<1>2. CASE t.flags = 0
  <2>1. PICK shape : shape = [secret : Nat, kind : Nat, addr : Bytes, lookups : AllLookups,
                          flags : Nat, meshId : Bytes, author : Nat]
    OBVIOUS
  <2>2. t \in shape /\ << >> \in Bytes
    BY <2>1 DEF AllTickets, Bytes
  <2>3. PICK x : x = [t EXCEPT !.meshId = << >>]
    OBVIOUS
  <2>4. /\ x \in shape /\ x.meshId = << >> /\ x.secret = t.secret /\ x.kind = t.kind /\ x.addr = t.addr
        /\ x.lookups = t.lookups /\ x.flags = t.flags
    BY <2>1, <2>2, <2>3
  <2>5. PICK y : y = [x EXCEPT !.author = 0]
    OBVIOUS
  <2>6. /\ y \in shape /\ y.meshId = << >> /\ y.secret = t.secret /\ y.kind = t.kind /\ y.addr = t.addr
        /\ y.lookups = t.lookups /\ y.flags = 0 /\ y.author = 0
    BY <1>2, <2>1, <2>4, <2>5
  <2>7. y = ReadOf(t, 0, << >>, 0)
    BY <2>1, <2>6 DEF ReadOf
  <2>8. [t EXCEPT !.meshId = << >>, !.author = 0] = y
    BY <2>3, <2>5
  <2>9. QED
    BY <1>2, <2>7, <2>8 DEF Wire!Carried, Wire!None
<1>3. CASE t.flags # 0
  BY <1>1, <1>3 DEF Wire!Carried, ReadOf
<1>4. QED
  BY <1>2, <1>3

\* Whatever is left of a ticket that was written reads as it was written, but for
\* a tail that reads as missing, or is refused; all of it reads back whole.
LEMMA DecodeIs ==
    ASSUME NEW t \in AllTickets, NEW units, CutOff(units, Wire!Encode(t))
    PROVE  \/ Wire!Decode(units) = Wire!Refused /\ Len(units) < Len(Wire!Encode(t))
           \/ \E f \in {0, Wire!Carried(t).flags}, m \in {<< >>, Wire!Carried(t).meshId},
                 w \in {0, Wire!Carried(t).author} :
                /\ Wire!Decode(units) = [ok |-> TRUE, ticket |-> ReadOf(t, f, m, w)]
                /\ Len(units) = Len(Wire!Encode(t)) => ReadOf(t, f, m, w) = Wire!Carried(t)
<1>1. PICK written, e, a, k, j, length, total, d :
        /\ written = Wire!Encode(t) /\ total = Len(written) /\ e = Wire!EncodeLookups(t.lookups) /\ a = Address(t)
        /\ k = Len(e) /\ j = Len(t.addr) /\ length = Len(units) /\ d = Wire!Decode(units)
  OBVIOUS
<1>2. /\ a = k + j + 3 /\ k \in Nat /\ j \in Nat /\ length \in Nat /\ a \in Nat
      /\ total \in Nat /\ a <= total /\ length <= total
      /\ written \in Bytes /\ t.addr \in Bytes /\ t.lookups \in AllLookups
  BY <1>1, TicketIs, EncodeIs, BytesAre DEF CutOff, Address
<1>3. PICK lookups, addr :
        /\ lookups = Wire!DecodeLookups(units, 3)
        /\ addr = IF lookups.ok THEN Wire!ReadText(units, lookups.pos) ELSE Wire!Refused
  OBVIOUS
<1>4. lookups = IF 2 + k <= length THEN Wire!Read(t.lookups, 3 + k) ELSE Wire!Refused
  <2>1. Wire!DecodeLookups(units, 2 + 1) =
          IF 2 + k <= length THEN Wire!Read(t.lookups, 2 + k + 1) ELSE Wire!Refused
    <3>1. Holding(written, 2, e) /\ CutOff(units, written) /\ 2 \in Nat
      BY <1>1, EncodeIs
    <3>2. QED
      BY <1>1, <1>2, <3>1, DecodeLookupsIs
  <2>2. 2 + 1 = 3 /\ 2 + k + 1 = 3 + k
    BY <1>2
  <2>3. QED
    BY <1>3, <2>1, <2>2
<1>5. addr = IF a <= length THEN Wire!Read(t.addr, a + 1) ELSE Wire!Refused
  <2>1. CASE ~(2 + k <= length)
    <3>1. lookups.ok = FALSE /\ ~(a <= length)
      BY <1>2, <1>4, <2>1 DEF Wire!Refused
    <3>2. QED
      BY <1>3, <3>1
  <2>2. CASE 2 + k <= length
    <3>1. lookups.ok /\ lookups.pos = 3 + k
      BY <1>4, <2>2 DEF Wire!Read
    <3>2. PICK at : at = 2 + k
      OBVIOUS
    <3>3. at \in Nat /\ Holding(written, at, Wire!Text(t.addr)) /\ CutOff(units, written)
      BY <1>1, <1>2, <3>2, EncodeIs
    <3>4. Wire!ReadText(units, at + 1) =
             IF at + j + 1 <= length THEN Wire!Read(t.addr, at + j + 2) ELSE Wire!Refused
      BY <1>1, <1>2, <3>3, ReadTextIs
    <3>5. at + 1 = 3 + k /\ at + j + 1 = a /\ at + j + 2 = a + 1
      BY <1>2, <3>2
    <3>6. QED
      BY <1>3, <3>1, <3>4, <3>5
  <2>3. QED
    BY <2>1, <2>2
<1>6. CASE ~(a <= length)
  <2>1. ~addr.ok
    BY <1>5, <1>6 DEF Wire!Refused
  <2>2. d = Wire!Refused
    BY <1>1, <1>3, <2>1 DEF Wire!Decode
  <2>3. length < total
    BY <1>2, <1>6
  <2>4. QED
    BY <1>1, <2>2, <2>3
<1>7. CASE a <= length
  <2>1. /\ addr.ok /\ addr.pos = a + 1 /\ addr.value = t.addr
        /\ lookups.value = t.lookups
    <3>1. 2 + k <= length
      BY <1>2, <1>7
    <3>2. QED
      BY <1>4, <1>5, <1>7, <3>1 DEF Wire!Read
  <2>2. ~(length < 2) /\ units[1] = t.secret /\ units[2] = t.kind
    <3>1. a >= 3 /\ written[1] = t.secret /\ written[2] = t.kind
      BY <1>1, EncodeIs
    <3>4. ~(length < 2) /\ 1 \in 1..length /\ 2 \in 1..length
      BY ONLY <1>2, <1>7, <3>1
    <3>2. ~(length < 2) /\ 1 \in 1..Len(units) /\ 2 \in 1..Len(units)
      BY <1>1, <3>4
    <3>3. QED
      BY <1>1, <3>1, <3>2 DEF CutOff
  <2>3. CASE a + 1 > length
    <3>1. PICK w : w = Wire!ReadAuthor(units, a + 1, 0)
      OBVIOUS
    <3>2. w = 0
      <4>1. ~Wire!Bit(0, 2)
        BY DEF Wire!Bit
      <4>2. QED
        BY <3>1, <4>1 DEF Wire!ReadAuthor, Wire!None, Wire!SignedFlag
    <3>3. PICK m : m = Wire!Read(<< >>, a + 1)
      OBVIOUS
    <3>4. m.ok /\ m.value = << >>
      BY <3>3 DEF Wire!Read
    <3>5. (a + 1) + 0 = a + 1
      BY <1>2
    <3>6. d = [ok |-> TRUE, ticket |-> [secret |-> units[1], kind |-> units[2], lookups |-> lookups.value,
                                        addr |-> addr.value, flags |-> 0, meshId |-> m.value, author |-> w]]
      BY <1>1, <1>3, <2>1, <2>2, <2>3, <3>1, <3>3, <3>4, <3>5 DEF Wire!Decode
    <3>7. d = [ok |-> TRUE, ticket |-> ReadOf(t, 0, << >>, 0)]
      BY <2>1, <2>2, <3>2, <3>4, <3>6 DEF ReadOf
    <3>8. length = total => t.flags = 0
      <4>1. t.flags # 0 => total = a + Len(t.meshId) + 2 + (IF t.author = 0 THEN 0 ELSE 1)
        BY <1>1, EncodeIs
      <4>2. Len(t.meshId) \in Nat
        BY TicketIs
      <4>3. PICK n : n = Len(t.meshId)
        OBVIOUS
      <4>4. CASE t.flags # 0
        <5>1. total = a + n + 2 + (IF t.author = 0 THEN 0 ELSE 1) /\ n \in Nat
          BY <4>1, <4>2, <4>3, <4>4
        <5>2. total > length
          BY ONLY <1>2, <2>3, <5>1
        <5>3. QED
          BY <1>2, <5>2
      <4>5. QED
        BY <4>4
    <3>9. QED
      BY <1>1, <3>7, <3>8, CarriedIs
  <2>4. CASE a + 1 <= length
    <3>1. t.flags # 0
      <4>1. t.flags = 0 => total = a
        BY <1>1, EncodeIs
      <4>2. total # a
        BY ONLY <1>2, <2>4
      <4>3. QED
        BY <4>1, <4>2
    <3>2. units[a + 1] = t.flags
      <4>1. a + 1 \in 1..length
        BY ONLY <1>2, <2>4
      <4>2. written[a + 1] = t.flags
        BY <1>1, <3>1, EncodeIs
      <4>3. QED
        BY <1>1, <4>1, <4>2 DEF CutOff
    <3>3. PICK m, w : m = Wire!ReadMeshId(units, a + 2) /\ w = Wire!ReadAuthor(units, a + 2, t.flags)
      OBVIOUS
    <3>4. \/ m = Wire!Refused /\ length < total
          \/ /\ m.ok /\ m.value \in {<< >>, t.meshId} /\ w \in {0, t.author}
             /\ length = total => m.value = t.meshId /\ w = t.author
      BY <1>1, <2>4, <3>1, <3>3, TailIs
    <3>5. (a + 1) + 1 = a + 2 /\ ~(a + 1 > length)
      BY <1>2, <2>4
    <3>6. d = IF ~m.ok THEN Wire!Refused
              ELSE [ok |-> TRUE, ticket |-> [secret |-> units[1], kind |-> units[2], lookups |-> lookups.value,
                                             addr |-> addr.value, flags |-> t.flags, meshId |-> m.value, author |-> w]]
      BY <1>1, <1>3, <2>1, <2>2, <3>1, <3>2, <3>3, <3>5 DEF Wire!Decode
    <3>7. CASE m = Wire!Refused
      <4>1. ~m.ok
        BY <3>7 DEF Wire!Refused
      <4>2. length < total
        BY <3>4, <4>1
      <4>3. QED
        BY <1>1, <3>6, <4>1, <4>2
    <3>8. CASE m # Wire!Refused
      <4>1. /\ m.ok /\ m.value \in {<< >>, t.meshId} /\ w \in {0, t.author}
            /\ length = total => m.value = t.meshId /\ w = t.author
        BY <3>4, <3>8
      <4>2. PICK v : v = m.value
        OBVIOUS
      <4>3. d = [ok |-> TRUE, ticket |-> ReadOf(t, t.flags, v, w)]
        BY <2>1, <2>2, <3>6, <4>1, <4>2 DEF ReadOf
      <4>4. Wire!Carried(t) = ReadOf(t, t.flags, t.meshId, t.author)
        BY <3>1, CarriedIs
      <4>5. /\ Wire!Carried(t).flags = t.flags /\ Wire!Carried(t).meshId = t.meshId
            /\ Wire!Carried(t).author = t.author
        BY <4>4 DEF ReadOf
      <4>6. QED
        BY <1>1, <4>1, <4>2, <4>3, <4>4, <4>5
    <3>9. QED
      BY <3>7, <3>8
  <2>5. QED
    BY <1>2, <2>3, <2>4
<1>8. QED
  BY <1>6, <1>7

\* Every ticket reads back as what it carries: any secret, address, relays, flags,
\* mesh and author.
THEOREM TicketsReadBack == \A t \in AllTickets : Wire!SurvivesTheWire(t)
<1> TAKE t \in AllTickets
<1>1. PICK units : units = Wire!Encode(t)
  OBVIOUS
<1>2. units \in Bytes /\ Len(units) \in Nat
  BY <1>1, EncodeIs, BytesAre
<1>3. CutOff(units, Wire!Encode(t))
  BY <1>1, <1>2 DEF CutOff
<1>4. Wire!Decode(units) = [ok |-> TRUE, ticket |-> Wire!Carried(t)]
  BY <1>1, <1>2, <1>3, DecodeIs
<1>5. QED
  BY <1>1, <1>4 DEF Wire!SurvivesTheWire

\* And wherever it is cut, what a reader takes of it is what was written there.
THEOREM CutTicketsReadTrue ==
    \A t \in AllTickets : \A n \in 0..Len(Wire!Encode(t)) : Wire!PrefixReadsTrue(t, n)
<1> TAKE t \in AllTickets
<1>1. PICK written : written = Wire!Encode(t)
  OBVIOUS
<1> TAKE n \in 0..Len(Wire!Encode(t))
<1>2. written \in Bytes /\ Len(written) \in Nat /\ n \in Nat /\ n <= Len(written)
  BY <1>1, EncodeIs, BytesAre
<1>3. PICK units : units = SubSeq(written, 1, n)
  OBVIOUS
<1>4. CutOff(units, written)
  <2>1. SubSeq(written, 0 + 1, 0 + n) = units /\ 0 \in Nat /\ 0 + n <= Len(written)
    BY <1>2, <1>3
  <2>2. units \in Bytes /\ Len(units) = n /\ \A i \in 1..n : units[i] = written[0 + i]
    BY <1>2, <2>1, PartIs
  <2>3. QED
    BY <1>2, <2>2 DEF CutOff
<1>5. PICK d : d = Wire!Decode(units)
  OBVIOUS
<1>6. CASE d = Wire!Refused
  <2>1. ~d.ok
    BY <1>6 DEF Wire!Refused
  <2>2. QED
    BY <1>1, <1>3, <1>5, <2>1 DEF Wire!PrefixReadsTrue
<1>7. CASE d # Wire!Refused
  <2>1. PICK f \in {0, Wire!Carried(t).flags}, m \in {<< >>, Wire!Carried(t).meshId},
             w \in {0, Wire!Carried(t).author} : d = [ok |-> TRUE, ticket |-> ReadOf(t, f, m, w)]
    BY <1>1, <1>4, <1>5, <1>7, DecodeIs
  <2>2. PICK c, r : c = Wire!Carried(t) /\ r = ReadOf(t, f, m, w)
    OBVIOUS
  <2>3. c.secret = t.secret /\ c.kind = t.kind /\ c.lookups = t.lookups /\ c.addr = t.addr
    BY <2>2, CarriedIs DEF ReadOf
  <2>4. /\ r["secret"] = c["secret"] /\ r["kind"] = c["kind"] /\ r["lookups"] = c["lookups"] /\ r["addr"] = c["addr"]
        /\ r.flags \in {0, c.flags} /\ r.meshId \in {<< >>, c.meshId} /\ r.author \in {0, c.author}
    BY <2>1, <2>2, <2>3 DEF ReadOf
  <2>5. d.ticket = r
    BY <2>1, <2>2
  <2>6. QED
    BY <1>1, <1>3, <1>5, <2>2, <2>4, <2>5 DEF Wire!PrefixReadsTrue, Wire!None
<1>8. QED
  BY <1>6, <1>7

LEMMA StretchIs ==
    ASSUME NEW s \in Bytes, NEW lo \in Nat, NEW hi \in Nat, lo >= 1, hi + 1 >= lo, hi <= Len(s)
    PROVE  /\ SubSeq(s, lo, hi) \in Bytes /\ Len(SubSeq(s, lo, hi)) = hi - lo + 1
           /\ \A i \in 1..hi - lo + 1 : SubSeq(s, lo, hi)[i] = s[lo - 1 + i]
<1>1. PICK at, n : at = lo - 1 /\ n = hi - lo + 1
  OBVIOUS
<1>2. at \in Nat /\ n \in Nat /\ at + 1 = lo /\ at + n = hi
  BY <1>1
<1>3. PICK p : p = SubSeq(s, at + 1, at + n)
  OBVIOUS
<1>4. p \in Bytes /\ Len(p) = n /\ \A i \in 1..n : p[i] = s[at + i]
  BY <1>2, <1>3, PartIs
<1>5. p = SubSeq(s, lo, hi)
  BY <1>2, <1>3
<1>6. QED
  BY <1>1, <1>4, <1>5

\* What breaks off after n units.
LEMMA FirstIs ==
    ASSUME NEW units \in Bytes, NEW n \in Nat
    PROVE  /\ CutOff(Streams!First(units, n), units)
           /\ Len(Streams!First(units, n)) = IF n <= Len(units) THEN n ELSE Len(units)
<1>1. PICK length, m : length = Len(units) /\ m = IF n <= Len(units) THEN n ELSE Len(units)
  OBVIOUS
<1>2. length \in Nat /\ m \in Nat /\ m <= length /\ m \in {n, length} /\ \A x \in {n, length} : m <= x
  BY <1>1, BytesAre
<1>3. Streams!Min({n, length}) = m
  <2>1. Streams!Min({n, length}) = CHOOSE x \in {n, length} : \A y \in {n, length} : x <= y
    BY DEF Streams!Min
  <2>2. \A x \in {n, length} : (\A y \in {n, length} : x <= y) => x = m
    BY <1>2
  <2>3. QED
    BY <1>2, <2>1, <2>2
<1>4. Streams!First(units, n) = SubSeq(units, 1, m)
  BY <1>1, <1>3 DEF Streams!First
<1>5. PICK part : part = Streams!First(units, n)
  OBVIOUS
<1>6. part \in Bytes /\ Len(part) = m /\ \A i \in 1..m : part[i] = units[i]
  <2>1. 1 \in Nat /\ 1 >= 1 /\ m + 1 >= 1 /\ m <= Len(units) /\ m - 1 + 1 = m
    BY <1>1, <1>2
  <2>2. part \in Bytes /\ Len(part) = m - 1 + 1 /\ \A i \in 1..m - 1 + 1 : part[i] = units[1 - 1 + i]
    BY <1>2, <1>4, <1>5, <2>1, StretchIs
  <2>3. \A i \in 1..m : 1 - 1 + i = i
    OBVIOUS
  <2>4. QED
    BY <2>1, <2>2, <2>3
<1>8. QED
  BY <1>1, <1>2, <1>5, <1>6 DEF CutOff

LEMMA CutIs ==
    ASSUME NEW written \in Bytes, NEW units, CutOff(units, written)
    PROVE  /\ units \in Bytes /\ Len(units) \in Nat /\ Len(written) \in Nat /\ Len(units) <= Len(written)
           /\ Len(units) = Len(written) => units = written
           /\ units = << >> <=> Len(units) = 0
<1>1. /\ units \in Bytes /\ Len(units) \in Nat /\ Len(written) \in Nat /\ Len(units) <= Len(written)
      /\ \A i \in 1..Len(units) : units[i] = written[i]
  BY BytesAre DEF CutOff
<1>2. Len(units) = Len(written) => units = written
  BY <1>1, SameBytes
<1>3. units = << >> <=> Len(units) = 0
  BY <1>1 DEF Bytes
<1>4. QED
  BY <1>1, <1>2, <1>3

\* An answer behind its status and length: all of it, or nothing.
LEMMA FramedIs ==
    ASSUME NEW status \in Nat, NEW body \in Bytes, NEW units, CutOff(units, Streams!Body(status, body)), NEW cap \in Nat
    PROVE  /\ Streams!Body(status, body) \in Bytes /\ Len(Streams!Body(status, body)) = Len(body) + 2
           /\ units # << >> => units[1] = status
           /\ Streams!Framed(units, cap) = IF Len(body) <= cap /\ Len(units) = Len(body) + 2 THEN <<body>> ELSE << >>
<1>1. PICK n, length, written, head :
        n = Len(body) /\ length = Len(units) /\ written = Streams!Body(status, body) /\ head = <<status, Len(body)>>
  OBVIOUS
<1>2. n \in Nat /\ head \in Bytes /\ Len(head) = 2 /\ head[1] = status /\ head[2] = n
  <2>1. n \in Nat
    BY <1>1, BytesAre
  <2>2. QED
    BY <1>1, <2>1 DEF Bytes
<1>3. /\ written = head \o body /\ written \in Bytes /\ Len(written) = n + 2
      /\ written[1] = status /\ written[2] = n /\ \A i \in 1..n : written[2 + i] = body[i]
  <2>1. written = head \o body
    BY <1>1 DEF Streams!Body
  <2>2. /\ head \o body \in Bytes /\ Len(head \o body) = 2 + n
        /\ \A i \in 1..2 : (head \o body)[i] = head[i]
        /\ \A i \in 1..n : (head \o body)[2 + i] = body[i]
    BY <1>1, <1>2, JoinedAre
  <2>3. 1 \in 1..2 /\ 2 \in 1..2 /\ 2 + n = n + 2
    BY <1>2
  <2>4. QED
    BY <1>2, <2>1, <2>2, <2>3
<1>4. /\ units \in Bytes /\ length \in Nat /\ length <= n + 2
      /\ \A i \in 1..length : units[i] = written[i]
  BY <1>1, <1>3, CutIs DEF CutOff
<1>5. units # << >> => units[1] = status
  <2>1. units # << >> => length # 0
    BY <1>1, <1>4 DEF Bytes
  <2>2. length # 0 => 1 \in 1..length
    BY <1>4
  <2>3. QED
    BY <1>3, <1>4, <2>1, <2>2
<1>6. Streams!Framed(units, cap) = IF n <= cap /\ length = n + 2 THEN <<body>> ELSE << >>
  <2>1. CASE length < 2
    <3>1. length # n + 2
      BY <1>2, <2>1
    <3>2. QED
      BY <1>1, <2>1, <3>1 DEF Streams!Framed
  <2>2. CASE ~(length < 2)
    <3>1. units[2] = n
      <4>1. 2 \in 1..length
        BY <1>4, <2>2
      <4>2. QED
        BY <1>3, <1>4, <4>1
    <3>2. length < 2 + n <=> length # n + 2
      BY <1>2, <1>4
    <3>3. n > cap <=> ~(n <= cap)
      BY <1>2
    <3>4. PICK p : p = SubSeq(units, 3, 2 + n)
      OBVIOUS
    <3>5. length = n + 2 => p = body
      <4>1. HAVE length = n + 2
      <4>3. p \in Bytes /\ Len(p) = n /\ \A i \in 1..n : p[i] = units[2 + i]
        <5>1. PICK hi : hi = 2 + n
          OBVIOUS
        <5>2. hi \in Nat /\ 3 \in Nat /\ 3 >= 1 /\ hi + 1 >= 3 /\ hi <= Len(units) /\ hi - 3 + 1 = n
          BY <1>1, <1>2, <4>1, <5>1
        <5>3. /\ p \in Bytes /\ Len(p) = hi - 3 + 1
              /\ \A i \in 1..hi - 3 + 1 : p[i] = units[3 - 1 + i]
          BY <1>4, <3>4, <5>1, <5>2, StretchIs
        <5>4. \A i \in 1..n : 3 - 1 + i = 2 + i
          OBVIOUS
        <5>5. QED
          BY <5>2, <5>3, <5>4
      <4>4. \A i \in 1..n : 2 + i \in 1..length
        BY <1>2, <4>1
      <4>5. \A i \in 1..n : p[i] = body[i]
        BY <1>3, <1>4, <4>3, <4>4
      <4>6. QED
        BY <1>1, <4>3, <4>5, SameBytes
    <3>6. Streams!Framed(units, cap) = IF n > cap \/ length < 2 + n THEN << >> ELSE <<p>>
      BY <1>1, <2>2, <3>1, <3>4 DEF Streams!Framed, Streams!Some
    <3>7. QED
      BY <3>2, <3>3, <3>5, <3>6
  <2>3. QED
    BY <2>1, <2>2
<1>7. QED
  BY <1>1, <1>3, <1>5, <1>6

LEMMA ValueIs == \A v : Streams!Value(v).is = "value" /\ Streams!Value(v).value = v
BY DEF Streams!Value

LEMMA NoValueIs ==
    /\ Streams!Failed.is # "value" /\ Streams!Declined.is # "value"
    /\ \A app, op : Streams!Unanswered(app, op).is # "value"
    /\ \A app, status : Streams!Refusal(app, status).is # "value"
<1>1. Streams!Failed.is # "value" /\ Streams!Declined.is # "value"
  BY DEF Streams!Failed, Streams!Declined
<1>2. QED
  BY <1>1 DEF Streams!Unanswered, Streams!Refusal

\* What a client hears of an answer: all of it, or no value.
LEMMA AskIs ==
    ASSUME NEW body \in Bytes, NEW units, CutOff(units, Streams!Body(0, body)), NEW app, NEW op
    PROVE  /\ Len(units) = Len(body) + 2 /\ Len(body) <= MaxBody => Streams!Ask(app, op, units) = Streams!Value(body)
           /\ ~(Len(units) = Len(body) + 2 /\ Len(body) <= MaxBody) => Streams!Ask(app, op, units).is # "value"
<1>1. MaxBody \in Nat /\ 0 \in Nat
  BY SamplesFit
<1>2. /\ units # << >> => units[1] = 0
      /\ Streams!Framed(units, MaxBody) = IF Len(body) <= MaxBody /\ Len(units) = Len(body) + 2 THEN <<body>> ELSE << >>
  BY <1>1, FramedIs
<1>3. CASE units = << >>
  <2>1. Len(units) = 0 /\ Len(body) \in Nat
    BY <1>3, BytesAre DEF Bytes
  <2>2. ~(Len(units) = Len(body) + 2)
    BY <2>1
  <2>3. QED
    BY <1>3, <2>2, NoValueIs DEF Streams!Ask
<1>4. CASE units # << >>
  <2>1. CASE Len(body) <= MaxBody /\ Len(units) = Len(body) + 2
    <3>1. Streams!Framed(units, MaxBody) = <<body>>
      BY <1>2, <2>1
    <3>2. Streams!IsSome(<<body>>) /\ Streams!The(<<body>>) = body
      BY DEF Streams!IsSome, Streams!The
    <3>3. QED
      BY <1>2, <1>4, <2>1, <3>1, <3>2 DEF Streams!Ask, Streams!Ok
  <2>2. CASE ~(Len(body) <= MaxBody /\ Len(units) = Len(body) + 2)
    <3>1. Streams!Framed(units, MaxBody) = << >>
      BY <1>2, <2>2
    <3>2. ~Streams!IsSome(<< >>)
      BY DEF Streams!IsSome
    <3>3. Streams!Ask(app, op, units) = Streams!Failed
      BY <1>2, <1>4, <3>1, <3>2 DEF Streams!Ask, Streams!Ok
    <3>4. QED
      BY <2>2, <3>3, NoValueIs
  <2>3. QED
    BY <2>1, <2>2
<1>5. QED
  BY <1>3, <1>4

LEMMA HashIs ==
    ASSUME NEW units \in Bytes
    PROVE  Streams!HashOf(units) \in Nat
<1>1. PICK n : n = Len(units)
  OBVIOUS
<1>2. n \in Nat /\ \A i \in 1..n : units[i] \in Nat
  BY <1>1, BytesAre
<1>3. PICK step : step = [x \in (1..n) \X Nat |-> 11 * x[2] + units[x[1]]]
  OBVIOUS
<1>4. IsStep(step, Nat, n)
  <2>1. \A x \in (1..n) \X Nat : 11 * x[2] + units[x[1]] \in Nat
    BY <1>2
  <2>2. QED
    BY <1>3, <2>1 DEF IsStep
<1>5. PICK f : Computes(f, Nat, 1, step, n)
  BY <1>2, <1>4, RecursionIs
<1>6. f \in [0..n -> Nat] /\ f[0] = 1 /\ \A k \in 1..n : f[k] = 11 * f[k - 1] + units[k]
  <2>1. f \in [0..n -> Nat] /\ f[0] = 1 /\ \A k \in 1..n : f[k - 1] \in Nat /\ f[k] = step[<<k, f[k - 1]>>]
    BY <1>5 DEF Computes
  <2>2. ASSUME NEW k \in 1..n PROVE f[k] = 11 * f[k - 1] + units[k]
    <3>1. <<k, f[k - 1]>> \in (1..n) \X Nat
      BY <2>1
    <3>2. QED
      BY <1>3, <2>1, <3>1
  <2>3. QED
    BY <2>1, <2>2
<1> DEFINE Hash(h) == h = [k \in 0..n |-> IF k = 0 THEN 1 ELSE 11 * h[k - 1] + units[k]]
<1>7. Hash(f)
  <2>1. \A k \in 0..n : k = 0 \/ k \in 1..n
    OBVIOUS
  <2>2. \A k \in 0..n : f[k] = IF k = 0 THEN 1 ELSE 11 * f[k - 1] + units[k]
    BY <1>6, <2>1
  <2>3. f = [k \in 0..n |-> f[k]]
    BY <1>6
  <2>4. QED
    BY <2>2, <2>3
<1>8. PICK h : Hash(h) /\ Streams!HashOf(units) = h[n]
  <2>1. Streams!HashOf(units) = (CHOOSE h : Hash(h))[n]
    BY <1>1 DEF Streams!HashOf
  <2>2. QED
    <3> HIDE DEF Hash
    <3> QED  BY <1>7, <2>1
<1>9. h = f
  <2>1. IsRow(h, n) /\ IsRow(f, n)
    BY <1>6, <1>8 DEF IsRow
  <2>2. h[0] = f[0]
    BY <1>2, <1>6, <1>8
  <2>3. \A k \in 1..n : h[k - 1] = f[k - 1] => h[k] = f[k]
    <3> TAKE k \in 1..n
    <3>1. k \in 0..n /\ k # 0
      OBVIOUS
    <3>2. h[k] = 11 * h[k - 1] + units[k]
      BY <1>8, <3>1
    <3>3. QED
      BY <1>6, <3>2
  <2>4. QED
    BY <1>2, <2>1, <2>2, <2>3, SameFrom
<1>10. f[n] \in Nat
  BY <1>2, <1>6
<1>11. QED
  <2> HIDE DEF Hash
  <2> QED  BY <1>8, <1>9, <1>10

\* A body of a few fields and then a row of units.
LEMMA BehindHead ==
    ASSUME NEW head \in Bytes, NEW tail \in Bytes, NEW lo \in Nat, NEW hi \in Nat,
           lo <= Len(head) + 1, lo > Len(head), hi <= Len(head) + Len(tail), hi >= Len(head) + Len(tail)
    PROVE  SubSeq(head \o tail, lo, hi) = tail
<1>1. PICK n, m : n = Len(head) /\ m = Len(tail)
  OBVIOUS
<1>2. n \in Nat /\ m \in Nat /\ lo = n + 1 /\ hi = n + m
  <2>1. n \in Nat /\ m \in Nat
    BY <1>1, BytesAre
  <2>2. lo <= n + 1 /\ lo > n /\ hi <= n + m /\ hi >= n + m /\ lo \in Nat /\ hi \in Nat
    BY <1>1
  <2>3. QED
    BY ONLY <2>1, <2>2
<1>3. PICK join : join = head \o tail
  OBVIOUS
<1>4. join \in Bytes /\ Len(join) = hi /\ \A i \in 1..m : join[n + i] = tail[i]
  BY <1>1, <1>2, <1>3, JoinedAre
<1>5. PICK p : p = SubSeq(join, lo, hi)
  OBVIOUS
<1>6. p \in Bytes /\ Len(p) = m /\ \A i \in 1..m : p[i] = join[n + i]
  <2>1. lo \in Nat /\ hi \in Nat /\ lo >= 1 /\ hi + 1 >= lo /\ hi <= Len(join) /\ hi - lo + 1 = m /\ lo - 1 = n
    BY ONLY <1>2, <1>4
  <2>2. p \in Bytes /\ Len(p) = hi - lo + 1 /\ \A i \in 1..hi - lo + 1 : p[i] = join[lo - 1 + i]
    BY ONLY <1>4, <1>5, <2>1, StretchIs
  <2>3. QED
    BY ONLY <2>1, <2>2
<1>7. p = tail
  BY <1>1, <1>4, <1>6, SameBytes
<1>8. QED
  BY ONLY <1>3, <1>5, <1>7

AllRows == [size : Nat, leaves : Bytes]

LEMMA ChunkMapIs ==
    ASSUME NEW row \in AllRows, NEW body, body = Streams!EncodeChunkMap(row)
    PROVE  /\ body \in Bytes
           /\ Streams!DecodeChunkMap(body) = <<[root |-> Streams!RootOf(row), size |-> row.size, leaves |-> row.leaves]>>
<1>1. PICK root, m, head, tail : /\ root = Streams!RootOf(row) /\ m = Len(row.leaves) /\ tail = row.leaves
                                 /\ head = <<Streams!RootOf(row), row.size, Len(row.leaves)>>
  OBVIOUS
<1>2. row.size \in Nat /\ tail \in Bytes /\ m \in Nat
  BY <1>1, BytesAre DEF AllRows
<1>3. root \in Nat
  <2>1. <<row.size>> \in Bytes
    BY <1>2 DEF Bytes
  <2>2. <<row.size>> \o row.leaves \in Bytes
    BY <1>1, <1>2, <2>1, JoinedAre
  <2>3. QED
    BY <1>1, <2>2, HashIs DEF Streams!RootOf
<1>4. head \in Bytes /\ Len(head) = 3 /\ head[1] = root /\ head[2] = row.size /\ head[3] = m
  BY <1>1, <1>2, <1>3 DEF Bytes
<1>5. body = head \o tail
  BY <1>1 DEF Streams!EncodeChunkMap
<1>11. PICK hi : hi = 3 + m
  OBVIOUS
<1>6. /\ body \in Bytes /\ Len(body) = hi
      /\ \A i \in 1..3 : body[i] = head[i]
      /\ SubSeq(body, 4, hi) = tail
  <2>1. /\ body \in Bytes /\ Len(body) = Len(head) + Len(tail)
        /\ \A i \in 1..Len(head) : body[i] = head[i]
    <3>1. /\ head \o tail \in Bytes /\ Len(head \o tail) = Len(head) + Len(tail)
          /\ \A i \in 1..Len(head) : (head \o tail)[i] = head[i]
      BY ONLY <1>2, <1>4, JoinedAre
    <3>2. QED
      BY ONLY <1>5, <3>1
  <2>2. /\ 4 \in Nat /\ hi \in Nat /\ 4 <= Len(head) + 1 /\ 4 > Len(head)
        /\ hi <= Len(head) + Len(tail) /\ hi >= Len(head) + Len(tail)
    BY <1>1, <1>2, <1>4, <1>11
  <2>3. SubSeq(body, 4, hi) = tail
    <3>1. SubSeq(head \o tail, 4, hi) = tail
      BY ONLY <1>2, <1>4, <2>2, BehindHead
    <3>2. QED
      BY ONLY <1>5, <3>1
  <2>4. Len(head) = 3 /\ Len(tail) = m
    BY <1>1, <1>4
  <2>5. QED
    BY <1>11, <2>1, <2>3, <2>4
<1>7. body[1] = root /\ body[2] = row.size /\ body[3] = m
  BY <1>4, <1>6
<1>8. SubSeq(body, 4, 3 + m) = tail
  BY <1>6, <1>11
<1>9. ~(Len(body) < 3) /\ ~(Len(body) < 3 + m)
  BY <1>2, <1>6, <1>11
<1>10. QED
  BY <1>1, <1>6, <1>7, <1>8, <1>9 DEF Streams!DecodeChunkMap, Streams!Some

LEMMA BitmapIs ==
    ASSUME NEW chunks \in Nat, NEW held \in SUBSET (0..chunks - 1)
    PROVE  /\ Streams!Bitmap(chunks, held) \in Bytes
           /\ Streams!BitmapLen(chunks) \in Nat /\ Len(Streams!Bitmap(chunks, held)) = Streams!BitmapLen(chunks)
           /\ \A k \in 0..chunks - 1 : Streams!Holds(Streams!Bitmap(chunks, held), k) <=> k \in held
<1>1. PICK n, map : n = Streams!BitmapLen(chunks) /\ map = Streams!Bitmap(chunks, held)
  OBVIOUS
<1>2. n = (chunks + 1) \div 2 /\ n \in Nat
  BY <1>1 DEF Streams!BitmapLen, Streams!Bits
<1>3. map = [u \in 1..n |-> (IF 2 * (u - 1) \in held THEN 1 ELSE 0) + (IF 2 * (u - 1) + 1 \in held THEN 2 ELSE 0)]
  BY <1>1 DEF Streams!Bitmap, Streams!Bits
<1>4. map \in [1..n -> Nat]
  BY <1>3
<1>5. map \in Bytes /\ Len(map) = n
  BY <1>2, <1>4 DEF Bytes
<1>6. ASSUME NEW k \in 0..chunks - 1 PROVE Streams!Holds(map, k) <=> k \in held
  <2>1. PICK u : u = k \div 2 + 1
    OBVIOUS
  <2>2. u \in 1..n /\ (k = 2 * (u - 1) \/ k = 2 * (u - 1) + 1)
    BY <1>2, <2>1
  <2>3. PICK low, high : /\ low = (IF 2 * (u - 1) \in held THEN 1 ELSE 0)
                         /\ high = (IF 2 * (u - 1) + 1 \in held THEN 2 ELSE 0)
    OBVIOUS
  <2>4. map[u] = low + high
    BY <1>3, <2>2, <2>3
  <2>5. CASE k = 2 * (u - 1)
    <3>1. k % 2 = 0 /\ (k \in held <=> low = 1) /\ low \in {0, 1} /\ high \in {0, 2}
      BY <2>2, <2>3, <2>5
    <3>2. ((low + high) \div 1) % 2 = 1 <=> low = 1
      BY <3>1
    <3>3. QED
      BY <2>1, <2>4, <3>1, <3>2 DEF Streams!Holds, Streams!Bits
  <2>6. CASE k = 2 * (u - 1) + 1
    <3>1. k % 2 # 0 /\ (k \in held <=> high = 2) /\ low \in {0, 1} /\ high \in {0, 2}
      BY <2>2, <2>3, <2>6
    <3>2. ((low + high) \div 2) % 2 = 1 <=> high = 2
      BY <3>1
    <3>3. QED
      BY <2>1, <2>4, <3>1, <3>2 DEF Streams!Holds, Streams!Bits
  <2>7. QED
    BY <2>2, <2>5, <2>6
<1>7. QED
  BY <1>1, <1>2, <1>5, <1>6

LEMMA HaveIs ==
    ASSUME NEW chunks \in Nat, NEW held \in SUBSET (0..chunks - 1), NEW body, body = Streams!EncodeHave(chunks, held)
    PROVE  /\ body \in Bytes
           /\ Streams!DecodeHave(body) = <<[chunks |-> chunks, bitmap |-> Streams!Bitmap(chunks, held)]>>
<1>1. PICK n, tail : n = Streams!BitmapLen(chunks) /\ tail = Streams!Bitmap(chunks, held)
  OBVIOUS
<1>2. n \in Nat /\ tail \in Bytes /\ Len(tail) = n
  BY <1>1, BitmapIs
<1>3. <<chunks>> \in Bytes /\ Len(<<chunks>>) = 1 /\ <<chunks>>[1] = chunks
  BY DEF Bytes
<1>4. body = <<chunks>> \o tail
  BY <1>1 DEF Streams!EncodeHave
<1>5. PICK head : head = <<chunks>>
  OBVIOUS
<1>10. PICK hi : hi = 1 + n
  OBVIOUS
<1>6. /\ body \in Bytes /\ Len(body) = hi
      /\ \A i \in 1..1 : body[i] = head[i]
      /\ SubSeq(body, 2, hi) = tail
  <2>1. body = head \o tail /\ head \in Bytes /\ Len(head) = 1
    BY <1>3, <1>4, <1>5
  <2>2. /\ body \in Bytes /\ Len(body) = Len(head) + Len(tail)
        /\ \A i \in 1..Len(head) : body[i] = head[i]
    <3>1. /\ head \o tail \in Bytes /\ Len(head \o tail) = Len(head) + Len(tail)
          /\ \A i \in 1..Len(head) : (head \o tail)[i] = head[i]
      <4>1. tail \in Bytes /\ head \in Bytes
        BY <1>2, <2>1
      <4>2. QED
        BY ONLY <4>1, JoinedAre
    <3>2. QED
      BY ONLY <2>1, <3>1
  <2>3. /\ 2 \in Nat /\ hi \in Nat /\ 2 <= Len(head) + 1 /\ 2 > Len(head)
        /\ hi <= Len(head) + Len(tail) /\ hi >= Len(head) + Len(tail)
    BY <1>2, <1>10, <2>1
  <2>4. SubSeq(body, 2, hi) = tail
    <3>1. tail \in Bytes /\ head \in Bytes
      BY <1>2, <2>1
    <3>2. SubSeq(head \o tail, 2, hi) = tail
      BY ONLY <2>3, <3>1, BehindHead
    <3>3. QED
      BY ONLY <2>1, <3>2
  <2>5. QED
    BY <1>2, <1>10, <2>1, <2>2, <2>4
<1>7. body[1] = chunks /\ SubSeq(body, 2, 1 + n) = tail
  BY <1>3, <1>5, <1>6, <1>10
<1>8. ~(Len(body) < 1) /\ ~(Len(body) - 1 < n)
  BY <1>2, <1>6, <1>10
<1>9. QED
  BY <1>1, <1>6, <1>7, <1>8 DEF Streams!DecodeHave, Streams!Some

LEMMA FlattenOneMore ==
    ASSUME NEW S, NEW seqs \in Seq(Seq(S)), NEW x \in Seq(S)
    PROVE  FlattenSeq(Append(seqs, x)) = FlattenSeq(seqs) \o x
<1>1. PICK more, n : more = Append(seqs, x) /\ n = Len(seqs)
  OBVIOUS
<1>2. /\ more \in Seq(Seq(S)) /\ n \in Nat /\ Len(more) = n + 1
      /\ more[n + 1] = x /\ \A k \in 1..n : more[k] = seqs[k]
  BY <1>1, AppendIs
<1>3. PICK f : /\ f[0] = << >> /\ \A k \in 1..n : f[k] = f[k - 1] \o seqs[k]
               /\ FlattenSeq(seqs) = f[n]
  BY <1>1, FlattenSteps
<1>4. PICK g : /\ g[0] = << >> /\ \A k \in 1..n + 1 : g[k] = g[k - 1] \o more[k]
               /\ FlattenSeq(more) = g[n + 1]
  <2>1. PICK m : m = Len(more)
    OBVIOUS
  <2>2. PICK g : /\ g[0] = << >> /\ \A k \in 1..m : g[k] = g[k - 1] \o more[k]
                 /\ FlattenSeq(more) = g[m]
    BY <1>2, <2>1, FlattenSteps
  <2>3. m = n + 1
    BY <1>2, <2>1
  <2>4. QED
    BY <2>2, <2>3
<1> DEFINE S0 == {k \in Nat : k <= n => g[k] = f[k]}
<1>5. 0 \in S0
  BY <1>3, <1>4
<1>6. ASSUME NEW k \in Nat, k \in S0 PROVE k + 1 \in S0
  <2> SUFFICES ASSUME k + 1 <= n PROVE g[k + 1] = f[k + 1]
    OBVIOUS
  <2>1. k + 1 \in 1..n /\ k + 1 \in 1..n + 1 /\ (k + 1) - 1 = k /\ g[k] = f[k]
    BY <1>2, <1>6
  <2>2. g[k + 1] = g[k] \o more[k + 1] /\ f[k + 1] = f[k] \o seqs[k + 1]
    BY <1>3, <1>4, <2>1
  <2>3. QED
    BY <1>2, <2>1, <2>2
<1>7. Nat \subseteq S0
  <2> HIDE DEF S0
  <2> QED  BY <1>5, <1>6, SetInduction
<1>8. g[n] = f[n]
  BY <1>2, <1>7
<1>9. n + 1 \in 1..n + 1 /\ (n + 1) - 1 = n
  BY <1>2
<1>10. g[n + 1] = g[n] \o more[n + 1]
  BY <1>4, <1>9
<1>11. QED
  BY <1>1, <1>2, <1>3, <1>4, <1>8, <1>10

LEMMA BehindOneMore ==
    ASSUME NEW l \in Seq(Bytes), NEW t \in Bytes
    PROVE  Behind(Append(l, t)) = Append(Behind(l), Wire!Text(t))
<1>1. PICK more, n, b, c : more = Append(l, t) /\ n = Len(l) /\ b = Behind(more) /\ c = Append(Behind(l), Wire!Text(t))
  OBVIOUS
<1>2. /\ more \in Seq(Bytes) /\ n \in Nat /\ Len(more) = n + 1
      /\ more[n + 1] = t /\ \A k \in 1..n : more[k] = l[k]
  BY <1>1, AppendIs
<1>3. b \in Seq(Seq(Nat)) /\ Len(b) = n + 1 /\ \A k \in 1..n + 1 : b[k] = Wire!Text(more[k])
  BY <1>1, <1>2, BehindIs
<1>4. Behind(l) \in Seq(Seq(Nat)) /\ Len(Behind(l)) = n /\ \A k \in 1..n : Behind(l)[k] = Wire!Text(l[k])
  BY <1>1, BehindIs
<1>5. Wire!Text(t) \in Seq(Nat)
  BY TextIs DEF Bytes
<1>6. /\ c \in Seq(Seq(Nat)) /\ Len(c) = n + 1 /\ c[n + 1] = Wire!Text(t)
      /\ \A k \in 1..n : c[k] = Wire!Text(l[k])
  BY <1>1, <1>4, <1>5, AppendIs
<1>7. \A k \in 1..n + 1 : b[k] = c[k]
  <2>1. \A k \in 1..n + 1 : k = n + 1 \/ k \in 1..n
    BY <1>2
  <2>2. n + 1 \in 1..n + 1 /\ \A k \in 1..n : k \in 1..n + 1
    BY <1>2
  <2>3. QED
    BY <1>2, <1>3, <1>6, <2>1, <2>2
<1>8. b = c
  BY <1>3, <1>6, <1>7, SeqEqual
<1>9. QED
  BY <1>1, <1>8

LEMMA HoldsJoined ==
    ASSUME NEW written \in Bytes, NEW at \in Nat, NEW a \in Bytes, NEW b \in Bytes,
           Holding(written, at, a), Holding(written, at + Len(a), b)
    PROVE  Holding(written, at, a \o b)
<1>1. PICK c, m, n : c = a \o b /\ m = Len(a) /\ n = Len(b)
  OBVIOUS
<1>2. /\ m \in Nat /\ n \in Nat /\ Len(c) = m + n
      /\ \A i \in 1..m : c[i] = a[i]
      /\ \A i \in 1..n : c[m + i] = b[i]
  BY <1>1, JoinedAre, BytesAre
<1>3. /\ \A i \in 1..m : written[at + i] = a[i]
      /\ (at + m) + n <= Len(written) /\ \A i \in 1..n : written[(at + m) + i] = b[i]
  BY <1>1 DEF Holding
<1>4. Len(written) \in Nat
  BY BytesAre
<1>5. ASSUME NEW i \in 1..m + n PROVE written[at + i] = c[i]
  <2>1. CASE i <= m
    <3>1. i \in 1..m
      BY <1>2, <2>1
    <3>2. QED
      BY <1>2, <1>3, <3>1
  <2>2. CASE ~(i <= m)
    <3>1. PICK j : j = i - m
      OBVIOUS
    <3>2. j \in 1..n /\ m + j = i /\ (at + m) + j = at + i
      BY <1>2, <2>2, <3>1
    <3>3. c[m + j] = b[j] /\ written[(at + m) + j] = b[j]
      BY <1>2, <1>3, <3>2
    <3>4. QED
      BY <3>2, <3>3
  <2>3. QED
    BY <2>1, <2>2
<1>6. at + (m + n) <= Len(written)
  BY <1>2, <1>3, <1>4
<1>7. QED
  BY <1>1, <1>2, <1>5, <1>6 DEF Holding

-----------------------------------------------------------------------------

AllDifferences == [target : Nat, signature : Nat, deltas : Seq(Bytes)]

LEMMA StreamsFlatten == ASSUME NEW s PROVE Streams!FlattenSeq(s) = FlattenSeq(s)
BY DEF Streams!FlattenSeq, FlattenSeq

LEMMA EncodeSinceIs ==
    ASSUME NEW a \in AllDifferences
    PROVE  Streams!EncodeSince(a) = <<a.target, a.signature, Len(a.deltas)>> \o FlattenSeq(Behind(a.deltas))
<1>1. PICK texts : texts = Behind(a.deltas)
  OBVIOUS
<1>2. texts = [i \in DOMAIN a.deltas |-> <<Len(a.deltas[i])>> \o a.deltas[i]]
  BY <1>1 DEF Behind, Wire!Text
<1>3. Streams!EncodeSince(a) = <<a.target, a.signature, Len(a.deltas)>> \o FlattenSeq(texts)
  BY ONLY <1>2, StreamsFlatten DEF Streams!EncodeSince
<1>4. QED
  BY <1>1, <1>3

\* What a reader of deltas has after one more of them.
SinceStep(body, read) ==
    IF ~Streams!IsSome(read) THEN << >>
    ELSE LET at == Streams!The(read).at
         IN  IF at > Len(body) \/ at + body[at] > Len(body) \/ body[at] > MaxBody THEN << >>
             ELSE <<[deltas |-> Append(Streams!The(read).deltas, SubSeq(body, at + 1, at + body[at])),
                     at |-> at + body[at] + 1]>>

SinceReads == {<<r>> : r \in [deltas : Seq(Bytes), at : Nat \ {0}]} \cup {<< >>}

LEMMA SinceStepIs ==
    ASSUME NEW body \in Bytes, NEW read \in SinceReads
    PROVE  SinceStep(body, read) \in SinceReads
<1>1. CASE read = << >>
  BY <1>1 DEF SinceStep, SinceReads, Streams!IsSome
<1>2. CASE read # << >>
  <2>1. PICK r \in [deltas : Seq(Bytes), at : Nat \ {0}] : read = <<r>>
    BY <1>2 DEF SinceReads
  <2>2. Streams!IsSome(read) /\ Streams!The(read) = r
    BY <2>1 DEF Streams!IsSome, Streams!The
  <2>3. PICK at, l, n : at = r.at /\ l = r.deltas /\ n = Len(body)
    OBVIOUS
  <2>4. at \in Nat \ {0} /\ l \in Seq(Bytes) /\ n \in Nat
    BY <2>1, <2>3, BytesAre
  <2>5. CASE at > n \/ at + body[at] > n \/ body[at] > MaxBody
    BY <2>2, <2>3, <2>5 DEF SinceStep, SinceReads
  <2>6. CASE ~(at > n \/ at + body[at] > n \/ body[at] > MaxBody)
    <3>1. at \in 1..n
      BY <2>4, <2>6
    <3>2. body[at] \in Nat
      BY <2>3, <3>1, BytesAre
    <3>3. PICK part, next : part = SubSeq(body, at + 1, at + body[at]) /\ next = at + body[at] + 1
      OBVIOUS
    <3>4. at + body[at] <= n
      BY <2>4, <2>6, <3>2
    <3>5. part \in Bytes
      BY <2>3, <2>4, <3>2, <3>3, <3>4, PartIs
    <3>6. next \in Nat \ {0}
      BY <2>4, <3>2, <3>3
    <3>7. Append(l, part) \in Seq(Bytes)
      BY <2>4, <3>5, AppendIs
    <3>8. SinceStep(body, read) = <<[deltas |-> Append(l, part), at |-> next]>>
      BY <2>2, <2>3, <2>6, <3>3 DEF SinceStep
    <3>9. QED
      BY <3>6, <3>7, <3>8 DEF SinceReads
  <2>7. QED
    BY <2>5, <2>6
<1>3. QED
  BY <1>1, <1>2

\* How a difference is read.
LEMMA DecodeSinceIs ==
    ASSUME NEW body \in Bytes, Len(body) >= 3, NEW n, n = body[3]
    PROVE  \E g \in [0..n -> SinceReads] :
             /\ n \in Nat /\ g[0] = <<[deltas |-> << >>, at |-> 4]>>
             /\ \A k \in 1..n : g[k] = SinceStep(body, g[k - 1])
             /\ Streams!DecodeSince(body) =
                  IF g[n] # << >> /\ g[n][1].at = Len(body) + 1
                  THEN <<[target |-> body[1], signature |-> body[2], deltas |-> g[n][1].deltas]>> ELSE << >>
<1>1. n \in Nat /\ ~(Len(body) < 3)
  <2>1. Len(body) \in Nat /\ 3 \in 1..Len(body)
    BY BytesAre
  <2>2. QED
    BY <2>1, BytesAre
<1>2. PICK first : first = <<[deltas |-> << >>, at |-> 4]>>
  OBVIOUS
<1>3. first \in SinceReads
  <2>1. PICK r, none : r = [deltas |-> none, at |-> 4] /\ none = << >>
    OBVIOUS
  <2>2. none \in Seq(Bytes) /\ 4 \in Nat \ {0}
    BY <2>1, EmptyIn
  <2>3. r \in [deltas : Seq(Bytes), at : Nat \ {0}]
    BY <2>1, <2>2
  <2>4. first = <<r>>
    BY <1>2, <2>1
  <2>5. QED
    BY <2>3, <2>4 DEF SinceReads
<1>4. PICK step : step = [x \in (1..n) \X SinceReads |-> SinceStep(body, x[2])]
  OBVIOUS
<1>5. IsStep(step, SinceReads, n)
  <2>1. \A x \in (1..n) \X SinceReads : SinceStep(body, x[2]) \in SinceReads
    BY SinceStepIs
  <2>2. QED
    BY <1>4, <2>1 DEF IsStep
<1>6. PICK f : Computes(f, SinceReads, first, step, n)
  BY <1>1, <1>3, <1>5, RecursionIs
<1>7. f \in [0..n -> SinceReads] /\ f[0] = first /\ \A k \in 1..n : f[k] = SinceStep(body, f[k - 1])
  <2>1. /\ f \in [0..n -> SinceReads] /\ f[0] = first
        /\ \A k \in 1..n : f[k - 1] \in SinceReads /\ f[k] = step[<<k, f[k - 1]>>]
    BY <1>6 DEF Computes
  <2>2. ASSUME NEW k \in 1..n PROVE f[k] = SinceStep(body, f[k - 1])
    <3>1. <<k, f[k - 1]>> \in (1..n) \X SinceReads
      BY <2>1
    <3>2. step[<<k, f[k - 1]>>] = SinceStep(body, f[k - 1])
      BY <1>4, <3>1
    <3>3. QED
      BY <2>1, <3>2
  <2>3. QED
    BY <2>1, <2>2
<1>13. n = IF Len(body) < 3 THEN 0 ELSE body[3]
  BY <1>1
<1> DEFINE Reads(h) == h = [k \in 0..(IF Len(body) < 3 THEN 0 ELSE body[3]) |->
                              IF k = 0 THEN <<[deltas |-> << >>, at |-> 4]>> ELSE SinceStep(body, h[k - 1])]
<1>8. Reads(f)
  <2>1. \A k \in 0..n : k = 0 \/ k \in 1..n
    OBVIOUS
  <2>2. \A k \in 0..n : f[k] = IF k = 0 THEN first ELSE SinceStep(body, f[k - 1])
    BY <1>7, <2>1
  <2>3. f = [k \in 0..n |-> f[k]]
    BY <1>7
  <2>4. f = [k \in 0..n |-> IF k = 0 THEN first ELSE SinceStep(body, f[k - 1])]
    BY <2>2, <2>3
  <2>5. QED
    BY <1>2, <1>13, <2>4
<1>9. PICK h, all : /\ Reads(h) /\ all = h[n]
                    /\ Streams!DecodeSince(body) =
                         IF ~Streams!IsSome(all) THEN << >>
                         ELSE IF Streams!The(all).at # Len(body) + 1 THEN << >>
                         ELSE <<[target |-> body[1], signature |-> body[2], deltas |-> Streams!The(all).deltas]>>
  <2>1. PICK g : g = CHOOSE e : Reads(e)
    OBVIOUS
  <2>2. Streams!DecodeSince(body) =
          IF ~Streams!IsSome(g[n]) THEN << >>
          ELSE IF Streams!The(g[n]).at # Len(body) + 1 THEN << >>
          ELSE <<[target |-> body[1], signature |-> body[2], deltas |-> Streams!The(g[n]).deltas]>>
    <3>1. Streams!DecodeSince(body) =
            IF Len(body) < 3 THEN << >>
            ELSE IF ~Streams!IsSome((CHOOSE e : Reads(e))[body[3]]) THEN << >>
            ELSE IF Streams!The((CHOOSE e : Reads(e))[body[3]]).at # Len(body) + 1 THEN << >>
            ELSE <<[target |-> body[1], signature |-> body[2],
                    deltas |-> Streams!The((CHOOSE e : Reads(e))[body[3]]).deltas]>>
      BY ONLY DEF Streams!DecodeSince, SinceStep, Streams!Some
    <3>2. QED
      <4> HIDE DEF Reads
      <4> QED  BY <1>1, <2>1, <3>1
  <2>3. QED
    <3> HIDE DEF Reads
    <3> QED  BY <1>8, <2>1, <2>2
<1>10. h = f
  <2>5. h = [k \in 0..n |-> IF k = 0 THEN first ELSE SinceStep(body, h[k - 1])]
    BY <1>2, <1>9, <1>13
  <2>1. IsRow(h, n) /\ IsRow(f, n)
    BY <1>7, <2>5 DEF IsRow
  <2>2. h[0] = f[0]
    BY <1>1, <1>7, <2>5
  <2>3. \A k \in 1..n : h[k - 1] = f[k - 1] => h[k] = f[k]
    <3> TAKE k \in 1..n
    <3>1. k \in 0..n /\ k # 0
      OBVIOUS
    <3>2. h[k] = SinceStep(body, h[k - 1])
      BY <2>5, <3>1
    <3>3. QED
      BY <1>7, <3>2
  <2>4. QED
    BY <1>1, <2>1, <2>2, <2>3, SameFrom
<1>11. Streams!DecodeSince(body) =
         IF f[n] # << >> /\ f[n][1].at = Len(body) + 1
         THEN <<[target |-> body[1], signature |-> body[2], deltas |-> f[n][1].deltas]>> ELSE << >>
  <2> HIDE DEF Reads
  <2> QED  BY <1>9, <1>10 DEF Streams!IsSome, Streams!The
<1>12. QED
  BY <1>1, <1>2, <1>7, <1>11

\* The parts of a difference on the wire.
LEMMA SinceBodyIs ==
    ASSUME NEW a \in AllDifferences, NEW body, body = Streams!EncodeSince(a)
    PROVE  /\ body \in Bytes /\ Len(body) >= 3 /\ Len(body) = 3 + Len(FlattenSeq(Behind(a.deltas)))
           /\ body[1] = a.target /\ body[2] = a.signature /\ body[3] = Len(a.deltas)
           /\ FlattenSeq(Behind(a.deltas)) \in Bytes
           /\ Holding(body, 3, FlattenSeq(Behind(a.deltas)))
<1>1. PICK head, flat, l, n : /\ head = <<a.target, a.signature, Len(a.deltas)>> /\ l = a.deltas
                              /\ flat = FlattenSeq(Behind(a.deltas)) /\ n = Len(flat)
  OBVIOUS
<1>2. l \in Seq(Bytes) /\ Len(l) \in Nat /\ a.target \in Nat /\ a.signature \in Nat
  BY <1>1 DEF AllDifferences
<1>3. head \in Bytes /\ Len(head) = 3 /\ head[1] = a.target /\ head[2] = a.signature /\ head[3] = Len(l)
  BY <1>1, <1>2 DEF Bytes
<1>4. flat \in Bytes /\ n \in Nat
  <2>1. Behind(l) \in Seq(Seq(Nat))
    BY <1>2, BehindIs
  <2>2. FlattenSeq(Behind(l)) \in Bytes
    BY <2>1, FlattenIs DEF Bytes
  <2>3. QED
    BY <1>1, <2>2, BytesAre
<1>5. body = head \o flat
  BY <1>1, EncodeSinceIs
<1>6. /\ body \in Bytes /\ Len(body) = 3 + n /\ \A i \in 1..3 : body[i] = head[i]
  <2>1. /\ head \o flat \in Bytes /\ Len(head \o flat) = Len(head) + Len(flat)
        /\ \A i \in 1..Len(head) : (head \o flat)[i] = head[i]
    BY ONLY <1>3, <1>4, JoinedAre
  <2>2. QED
    BY <1>1, <1>3, <1>5, <2>1
<1>7. Holding(body, 3, flat)
  <2>1. Holding(body, 0, head \o flat)
    BY <1>5, <1>6, HoldsItself
  <2>2. Holding(body, 0 + Len(head), flat)
    BY <1>3, <1>4, <1>6, <2>1, HoldsParts
  <2>3. QED
    BY <1>3, <2>2
<1>8. QED
  BY <1>1, <1>3, <1>4, <1>6, <1>7

\* A difference that fits reads back as it was written.
LEMMA SinceReadsBack ==
    ASSUME NEW a \in AllDifferences, Len(Streams!EncodeSince(a)) <= MaxBody
    PROVE  Streams!DecodeSince(Streams!EncodeSince(a)) = <<a>>
<1>1. PICK body, l, n, length : /\ body = Streams!EncodeSince(a) /\ l = a.deltas /\ n = Len(a.deltas)
                                /\ length = Len(body)
  OBVIOUS
<1>2. /\ body \in Bytes /\ length >= 3 /\ length \in Nat /\ length <= MaxBody /\ MaxBody \in Nat
      /\ body[1] = a.target /\ body[2] = a.signature /\ body[3] = n
      /\ Holding(body, 3, FlattenSeq(Behind(l)))
      /\ length = 3 + Len(FlattenSeq(Behind(l)))
  BY <1>1, SinceBodyIs, BytesAre, SamplesFit
<1>3. l \in Seq(Bytes) /\ n = Len(l) /\ n \in Nat
  BY <1>1 DEF AllDifferences
<1>4. PICK start : RowIn(body, 3, l, start) /\ start[n] = length
  BY <1>2, <1>3, RowsAreIn
<1>5. /\ start[0] = 3 /\ \A k \in 0..n : start[k] \in Nat
      /\ \A k \in 1..n : start[k] = start[k - 1] + Len(l[k]) + 1 /\ Holding(body, start[k - 1], Wire!Text(l[k]))
  BY <1>3, <1>4 DEF RowIn
<1>6. PICK g : /\ g[0] = <<[deltas |-> << >>, at |-> 4]>>
               /\ \A k \in 1..n : g[k] = SinceStep(body, g[k - 1])
               /\ Streams!DecodeSince(body) =
                    IF g[n] # << >> /\ g[n][1].at = length + 1
                    THEN <<[target |-> body[1], signature |-> body[2], deltas |-> g[n][1].deltas]>> ELSE << >>
  <2>1. PICK m : m = body[3]
    OBVIOUS
  <2>2. Len(body) >= 3
    BY <1>1, <1>2
  <2>3. PICK g : /\ g[0] = <<[deltas |-> << >>, at |-> 4]>>
                 /\ \A k \in 1..m : g[k] = SinceStep(body, g[k - 1])
                 /\ Streams!DecodeSince(body) =
                      IF g[m] # << >> /\ g[m][1].at = Len(body) + 1
                      THEN <<[target |-> body[1], signature |-> body[2], deltas |-> g[m][1].deltas]>> ELSE << >>
    BY ONLY <1>2, <2>1, <2>2, DecodeSinceIs
  <2>4. m = n /\ Len(body) = length
    BY <1>1, <1>2, <2>1
  <2>5. QED
    BY ONLY <2>3, <2>4
<1>7. PICK part : \A k \in 0..n : part[k] = SubSeq(l, 1, k)
  <2>1. PICK part : part = [k \in 0..n |-> SubSeq(l, 1, k)]
    OBVIOUS
  <2>2. \A k \in 0..n : part[k] = SubSeq(l, 1, k)
    BY <2>1, Zenon
  <2>3. QED
    BY <2>2, Zenon
<1>8. part[0] = << >> /\ part[n] = l /\ \A k \in 1..n : Append(part[k - 1], l[k]) = part[k]
  <2>1. SubSeq(l, 1, 0) = << >> /\ 0 \in 0..n /\ n \in 0..n
    BY <1>3, SubSeqEmpty
  <2>2. SubSeq(l, 1, n) = l
    BY <1>3, SubSeqFull
  <2>3. ASSUME NEW k \in 1..n PROVE Append(part[k - 1], l[k]) = part[k]
    <3>1. k - 1 \in 0..n /\ k \in 0..n
      BY <1>3
    <3>2. Append(SubSeq(l, 1, k - 1), l[k]) = SubSeq(l, 1, k)
      BY <1>3, OneMorePart
    <3>3. QED
      BY <1>7, <3>1, <3>2
  <2>4. QED
    BY <1>7, <2>1, <2>2, <2>3
<1> DEFINE S == {k \in Nat : k <= n => g[k] = <<[deltas |-> part[k], at |-> start[k] + 1]>>}
<1>9. 0 \in S
  BY <1>5, <1>6, <1>8
<1>10. ASSUME NEW j \in Nat, j \in S PROVE j + 1 \in S
  <2> SUFFICES ASSUME j + 1 <= n PROVE g[j + 1] = <<[deltas |-> part[j + 1], at |-> start[j + 1] + 1]>>
    OBVIOUS
  <2>1. PICK k : k = j + 1
    OBVIOUS
  <2>2. k \in 1..n /\ k - 1 = j /\ j \in 0..n
    BY <1>3, <2>1
  <2>3. PICK t, size, at, here, next :
          t = l[k] /\ size = Len(t) /\ here = start[j] /\ next = start[k] /\ at = here + 1
    OBVIOUS
  <2>4. /\ t \in Bytes /\ size \in Nat /\ here \in Nat /\ at \in Nat /\ next = at + size
        /\ Holding(body, here, Wire!Text(t))
    <3>1. t \in Bytes /\ size \in Nat /\ here \in Nat
      BY <1>3, <1>5, <2>2, <2>3, BytesAre
    <3>2. next = here + size + 1 /\ Holding(body, here, Wire!Text(t))
      BY <1>5, <2>2, <2>3
    <3>3. at = here + 1
      BY <2>3
    <3>4. at \in Nat /\ next = at + size
      BY ONLY <3>1, <3>2, <3>3
    <3>5. QED
      BY <3>1, <3>2, <3>4
  <2>6. Wire!Text(t) = <<size>> \o t /\ <<size>> \in Bytes /\ Len(<<size>>) = 1
    BY <2>3, <2>4, TextIs
  <2>7. Holding(body, here, <<size>>) /\ Holding(body, at, t)
    <3>1. Holding(body, here, <<size>> \o t)
      BY <2>4, <2>6
    <3>2. Holding(body, here, <<size>>) /\ Holding(body, here + Len(<<size>>), t)
      BY ONLY <1>2, <2>4, <2>6, <3>1, HoldsParts
    <3>3. QED
      BY <2>3, <2>6, <3>2
  <2>8. body[at] = size /\ at + size <= length /\ \A i \in 1..size : body[at + i] = t[i]
    <3>1. body[here + 1] = size
      BY <2>7, HoldsOne
    <3>2. at + size <= length /\ \A i \in 1..size : body[at + i] = t[i]
      BY <1>1, <2>3, <2>7 DEF Holding
    <3>3. QED
      BY <2>3, <3>1, <3>2
  <2>9. SubSeq(body, at + 1, at + size) = t
    <3>1. PICK p : p = SubSeq(body, at + 1, at + size)
      OBVIOUS
    <3>2. p \in Bytes /\ Len(p) = size /\ \A i \in 1..size : p[i] = body[at + i]
      <4>1. at + size <= Len(body)
        BY <1>1, <2>8
      <4>2. PICK lo, hi : lo = at + 1 /\ hi = at + size
        OBVIOUS
      <4>3. /\ lo \in Nat /\ hi \in Nat /\ lo >= 1 /\ hi + 1 >= lo /\ hi <= Len(body)
            /\ hi - lo + 1 = size /\ lo - 1 = at
        BY ONLY <2>4, <4>1, <4>2
      <4>4. p = SubSeq(body, lo, hi)
        BY ONLY <3>1, <4>2
      <4>5. p \in Bytes /\ Len(p) = hi - lo + 1 /\ \A i \in 1..hi - lo + 1 : p[i] = body[lo - 1 + i]
        BY ONLY <1>2, <4>3, <4>4, StretchIs
      <4>6. QED
        BY ONLY <4>3, <4>5
    <3>3. p = t
      <4>1. Len(p) = Len(t) /\ \A i \in 1..Len(p) : p[i] = t[i]
        BY ONLY <2>3, <2>8, <3>2
      <4>2. QED
        BY ONLY <2>4, <3>2, <4>1, SameBytes
    <3>4. QED
      BY <3>1, <3>3
  <2>10. PICK r : r = [deltas |-> part[j], at |-> at]
    OBVIOUS
  <2>11. g[j] = <<r>>
    BY <1>10, <2>2, <2>3, <2>10
  <2>12. Streams!IsSome(g[j]) /\ Streams!The(g[j]) = r
    BY <2>11 DEF Streams!IsSome, Streams!The
  <2>13. ~(at > length) /\ ~(at + size > length) /\ ~(size > MaxBody)
    BY ONLY <1>2, <2>4, <2>8
  <2>14. SinceStep(body, g[j]) = <<[deltas |-> Append(part[j], t), at |-> at + size + 1]>>
    <3>1. r.at = at /\ r.deltas = part[j]
      BY <2>10
    <3>2. length = Len(body)
      BY <1>1
    <3>3. QED
      BY ONLY <2>8, <2>9, <2>12, <2>13, <3>1, <3>2 DEF SinceStep
  <2>15. g[k] = SinceStep(body, g[j])
    BY <1>6, <2>2
  <2>16. Append(part[j], t) = part[k]
    BY <1>8, <2>2, <2>3
  <2>17. at + size + 1 = start[k] + 1
    BY <2>3, <2>4
  <2>18. QED
    BY <2>1, <2>14, <2>15, <2>16, <2>17
<1>11. g[n] = <<[deltas |-> l, at |-> length + 1]>>
  <2>1. Nat \subseteq S
    <3> HIDE DEF S
    <3> QED  BY <1>9, <1>10, SetInduction
  <2>2. g[n] = <<[deltas |-> part[n], at |-> start[n] + 1]>>
    BY <1>3, <2>1
  <2>3. QED
    BY <1>4, <1>8, <2>2
<1>12. g[n] # << >> /\ g[n][1].at = length + 1 /\ g[n][1].deltas = l
  BY <1>11
<1>13. Streams!DecodeSince(body) = <<[target |-> a.target, signature |-> a.signature, deltas |-> l]>>
  BY <1>2, <1>6, <1>12
<1>14. a = [target |-> a.target, signature |-> a.signature, deltas |-> l]
  BY <1>1 DEF AllDifferences
<1>15. QED
  BY <1>1, <1>13, <1>14

\* What is read of any body is all of that body.
LEMMA SinceIsWhole ==
    ASSUME NEW body \in Bytes, NEW v, Streams!DecodeSince(body) = <<v>>
    PROVE  v \in AllDifferences /\ Streams!EncodeSince(v) = body
<1>1. PICK n, length : n = body[3] /\ length = Len(body)
  OBVIOUS
<1>2. length \in Nat /\ length >= 3
  <2>1. length \in Nat
    BY <1>1, BytesAre
  <2>2. CASE length < 3
    <3>1. Streams!DecodeSince(body) = << >>
      BY <1>1, <2>2 DEF Streams!DecodeSince
    <3>2. QED
      BY <3>1
  <2>3. QED
    BY <2>1, <2>2
<1>3. PICK g : /\ g \in [0..n -> SinceReads]
               /\ n \in Nat /\ g[0] = <<[deltas |-> << >>, at |-> 4]>>
               /\ \A k \in 1..n : g[k] = SinceStep(body, g[k - 1])
               /\ Streams!DecodeSince(body) =
                    IF g[n] # << >> /\ g[n][1].at = length + 1
                    THEN <<[target |-> body[1], signature |-> body[2], deltas |-> g[n][1].deltas]>> ELSE << >>
  BY <1>1, <1>2, DecodeSinceIs
<1> DEFINE Sound(r, k) == /\ Len(r.deltas) = k /\ Holding(body, 3, FlattenSeq(Behind(r.deltas)))
                          /\ r.at = 4 + Len(FlattenSeq(Behind(r.deltas)))
           S == {k \in Nat : k <= n => g[k] = << >> \/ Sound(g[k][1], k)}
<1>4. 0 \in S
  <2>1. PICK r : r = g[0][1]
    OBVIOUS
  <2>2. r.deltas = << >> /\ r.at = 4
    BY <1>3, <2>1
  <2>3. Behind(<< >>) = << >>
    BY DEF Behind
  <2>4. FlattenSeq(<< >>) = << >>
    BY DEF FlattenSeq
  <2>5. Sound(r, 0)
    BY <1>1, <1>2, <2>2, <2>3, <2>4, EmptyIs DEF Holding
  <2>6. QED
    BY <2>1, <2>5
<1>5. ASSUME NEW j \in Nat, j \in S PROVE j + 1 \in S
  <2> SUFFICES ASSUME j + 1 <= n, g[j + 1] # << >> PROVE Sound(g[j + 1][1], j + 1)
    OBVIOUS
  <2>1. PICK k : k = j + 1
    OBVIOUS
  <2>2. k \in 1..n /\ k - 1 = j /\ j \in 0..n /\ g[k] = SinceStep(body, g[j]) /\ g[k] # << >>
    BY <1>3, <2>1
  <2>3. g[j] # << >>
    BY <2>2 DEF SinceStep, Streams!IsSome
  <2>4. PICK r \in [deltas : Seq(Bytes), at : Nat \ {0}] : g[j] = <<r>>
    BY <1>3, <2>2, <2>3 DEF SinceReads
  <2>5. Sound(r, j)
    BY <1>5, <2>2, <2>3, <2>4
  <2>6. Streams!IsSome(g[j]) /\ Streams!The(g[j]) = r
    BY <2>4 DEF Streams!IsSome, Streams!The
  <2>7. PICK l, at, flat : l = r.deltas /\ at = r.at /\ flat = FlattenSeq(Behind(r.deltas))
    OBVIOUS
  <2>8. l \in Seq(Bytes) /\ at \in Nat \ {0} /\ Len(l) = j /\ Holding(body, 3, flat) /\ at = 4 + Len(flat)
    BY <2>4, <2>5, <2>7
  <2>9. ~(at > length \/ at + body[at] > length \/ body[at] > MaxBody)
    BY <1>1, <2>2, <2>6, <2>7 DEF SinceStep
  <2>10. PICK size, part : size = body[at] /\ part = SubSeq(body, at + 1, at + body[at])
    OBVIOUS
  <2>11. size \in Nat /\ at \in 1..length
    <3>1. at \in 1..length
      BY <1>2, <2>8, <2>9
    <3>2. QED
      BY <1>1, <2>10, <3>1, BytesAre
  <2>12. part \in Bytes /\ Len(part) = size /\ \A i \in 1..size : part[i] = body[at + i]
    <3>1. at + size <= Len(body) /\ at \in Nat
      BY <1>1, <1>2, <2>8, <2>9, <2>10, <2>11
    <3>2. part = SubSeq(body, at + 1, at + size)
      BY <2>10
    <3>3. QED
      BY <2>11, <3>1, <3>2, PartIs
  <2>13. g[k] = <<[deltas |-> Append(l, part), at |-> at + size + 1]>>
    BY <1>1, <2>2, <2>6, <2>7, <2>9, <2>10 DEF SinceStep
  <2>14. Wire!Text(part) = <<size>> \o part /\ <<size>> \in Bytes /\ Len(<<size>>) = 1
         /\ Wire!Text(part) \in Bytes /\ Len(Wire!Text(part)) = size + 1
    BY <2>12, TextIs
  <2>15. Behind(l) \in Seq(Seq(Nat)) /\ flat \in Bytes /\ Len(flat) \in Nat
    <3>1. Behind(l) \in Seq(Seq(Nat))
      BY <2>8, BehindIs
    <3>2. flat \in Bytes
      BY <2>7, <3>1, FlattenIs DEF Bytes
    <3>3. QED
      BY <3>1, <3>2, BytesAre
  <2>16. PICK more, text : more = FlattenSeq(Behind(Append(l, part))) /\ text = Wire!Text(part)
    OBVIOUS
  <2>17. more = flat \o text
    <3>1. Behind(Append(l, part)) = Append(Behind(l), text)
      BY <2>8, <2>12, <2>16, BehindOneMore
    <3>2. text \in Seq(Nat)
      BY <2>14, <2>16 DEF Bytes
    <3>3. FlattenSeq(Append(Behind(l), text)) = FlattenSeq(Behind(l)) \o text
      BY <2>15, <3>2, FlattenOneMore
    <3>4. QED
      BY <2>7, <2>16, <3>1, <3>3
  <2>18. Holding(body, 3 + Len(flat), text)
    <3>1. PICK from : from = 3 + Len(flat)
      OBVIOUS
    <3>2. from \in Nat /\ from + 1 = at
      BY <2>8, <2>15, <3>1
    <3>3. Holding(body, from, <<size>>)
      <4>1. PICK one : one = <<size>>
        OBVIOUS
      <4>2. Len(one) = 1 /\ one[1] = size /\ from + 1 <= Len(body) /\ body[from + 1] = size
        BY <1>1, <2>10, <2>11, <3>2, <4>1
      <4>3. \A i \in 1..1 : i = 1
        OBVIOUS
      <4>4. QED
        BY <3>2, <4>1, <4>2, <4>3 DEF Holding
    <3>4. Holding(body, at, part)
      <4>1. at \in Nat /\ at + size <= Len(body)
        BY <1>1, <2>8, <2>9, <2>10, <2>11
      <4>2. QED
        BY <2>12, <4>1 DEF Holding
    <3>5. Holding(body, from + Len(<<size>>), part)
      BY <2>14, <3>2, <3>4
    <3>6. Holding(body, from, <<size>> \o part)
      BY <2>12, <2>14, <3>2, <3>3, <3>5, HoldsJoined
    <3>7. QED
      BY <2>14, <2>16, <3>1, <3>6
  <2>19. Holding(body, 3, flat \o text)
    BY <2>8, <2>14, <2>15, <2>16, <2>18, HoldsJoined
  <2>20. Len(more) = Len(flat) + (size + 1)
    <3>1. Len(flat \o text) = Len(flat) + Len(text)
      BY <2>14, <2>15, <2>16, JoinedAre
    <3>2. QED
      BY <2>14, <2>16, <2>17, <3>1
  <2>21. Len(Append(l, part)) = k
    <3>1. Len(Append(l, part)) = Len(l) + 1
      BY ONLY <2>8, <2>12, AppendIs
    <3>2. QED
      BY <2>1, <2>8, <3>1
  <2>22. PICK s : s = g[k][1]
    OBVIOUS
  <2>23. s.deltas = Append(l, part) /\ s.at = at + size + 1
    BY <2>13, <2>22
  <2>24. at + size + 1 = 4 + (Len(flat) + (size + 1))
    BY <2>8, <2>11, <2>15
  <2>25. Sound(s, k)
    BY <2>16, <2>17, <2>19, <2>20, <2>21, <2>23, <2>24
  <2>26. QED
    BY <2>1, <2>22, <2>25
<1>6. g[n] = << >> \/ Sound(g[n][1], n)
  <2>1. Nat \subseteq S
    <3> HIDE DEF S, Sound
    <3> QED  BY <1>4, <1>5, SetInduction
  <2>2. QED
    BY <1>3, <2>1
<1>7. g[n] # << >> /\ g[n][1].at = length + 1
      /\ v = [target |-> body[1], signature |-> body[2], deltas |-> g[n][1].deltas]
  <2>1. <<v>> # << >>
    OBVIOUS
  <2>2. g[n] # << >> /\ g[n][1].at = length + 1
    BY <1>3, <2>1
  <2>3. <<v>> = <<[target |-> body[1], signature |-> body[2], deltas |-> g[n][1].deltas]>>
    BY <1>3, <2>2
  <2>4. QED
    BY <2>2, <2>3
<1>8. PICK r \in [deltas : Seq(Bytes), at : Nat \ {0}] : g[n] = <<r>>
  <2>1. n \in 0..n
    BY <1>3
  <2>2. QED
    BY <1>3, <1>7, <2>1 DEF SinceReads
<1>9. /\ r.deltas \in Seq(Bytes) /\ Len(r.deltas) = n /\ Holding(body, 3, FlattenSeq(Behind(r.deltas)))
      /\ length + 1 = 4 + Len(FlattenSeq(Behind(r.deltas)))
      /\ v = [target |-> body[1], signature |-> body[2], deltas |-> r.deltas]
  BY <1>6, <1>7, <1>8
<1>10. body[1] \in Nat /\ body[2] \in Nat /\ body[3] = n
  <2>1. 1 \in 1..length /\ 2 \in 1..length
    BY <1>2
  <2>2. QED
    BY <1>1, <2>1, BytesAre
<1>11. v \in AllDifferences /\ v.target = body[1] /\ v.signature = body[2] /\ v.deltas = r.deltas
  BY <1>9, <1>10 DEF AllDifferences
<1>12. PICK whl, flat : whl = Streams!EncodeSince(v) /\ flat = FlattenSeq(Behind(r.deltas))
  OBVIOUS
<1>13. /\ whl \in Bytes /\ Len(whl) = 3 + Len(flat)
       /\ whl[1] = body[1] /\ whl[2] = body[2] /\ whl[3] = n
       /\ flat \in Bytes /\ Holding(whl, 3, flat)
  BY <1>9, <1>11, <1>12, SinceBodyIs
<1>14. PICK size : size = Len(flat)
  OBVIOUS
<1>15. size \in Nat /\ length = 3 + size
  <2>1. size \in Nat
    BY <1>13, <1>14, BytesAre
  <2>2. length + 1 = 4 + size
    BY <1>9, <1>12, <1>14
  <2>3. QED
    BY <1>2, <2>1, <2>2
<1>16. ASSUME NEW i \in 1..length PROVE whl[i] = body[i]
  <2>1. CASE i \in 1..3
    <3>1. i = 1 \/ i = 2 \/ i = 3
      BY <2>1
    <3>2. QED
      BY <1>10, <1>13, <3>1
  <2>2. CASE i \notin 1..3
    <3>1. PICK j : j = i - 3
      OBVIOUS
    <3>2. j \in 1..size /\ 3 + j = i
      BY <1>15, <2>2, <3>1
    <3>3. whl[3 + j] = flat[j] /\ body[3 + j] = flat[j]
      BY <1>9, <1>12, <1>13, <1>14, <3>2 DEF Holding
    <3>4. QED
      BY <3>2, <3>3
  <2>3. QED
    BY <2>1, <2>2
<1>17. Len(whl) = length
  BY <1>13, <1>14, <1>15
<1>18. whl = body
  BY <1>1, <1>13, <1>16, <1>17, SameBytes
<1>19. QED
  BY <1>11, <1>12, <1>18

\* What is heard with an op, and what an answer to just that may be, in the
\* client's terms and on the wire.
ArgsFit(op, args) ==
    args \in Bytes /\ Len(args) = IF op = Streams!OpHave THEN 2 ELSE Streams!BodyLen(op)

AnswersTo(op, args) ==
    CASE op = Streams!OpManifest -> {v \in Bytes : Len(v) >= 2}
      [] op = Streams!OpChunkMap -> AllRows
      [] op = Streams!OpChunk -> {v \in Bytes : Streams!HashOf(v) = args[1]}
      [] op = Streams!OpHave -> SUBSET (0..args[2] - 1)
      [] op = Streams!OpManifestSince -> AllDifferences

Written(op, args, v) ==
    CASE op = Streams!OpChunkMap -> Streams!EncodeChunkMap(v)
      [] op = Streams!OpHave -> Streams!EncodeHave(args[2], v)
      [] op = Streams!OpManifestSince -> Streams!EncodeSince(v)
      [] OTHER -> v

\* `answer` is what a source says to a request, and `told` what that tells.
Says(op, args, answer, told) ==
    IF op = Streams!OpRead
    THEN /\ answer.status \in Nat /\ answer.data \in Bytes
         /\ answer.status = 0 /\ args[3] <= MaxReadLen => Len(answer.data) <= args[3]
         /\ told = IF answer.status = 0 /\ args[3] <= MaxReadLen THEN <<answer.data>> ELSE << >>
    ELSE \/ told = << >> /\ answer = << >>
         \/ \E v \in AnswersTo(op, args) :
               /\ told = <<v>> /\ answer = <<Written(op, args, v)>>
               /\ Len(Written(op, args, v)) <= MaxBody

LEMMA OpsAre ==
    /\ Streams!Ops = {1, 2, 6, 7, 8, 9}
    /\ Streams!OpManifest = 1 /\ Streams!OpRead = 2 /\ Streams!OpChunkMap = 6 /\ Streams!OpChunk = 7
    /\ Streams!OpHave = 8 /\ Streams!OpManifestSince = 9
    /\ \A op : Streams!BodyLen(op) = IF op = 1 THEN 0 ELSE IF op = 2 THEN 3 ELSE 1
<1>1. /\ Streams!OpManifest = 1 /\ Streams!OpRead = 2 /\ Streams!OpChunkMap = 6 /\ Streams!OpChunk = 7
      /\ Streams!OpHave = 8 /\ Streams!OpManifestSince = 9
  BY DEF Streams!OpManifest, Streams!OpRead, Streams!OpChunkMap, Streams!OpChunk,
         Streams!OpHave, Streams!OpManifestSince
<1>2. Streams!Ops = {1, 2, 6, 7, 8, 9}
  BY <1>1 DEF Streams!Ops
<1>3. \A op : Streams!BodyLen(op) = IF op = 1 THEN 0 ELSE IF op = 2 THEN 3 ELSE 1
  BY <1>1 DEF Streams!BodyLen
<1>4. QED
  BY <1>1, <1>2, <1>3

\* A stream that says nothing is no answer.
LEMMA SilenceIs ==
    ASSUME NEW app, NEW op \in Streams!Ops, NEW args
    PROVE  Streams!Receive(app, op, args, << >>, 0, << >>).is # "value"
<1>1. PICK none : none = << >>
  OBVIOUS
<1>2. ~Streams!IsSome(none)
  BY <1>1 DEF Streams!IsSome
<1>3. \A o : Streams!Ask(app, o, none).is # "value" /\ Streams!Ask(FALSE, o, none).is # "value"
  BY <1>1, NoValueIs DEF Streams!Ask
<1>4. Streams!FetchManifest(<< >>, 0, none).is # "value"
  BY <1>1, <1>2, NoValueIs DEF Streams!FetchManifest
<1>5. Streams!ReadRange(args[3], none).is # "value"
  BY <1>1, <1>2, NoValueIs DEF Streams!ReadRange
<1>6. Streams!FetchChunkMap(app, none).is # "value"
  BY <1>3 DEF Streams!FetchChunkMap
<1>7. Streams!FetchChunk(app, args[1], none).is # "value"
  BY <1>3 DEF Streams!FetchChunk
<1>8. Streams!FetchManifestSince(app, none).is # "value"
  BY <1>3 DEF Streams!FetchManifestSince
<1>9. Streams!FetchHave(args[2], none).is # "value"
  BY <1>1, <1>2, <1>3, NoValueIs DEF Streams!FetchHave
<1>10. QED
  BY <1>1, <1>4, <1>5, <1>6, <1>7, <1>8, <1>9, OpsAre DEF Streams!Receive

\* A refusal is no answer either.
LEMMA RefusalIs ==
    ASSUME NEW app, NEW op \in Streams!Ops, NEW args, NEW units, units # << >>, units[1] # 0
    PROVE  Streams!Receive(app, op, args, << >>, 0, units).is # "value"
<1>1. PICK none : none = << >>
  OBVIOUS
<1>2. ~Streams!IsSome(none) /\ Streams!Ok = 0
  BY <1>1 DEF Streams!IsSome, Streams!Ok
<1>3. \A o : Streams!Ask(app, o, units).is # "value" /\ Streams!Ask(FALSE, o, units).is # "value"
  BY <1>2, NoValueIs DEF Streams!Ask
<1>4. Streams!FetchManifest(<< >>, 0, units).is # "value"
  BY <1>1, <1>2, NoValueIs DEF Streams!FetchManifest
<1>5. Streams!ReadRange(args[3], units).is # "value"
  BY <1>1, <1>2, NoValueIs DEF Streams!ReadRange
<1>6. Streams!FetchChunkMap(app, units).is # "value"
  BY <1>3 DEF Streams!FetchChunkMap
<1>7. Streams!FetchChunk(app, args[1], units).is # "value"
  BY <1>3 DEF Streams!FetchChunk
<1>8. Streams!FetchManifestSince(app, units).is # "value"
  BY <1>3 DEF Streams!FetchManifestSince
<1>9. Streams!FetchHave(args[2], units).is # "value"
  BY <1>1, <1>2, <1>3, NoValueIs DEF Streams!FetchHave
<1>10. QED
  BY <1>4, <1>5, <1>6, <1>7, <1>8, <1>9, OpsAre DEF Streams!Receive

LEMMA OptionIs == \A v : Streams!IsSome(<<v>>) /\ Streams!The(<<v>>) = v /\ Streams!Some(v) = <<v>>
BY DEF Streams!IsSome, Streams!The, Streams!Some

\* Each client makes of an answer that is all there what was said, and of one that
\* is not nothing.
Takes(got, units, body, v) ==
    /\ got.is = "value" => got.value = v
    /\ Len(units) = Len(body) + 2 => got.is = "value"

LEMMA ManifestTaken ==
    ASSUME NEW v \in Bytes, Len(v) >= 2, Len(v) <= MaxBody, NEW units, CutOff(units, Streams!Body(0, v))
    PROVE  Takes(Streams!FetchManifest(<< >>, 0, units), units, v, v)
<1>1. PICK got : got = Streams!FetchManifest(<< >>, 0, units)
  OBVIOUS
<1>2. /\ units # << >> => units[1] = 0
      /\ Streams!Framed(units, MaxBody) = IF Len(v) <= MaxBody /\ Len(units) = Len(v) + 2 THEN <<v>> ELSE << >>
  BY SamplesFit, FramedIs
<1>3. CASE units = << >>
  <2>1. Len(units) = 0 /\ Len(v) \in Nat
    BY <1>3, BytesAre DEF Bytes
  <2>2. Len(units) # Len(v) + 2
    BY <2>1
  <2>3. got.is # "value"
    BY <1>1, <1>3, NoValueIs DEF Streams!FetchManifest, Streams!IsSome
  <2>4. QED
    BY <1>1, <2>2, <2>3 DEF Takes
<1>4. CASE units # << >> /\ Len(units) # Len(v) + 2
  <2>1. Streams!Framed(units, MaxBody) = << >>
    BY <1>2, <1>4
  <2>2. got.is # "value"
    BY <1>1, <1>2, <1>4, <2>1, NoValueIs DEF Streams!FetchManifest, Streams!IsSome, Streams!Ok
  <2>3. QED
    BY <1>1, <1>4, <2>2 DEF Takes
<1>5. CASE units # << >> /\ Len(units) = Len(v) + 2
  <2>1. Streams!Framed(units, MaxBody) = <<v>>
    BY <1>2, <1>5
  <2>2. Streams!Accepted(<< >>, 0, v)
    BY DEF Streams!Accepted, Streams!IsSome
  <2>3. got = Streams!Value(v)
    BY <1>1, <1>2, <1>5, <2>1, <2>2, OptionIs DEF Streams!FetchManifest, Streams!Ok
  <2>4. QED
    BY <1>1, <2>3, ValueIs DEF Takes
<1>6. QED
  BY <1>3, <1>4, <1>5

LEMMA RangeTaken ==
    ASSUME NEW v \in Bytes, NEW cap \in Nat, Len(v) <= cap, NEW units, CutOff(units, Streams!Body(0, v))
    PROVE  Takes(Streams!ReadRange(cap, units), units, v, v)
<1>1. PICK got : got = Streams!ReadRange(cap, units)
  OBVIOUS
<1>2. /\ units # << >> => units[1] = 0
      /\ Streams!Framed(units, cap) = IF Len(v) <= cap /\ Len(units) = Len(v) + 2 THEN <<v>> ELSE << >>
  BY FramedIs
<1>3. CASE units = << >>
  <2>1. Len(units) = 0 /\ Len(v) \in Nat
    BY <1>3, BytesAre DEF Bytes
  <2>2. Len(units) # Len(v) + 2
    BY <2>1
  <2>3. got.is # "value"
    BY <1>1, <1>3, NoValueIs DEF Streams!ReadRange, Streams!IsSome
  <2>4. QED
    BY <1>1, <2>2, <2>3 DEF Takes
<1>4. CASE units # << >> /\ Len(units) # Len(v) + 2
  <2>1. Streams!Framed(units, cap) = << >>
    BY <1>2, <1>4
  <2>2. got.is # "value"
    BY <1>1, <1>2, <1>4, <2>1, NoValueIs DEF Streams!ReadRange, Streams!IsSome, Streams!Ok
  <2>3. QED
    BY <1>1, <1>4, <2>2 DEF Takes
<1>5. CASE units # << >> /\ Len(units) = Len(v) + 2
  <2>1. Streams!Framed(units, cap) = <<v>>
    BY <1>2, <1>5
  <2>2. got = Streams!Value(v)
    BY <1>1, <1>2, <1>5, <2>1, OptionIs DEF Streams!ReadRange, Streams!Ok
  <2>3. QED
    BY <1>1, <2>2, ValueIs DEF Takes
<1>6. QED
  BY <1>3, <1>4, <1>5

LEMMA RowTaken ==
    ASSUME NEW app, NEW row \in AllRows, NEW body, body = Streams!EncodeChunkMap(row), Len(body) <= MaxBody,
           NEW units, CutOff(units, Streams!Body(0, body))
    PROVE  Takes(Streams!FetchChunkMap(app, units), units, body, row)
<1>1. PICK got, heard : /\ got = Streams!FetchChunkMap(app, units)
                        /\ heard = Streams!Ask(app, Streams!OpChunkMap, units)
  OBVIOUS
<1>2. PICK read : read = [root |-> Streams!RootOf(row), size |-> row.size, leaves |-> row.leaves]
  OBVIOUS
<1>3. body \in Bytes /\ Streams!DecodeChunkMap(body) = <<read>>
  BY <1>2, ChunkMapIs
<1>4. CASE Len(units) = Len(body) + 2
  <2>1. heard = Streams!Value(body)
    BY <1>1, <1>3, <1>4, AskIs
  <2>2. read.root = Streams!RootOf(read)
    <3>1. read.root = Streams!RootOf(row) /\ read.size = row.size /\ read.leaves = row.leaves
      BY <1>2
    <3>2. QED
      BY <3>1 DEF Streams!RootOf
  <2>3. got = Streams!Value([size |-> read.size, leaves |-> read.leaves])
    BY <1>1, <1>3, <2>1, <2>2, ValueIs, OptionIs DEF Streams!FetchChunkMap
  <2>4. [size |-> read.size, leaves |-> read.leaves] = row
    BY <1>2 DEF AllRows
  <2>5. QED
    BY <1>1, <2>3, <2>4, ValueIs DEF Takes
<1>5. CASE Len(units) # Len(body) + 2
  <2>1. heard.is # "value"
    BY <1>1, <1>3, <1>5, AskIs
  <2>2. got.is # "value"
    BY <1>1, <2>1 DEF Streams!FetchChunkMap
  <2>3. QED
    BY <1>1, <1>5, <2>2 DEF Takes
<1>6. QED
  BY <1>4, <1>5

LEMMA ChunkTaken ==
    ASSUME NEW app, NEW v \in Bytes, Len(v) <= MaxBody, NEW address, address = Streams!HashOf(v),
           NEW units, CutOff(units, Streams!Body(0, v))
    PROVE  Takes(Streams!FetchChunk(app, address, units), units, v, v)
<1>1. PICK got, heard : /\ got = Streams!FetchChunk(app, address, units)
                        /\ heard = Streams!Ask(app, Streams!OpChunk, units)
  OBVIOUS
<1>2. CASE Len(units) = Len(v) + 2
  <2>1. heard = Streams!Value(v)
    BY <1>1, <1>2, AskIs
  <2>2. got = Streams!Value(v)
    BY <1>1, <2>1, ValueIs DEF Streams!FetchChunk
  <2>3. QED
    BY <1>1, <2>2, ValueIs DEF Takes
<1>3. CASE Len(units) # Len(v) + 2
  <2>1. heard.is # "value"
    BY <1>1, <1>3, AskIs
  <2>2. got.is # "value"
    BY <1>1, <2>1 DEF Streams!FetchChunk
  <2>3. QED
    BY <1>1, <1>3, <2>2 DEF Takes
<1>4. QED
  BY <1>2, <1>3

LEMMA HaveTaken ==
    ASSUME NEW chunks \in Nat, NEW held \in SUBSET (0..chunks - 1),
           NEW body, body = Streams!EncodeHave(chunks, held), Len(body) <= MaxBody,
           NEW units, CutOff(units, Streams!Body(0, body))
    PROVE  Takes(Streams!FetchHave(chunks, units), units, body, held)
<1>1. PICK got, heard : /\ got = Streams!FetchHave(chunks, units)
                        /\ heard = Streams!Ask(FALSE, Streams!OpHave, units)
  OBVIOUS
<1>2. PICK read : read = [chunks |-> chunks, bitmap |-> Streams!Bitmap(chunks, held)]
  OBVIOUS
<1>3. body \in Bytes /\ Streams!DecodeHave(body) = <<read>>
  BY <1>2, HaveIs
<1>4. CASE Len(units) = Len(body) + 2
  <2>1. heard = Streams!Value(body)
    BY <1>1, <1>3, <1>4, AskIs
  <2>2. PICK have : have = IF Streams!Ask(FALSE, Streams!OpHave, units).is = "value"
                           THEN Streams!DecodeHave(Streams!Ask(FALSE, Streams!OpHave, units).value) ELSE << >>
    OBVIOUS
  <2>3. have = <<read>> /\ Streams!IsSome(have) /\ Streams!The(have) = read
    BY <1>1, <1>3, <2>1, <2>2, ValueIs, OptionIs
  <2>4. got = Streams!Value(held)
    <3>1. PICK set : set = {k \in 0..chunks - 1 : Streams!Holds(Streams!The(
                              IF Streams!Ask(FALSE, Streams!OpHave, units).is = "value"
                              THEN Streams!DecodeHave(Streams!Ask(FALSE, Streams!OpHave, units).value)
                              ELSE << >>).bitmap, k)}
      OBVIOUS
    <3>2. Streams!FetchHave(chunks, units) =
            IF ~Streams!IsSome(have) THEN Streams!Declined
            ELSE IF Streams!The(have).chunks # chunks THEN Streams!Declined
            ELSE Streams!Value(set)
      BY ONLY <2>2, <3>1 DEF Streams!FetchHave
    <3>3. \A k : k \in set <=> k \in 0..chunks - 1 /\ Streams!Holds(read.bitmap, k)
      BY <2>2, <2>3, <3>1
    <3>4. \A k \in 0..chunks - 1 : Streams!Holds(read.bitmap, k) <=> k \in held
      BY <1>2, BitmapIs
    <3>5. set = held
      BY <3>3, <3>4
    <3>6. QED
      BY <1>1, <1>2, <2>3, <3>2, <3>5
  <2>5. QED
    BY <1>1, <2>4, ValueIs DEF Takes
<1>5. CASE Len(units) # Len(body) + 2
  <2>1. heard.is # "value"
    BY <1>1, <1>3, <1>5, AskIs
  <2>2. got.is # "value"
    BY <1>1, <2>1, NoValueIs DEF Streams!FetchHave, Streams!IsSome
  <2>3. QED
    BY <1>1, <1>5, <2>2 DEF Takes
<1>6. QED
  BY <1>4, <1>5

LEMMA SinceTaken ==
    ASSUME NEW app, NEW v \in AllDifferences, NEW body, body = Streams!EncodeSince(v), Len(body) <= MaxBody,
           NEW units, CutOff(units, Streams!Body(0, body))
    PROVE  Takes(Streams!FetchManifestSince(app, units), units, body, v)
<1>1. PICK got, heard : /\ got = Streams!FetchManifestSince(app, units)
                        /\ heard = Streams!Ask(app, Streams!OpManifestSince, units)
  OBVIOUS
<1>2. body \in Bytes /\ Streams!DecodeSince(body) = <<v>>
  BY SinceBodyIs, SinceReadsBack
<1>3. CASE Len(units) = Len(body) + 2
  <2>1. heard = Streams!Value(body)
    BY <1>1, <1>2, <1>3, AskIs
  <2>2. got = Streams!Value(v)
    BY <1>1, <1>2, <2>1, ValueIs, OptionIs DEF Streams!FetchManifestSince
  <2>3. QED
    BY <1>1, <2>2, ValueIs DEF Takes
<1>4. CASE Len(units) # Len(body) + 2
  <2>1. heard.is # "value"
    BY <1>1, <1>2, <1>4, AskIs
  <2>2. got.is # "value"
    BY <1>1, <2>1 DEF Streams!FetchManifestSince
  <2>3. QED
    BY <1>1, <1>4, <2>2 DEF Takes
<1>5. QED
  BY <1>3, <1>4

LEMMA BodyIs ==
    ASSUME NEW status \in Nat, NEW body \in Bytes
    PROVE  Streams!Body(status, body) \in Bytes
<1>1. PICK head : head = <<status, Len(body)>>
  OBVIOUS
<1>2. head \in Bytes
  BY <1>1, BytesAre DEF Bytes
<1>3. head \o body \in Bytes
  BY <1>2, JoinedAre
<1>4. QED
  BY <1>1, <1>3 DEF Streams!Body

LEMMA WrittenIs ==
    ASSUME NEW op \in Streams!Ops, op # 2, NEW args, ArgsFit(op, args), NEW v \in AnswersTo(op, args)
    PROVE  Written(op, args, v) \in Bytes
<1>1. CASE op = 1 \/ op = 7
  BY <1>1, OpsAre DEF AnswersTo, Written
<1>2. CASE op = 6
  <2>1. v \in AllRows /\ Written(op, args, v) = Streams!EncodeChunkMap(v)
    BY <1>2, OpsAre DEF AnswersTo, Written
  <2>2. QED
    BY <2>1, ChunkMapIs
<1>3. CASE op = 8
  <2>1. PICK chunks : chunks = args[2]
    OBVIOUS
  <2>2. chunks \in Nat
    <3>1. args \in Bytes /\ Len(args) = 2
      BY <1>3, OpsAre DEF ArgsFit
    <3>2. 2 \in 1..Len(args)
      BY <3>1
    <3>3. QED
      BY <2>1, <3>1, <3>2, BytesAre
  <2>3. v \in SUBSET (0..chunks - 1) /\ Written(op, args, v) = Streams!EncodeHave(chunks, v)
    BY <1>3, <2>1, OpsAre DEF AnswersTo, Written
  <2>4. QED
    BY <2>2, <2>3, HaveIs
<1>4. CASE op = 9
  <2>1. v \in AllDifferences /\ Written(op, args, v) = Streams!EncodeSince(v)
    BY <1>4, OpsAre DEF AnswersTo, Written
  <2>2. QED
    BY <2>1, SinceBodyIs
<1>5. QED
  BY <1>1, <1>2, <1>3, <1>4, OpsAre

LEMMA WordsAre ==
    ASSUME NEW op \in Streams!Ops, NEW args, ArgsFit(op, args), NEW sent, sent = Streams!Sent(op, args),
           NEW source, NEW told, Says(op, args, source[op][sent], told)
    PROVE  Streams!Answer(op, sent, source) \in Bytes
<1>1. PICK answer, none : answer = source[op][sent] /\ none = << >>
  OBVIOUS
<1>2. none \in Bytes /\ <<1>> \in Bytes
  BY <1>1, EmptyIn DEF Bytes
<1>3. CASE op = 2
  <2>1. answer.status \in Nat /\ answer.data \in Bytes
    BY <1>1, <1>3, OpsAre DEF Says
  <2>2. Streams!Body(3, none) \in Bytes /\ Streams!Body(answer.status, answer.data) \in Bytes
    <3>1. 3 \in Nat
      OBVIOUS
    <3>2. QED
      BY <1>2, <2>1, <3>1, BodyIs
  <2>3. QED
    BY <1>1, <1>3, <2>2, OpsAre DEF Streams!Answer, Streams!LenOverCap
<1>4. CASE op # 2
  <2>1. answer = << >> \/ \E v \in AnswersTo(op, args) : answer = <<Written(op, args, v)>>
    BY <1>1, <1>4, OpsAre DEF Says
  <2>2. Streams!IsSome(answer) => Streams!The(answer) \in Bytes
    BY <1>4, <2>1, WrittenIs DEF Streams!IsSome, Streams!The
  <2>3. Streams!IsSome(answer) => Streams!Body(0, Streams!The(answer)) \in Bytes
    <3>1. 0 \in Nat
      OBVIOUS
    <3>2. QED
      BY <2>2, <3>1, BodyIs
  <2>4. QED
    BY <1>1, <1>2, <1>4, <2>3, OpsAre DEF Streams!Answer, Streams!Ok, Streams!Refuse, Streams!BadIndex
<1>5. QED
  BY <1>3, <1>4

\* What of an answer is heard tells what was said, or nothing; all of it tells it.
LEMMA AnswerTaken ==
    ASSUME NEW app, NEW op \in Streams!Ops, NEW args, ArgsFit(op, args), NEW source, NEW told,
           Says(op, args, source[op][Streams!Sent(op, args)], told)
    PROVE  \A units : CutOff(units, Streams!Answer(op, Streams!Sent(op, args), source)) =>
             /\ Streams!Receive(app, op, args, << >>, 0, units).is = "value" =>
                  told # << >> /\ Streams!Receive(app, op, args, << >>, 0, units).value = told[1]
             /\ told # << >> /\ Len(units) = Len(Streams!Answer(op, Streams!Sent(op, args), source)) =>
                  Streams!Receive(app, op, args, << >>, 0, units).is = "value"
<1> SUFFICES ASSUME NEW sent, sent = Streams!Sent(op, args), Says(op, args, source[op][sent], told),
                    NEW words, words = Streams!Answer(op, sent, source), NEW units, CutOff(units, words),
                    NEW got, got = Streams!Receive(app, op, args, << >>, 0, units)
             PROVE  /\ got.is = "value" => told # << >> /\ got.value = told[1]
                    /\ told # << >> /\ Len(units) = Len(words) => got.is = "value"
  BY Zenon
<1>1. PICK answer : answer = source[op][sent]
  OBVIOUS
<1>2. CASE op = 2
  <2>1. sent = args
    BY <1>2, OpsAre DEF Streams!Sent
  <2>2. args[3] \in Nat
    <3>1. args \in Bytes /\ Len(args) = 3
      BY <1>2, OpsAre DEF ArgsFit
    <3>2. 3 \in 1..Len(args)
      BY <3>1
    <3>3. QED
      BY <3>1, <3>2, BytesAre
  <2>3. /\ answer.status \in Nat /\ answer.data \in Bytes
        /\ answer.status = 0 /\ args[3] <= MaxReadLen => Len(answer.data) <= args[3]
        /\ told = IF answer.status = 0 /\ args[3] <= MaxReadLen THEN <<answer.data>> ELSE << >>
    BY <1>1, <1>2, OpsAre DEF Says
  <2>4. words = IF args[3] > MaxReadLen THEN Streams!Body(3, << >>) ELSE Streams!Body(answer.status, answer.data)
    BY <1>1, <1>2, <2>1, OpsAre DEF Streams!Answer, Streams!LenOverCap
  <2>5. got = Streams!ReadRange(args[3], units)
    BY <1>2, OpsAre DEF Streams!Receive
  <2>6. CASE args[3] <= MaxReadLen /\ answer.status = 0
    <3>1. PICK v, cap : v = answer.data /\ cap = args[3]
      OBVIOUS
    <3>2. v \in Bytes /\ cap \in Nat /\ Len(v) <= cap /\ told = <<v>> /\ words = Streams!Body(0, v)
      <4>1. ~(args[3] > MaxReadLen)
        BY <2>2, <2>6, SamplesFit
      <4>2. QED
        BY <2>2, <2>3, <2>4, <2>6, <3>1, <4>1
    <3>3. CutOff(units, Streams!Body(0, v))
      BY <3>2
    <3>4. Takes(Streams!ReadRange(cap, units), units, v, v)
      BY ONLY <3>2, <3>3, RangeTaken
    <3>5. words \in Bytes /\ Len(words) = Len(v) + 2
      <4>1. Streams!Body(0, v) \in Bytes /\ Len(Streams!Body(0, v)) = Len(v) + 2
        BY ONLY <3>2, <3>3, FramedIs
      <4>2. QED
        BY <3>2, <4>1
    <3>6. told # << >> /\ told[1] = v
      BY <3>2
    <3>7. QED
      BY <2>5, <3>1, <3>4, <3>5, <3>6 DEF Takes
  <2>7. CASE ~(args[3] <= MaxReadLen /\ answer.status = 0)
    <3>1. PICK status, v : /\ status \in Nat /\ v \in Bytes /\ status # 0
                           /\ words = Streams!Body(status, v)
      <4>1. CASE args[3] > MaxReadLen
        <5>1. 3 \in Nat /\ 3 # 0 /\ << >> \in Bytes /\ words = Streams!Body(3, << >>)
          BY <2>4, <4>1, EmptyIn DEF Bytes
        <5>2. QED
          BY <5>1
      <4>2. CASE ~(args[3] > MaxReadLen)
        <5>1. answer.status # 0
          BY <2>2, <2>7, <4>2, SamplesFit
        <5>2. QED
          BY <2>3, <2>4, <4>2, <5>1
      <4>3. QED
        BY <4>1, <4>2
    <3>2. told = << >>
      BY <2>3, <2>7
    <3>3. CutOff(units, Streams!Body(status, v)) /\ 0 \in Nat
      BY <3>1
    <3>4. Streams!Body(status, v) \in Bytes /\ (units # << >> => units[1] = status)
      BY ONLY <3>1, <3>3, FramedIs
    <3>5. got.is # "value"
      <4>1. units = << >> \/ units[1] # 0
        BY <3>1, <3>4
      <4>2. QED
        BY <4>1, SilenceIs, RefusalIs
    <3>6. QED
      BY <3>1, <3>2, <3>4, <3>5
  <2>8. QED
    BY <2>6, <2>7
<1>3. CASE op # 2
  <2>1. \/ told = << >> /\ answer = << >>
        \/ \E v \in AnswersTo(op, args) :
              /\ told = <<v>> /\ answer = <<Written(op, args, v)>>
              /\ Len(Written(op, args, v)) <= MaxBody
    BY <1>1, <1>3, OpsAre DEF Says
  <2>2. words = IF Streams!IsSome(answer) THEN Streams!Body(0, Streams!The(answer))
                ELSE IF op = 1 THEN << >> ELSE <<1>>
    BY <1>1, <1>3, OpsAre DEF Streams!Answer, Streams!Ok, Streams!Refuse, Streams!BadIndex
  <2>3. CASE told = << >> /\ answer = << >>
    <3>1. words = << >> \/ words = <<1>>
      BY <2>2, <2>3 DEF Streams!IsSome
    <3>2. words \in Bytes
      BY WordsAre
    <3>3. units = << >> \/ units[1] # 0
      <4>1. units # << >> => Len(units) >= 1 /\ Len(words) >= 1
        BY <3>2, CutIs
      <4>2. units # << >> => words = <<1>> /\ 1 \in 1..Len(units)
        BY <3>1, <3>2, <4>1, CutIs
      <4>3. <<1>>[1] # 0
        OBVIOUS
      <4>4. units # << >> => units[1] = words[1]
        BY <4>2 DEF CutOff
      <4>5. QED
        BY <4>2, <4>3, <4>4
    <3>4. got.is # "value"
      BY <3>3, SilenceIs, RefusalIs
    <3>5. QED
      BY <2>3, <3>2, <3>4
  <2>4. CASE ~(told = << >> /\ answer = << >>)
    <3>1. PICK v \in AnswersTo(op, args) :
              /\ told = <<v>> /\ answer = <<Written(op, args, v)>>
              /\ Len(Written(op, args, v)) <= MaxBody
      BY <2>1, <2>4
    <3>2. PICK body : body = Written(op, args, v)
      OBVIOUS
    <3>3. words = Streams!Body(0, body) /\ Len(body) <= MaxBody /\ told # << >> /\ told[1] = v
      BY <2>2, <3>1, <3>2, OptionIs
    <3>4. CutOff(units, Streams!Body(0, body))
      BY <3>3
    <3>5. body \in Bytes /\ Takes(got, units, body, v)
      <4>1. CASE op = 1
        <5>1. v \in Bytes /\ Len(v) >= 2 /\ body = v
          BY <3>2, <4>1, OpsAre DEF AnswersTo, Written
        <5>2. got = Streams!FetchManifest(<< >>, 0, units)
          BY <4>1, OpsAre DEF Streams!Receive
        <5>3. QED
          BY <3>3, <3>4, <5>1, <5>2, ManifestTaken
      <4>2. CASE op = 6
        <5>1. v \in AllRows /\ body = Streams!EncodeChunkMap(v)
          BY <3>2, <4>2, OpsAre DEF AnswersTo, Written
        <5>2. got = Streams!FetchChunkMap(app, units)
          BY <4>2, OpsAre DEF Streams!Receive
        <5>3. Takes(Streams!FetchChunkMap(app, units), units, body, v)
          BY <3>3, <3>4, <5>1, RowTaken
        <5>4. body \in Bytes
          BY <5>1, ChunkMapIs
        <5>5. QED
          BY <5>2, <5>3, <5>4
      <4>3. CASE op = 7
        <5>1. v \in Bytes /\ Streams!HashOf(v) = args[1] /\ body = v
          BY <3>2, <4>3, OpsAre DEF AnswersTo, Written
        <5>2. got = Streams!FetchChunk(app, args[1], units)
          BY <4>3, OpsAre DEF Streams!Receive
        <5>3. QED
          BY <3>3, <3>4, <5>1, <5>2, ChunkTaken
      <4>4. CASE op = 8
        <5>1. PICK chunks : chunks = args[2]
          OBVIOUS
        <5>2. chunks \in Nat
          <6>1. args \in Bytes /\ Len(args) = 2
            BY <4>4, OpsAre DEF ArgsFit
          <6>2. 2 \in 1..Len(args)
            BY <6>1
          <6>3. QED
            BY <5>1, <6>1, <6>2, BytesAre
        <5>3. v \in SUBSET (0..chunks - 1) /\ body = Streams!EncodeHave(chunks, v)
          BY <3>2, <4>4, <5>1, OpsAre DEF AnswersTo, Written
        <5>4. got = Streams!FetchHave(chunks, units)
          BY <4>4, <5>1, OpsAre DEF Streams!Receive
        <5>5. Takes(Streams!FetchHave(chunks, units), units, body, v)
          BY <3>3, <3>4, <5>2, <5>3, HaveTaken
        <5>6. body \in Bytes
          BY <5>2, <5>3, HaveIs
        <5>7. QED
          BY <5>4, <5>5, <5>6
      <4>5. CASE op = 9
        <5>1. v \in AllDifferences /\ body = Streams!EncodeSince(v)
          BY <3>2, <4>5, OpsAre DEF AnswersTo, Written
        <5>2. got = Streams!FetchManifestSince(app, units)
          BY <4>5, OpsAre DEF Streams!Receive
        <5>3. Takes(Streams!FetchManifestSince(app, units), units, body, v)
          BY <3>3, <3>4, <5>1, SinceTaken
        <5>4. body \in Bytes
          BY <5>1, SinceBodyIs
        <5>5. QED
          BY <5>2, <5>3, <5>4
      <4>6. QED
        BY <1>3, <4>1, <4>2, <4>3, <4>4, <4>5, OpsAre
    <3>6. words \in Bytes /\ Len(words) = Len(body) + 2
      <4>1. Streams!Body(0, body) \in Bytes /\ Len(Streams!Body(0, body)) = Len(body) + 2
        <5>1. 0 \in Nat
          OBVIOUS
        <5>2. QED
          BY ONLY <3>4, <3>5, <5>1, FramedIs
      <4>2. QED
        BY <3>3, <4>1
    <3>7. QED
      BY <3>3, <3>5, <3>6 DEF Takes
  <2>5. QED
    BY <2>3, <2>4
<1>4. QED
  BY <1>2, <1>3

\* What is served of a request, wherever it broke off.
LEMMA ServeIs ==
    ASSUME NEW token \in Nat, NEW op \in Streams!Ops, NEW sent \in Bytes, Len(sent) = Streams!BodyLen(op),
           NEW request, request = Streams!Request(token, op, sent), NEW upTo \in Nat,
           NEW auth, NEW ops, NEW source,
           NEW served, served = Streams!Serve(auth, ops, source, Streams!First(request, upTo)),
           NEW right, right = (token = auth.token)
    PROVE  /\ Len(request) = 2 + Streams!BodyLen(op)
           /\ right /\ op \in ops /\ upTo >= Len(request) =>
                served.sent = Streams!Answer(op, sent, source) /\ served.closed = 0
           /\ ~(right /\ op \in ops /\ upTo >= Len(request)) => served.sent = << >>
           /\ served.closed = IF ~right /\ upTo >= 2 THEN Streams!RefusalCode(auth) ELSE 0
<1>1. PICK units, n, head : /\ units = Streams!First(request, upTo) /\ n = Streams!BodyLen(op)
                            /\ head = <<token, op>>
  OBVIOUS
<1>2. n \in Nat /\ op \in Nat
  BY <1>1, OpsAre
<1>3. head \in Bytes /\ Len(head) = 2 /\ head[1] = token /\ head[2] = op
  BY <1>1, <1>2 DEF Bytes
<1>4. request = head \o sent
  BY <1>1 DEF Streams!Request
<1>5. /\ request \in Bytes /\ Len(request) = 2 + n /\ request[1] = token /\ request[2] = op
      /\ SubSeq(request, 3, 2 + n) = sent
  <2>1. /\ head \o sent \in Bytes /\ Len(head \o sent) = Len(head) + Len(sent)
        /\ \A i \in 1..Len(head) : (head \o sent)[i] = head[i]
    BY ONLY <1>3, JoinedAre
  <2>2. request \in Bytes /\ Len(request) = 2 + n
    BY <1>1, <1>3, <1>4, <2>1
  <2>3. 1 \in 1..Len(head) /\ 2 \in 1..Len(head)
    BY <1>3
  <2>4. request[1] = token /\ request[2] = op
    BY <1>3, <1>4, <2>1, <2>3
  <2>5. PICK hi : hi = 2 + n
    OBVIOUS
  <2>6. /\ 3 \in Nat /\ hi \in Nat /\ 3 <= Len(head) + 1 /\ 3 > Len(head)
        /\ hi <= Len(head) + Len(sent) /\ hi >= Len(head) + Len(sent)
    BY <1>1, <1>2, <1>3, <2>5
  <2>7. SubSeq(head \o sent, 3, hi) = sent
    BY ONLY <1>3, <2>6, BehindHead
  <2>8. QED
    BY <1>4, <2>2, <2>4, <2>5, <2>7
<1>6. PICK length : length = Len(units)
  OBVIOUS
<1>7. /\ units \in Bytes /\ length = (IF upTo <= 2 + n THEN upTo ELSE 2 + n)
      /\ \A i \in 1..length : units[i] = request[i]
      /\ length = 2 + n => units = request
  <2>1. CutOff(units, request) /\ Len(units) = IF upTo <= Len(request) THEN upTo ELSE Len(request)
    BY <1>1, <1>5, FirstIs
  <2>2. length = 2 + n => units = request
    BY <1>5, <1>6, <2>1, CutIs
  <2>3. QED
    BY <1>5, <1>6, <2>1, <2>2 DEF CutOff
<1>8. served = Streams!Serve(auth, ops, source, units)
  BY <1>1
<1>9. /\ Streams!Nothing.sent = << >> /\ Streams!Nothing.closed = 0
      /\ \A c : [Streams!Nothing EXCEPT !.closed = c].sent = << >> /\ [Streams!Nothing EXCEPT !.closed = c].closed = c
      /\ \A s : [Streams!Nothing EXCEPT !.sent = s].sent = s /\ [Streams!Nothing EXCEPT !.sent = s].closed = 0
  BY DEF Streams!Nothing
<1>10. CASE upTo < 2
  <2>1. length < 2 /\ ~(upTo >= 2) /\ ~(upTo >= 2 + n)
    BY <1>2, <1>7, <1>10
  <2>2. served = Streams!Nothing
    BY <1>6, <1>8, <2>1 DEF Streams!Serve
  <2>3. QED
    BY <1>1, <1>5, <1>9, <2>1, <2>2
<1>11. CASE upTo >= 2
  <2>1. ~(length < 2) /\ 1 \in 1..length /\ 2 \in 1..length
    BY <1>2, <1>7, <1>11
  <2>2. units[1] = token /\ units[2] = op
    BY <1>5, <1>7, <2>1
  <2>3. CASE ~right
    <3>1. served = [Streams!Nothing EXCEPT !.closed = Streams!RefusalCode(auth)]
      BY <1>6, <1>8, <2>1, <2>2, <2>3 DEF Streams!Serve
    <3>2. QED
      BY <1>1, <1>5, <1>9, <1>11, <2>3, <3>1
  <2>4. CASE right /\ (op \notin ops \/ ~(upTo >= 2 + n))
    <3>1. op \notin ops \/ length < 2 + n
      BY <1>2, <1>7, <2>4
    <3>2. served = Streams!Nothing
      BY <1>1, <1>6, <1>8, <2>1, <2>2, <2>4, <3>1 DEF Streams!Serve
    <3>3. QED
      BY <1>1, <1>5, <1>9, <2>4, <3>2
  <2>5. CASE right /\ op \in ops /\ upTo >= 2 + n
    <3>1. length = 2 + n
      BY <1>2, <1>7, <2>5
    <3>2. ~(length < 2 + n) /\ units = request
      BY <1>2, <1>7, <3>1
    <3>3. SubSeq(units, 3, 2 + Streams!BodyLen(units[2])) = sent
      BY <1>1, <1>5, <2>2, <3>2
    <3>4. served = [Streams!Nothing EXCEPT !.sent = Streams!Answer(op, sent, source)]
      BY <1>1, <1>6, <1>8, <2>1, <2>2, <2>5, <3>2, <3>3 DEF Streams!Serve
    <3>5. QED
      BY <1>1, <1>5, <1>9, <2>5, <3>4
  <2>6. QED
    BY <2>3, <2>4, <2>5
<1>12. QED
  BY <1>10, <1>11

\* Whatever a client asks of a peer with whatever token, and wherever the request
\* or the answer breaks off, it takes for an answer what the peer's source said to
\* just that request, or nothing.
THEOREM ExchangesReadTrue ==
    \A app \in BOOLEAN, op \in Streams!Ops, token \in Nat, auth \in [token : Nat, protected : BOOLEAN],
       upTo \in Nat, heard \in Nat : \A args, ops, source, told :
        ArgsFit(op, args) /\ Says(op, args, source[op][Streams!Sent(op, args)], told) =>
            Streams!ExchangeIsTrue(app, op, args, token, auth, ops, source, told, upTo, heard)
<1> TAKE app \in BOOLEAN, op \in Streams!Ops, token \in Nat, auth \in [token : Nat, protected : BOOLEAN],
         upTo \in Nat, heard \in Nat
<1> TAKE args, ops, source, told
<1> SUFFICES ASSUME ArgsFit(op, args), Says(op, args, source[op][Streams!Sent(op, args)], told)
             PROVE  Streams!ExchangeIsTrue(app, op, args, token, auth, ops, source, told, upTo, heard)
  OBVIOUS
<1>1. PICK sent, request, served, words, right :
        /\ sent = Streams!Sent(op, args) /\ request = Streams!Request(token, op, sent)
        /\ served = Streams!Serve(auth, ops, source, Streams!First(request, upTo))
        /\ words = Streams!Answer(op, sent, source) /\ right = (token = auth.token)
  OBVIOUS
<1>2. PICK units, got : /\ units = Streams!First(served.sent, heard)
                        /\ got = Streams!Receive(app, op, args, << >>, 0, units)
  OBVIOUS
<1>3. sent \in Bytes /\ Len(sent) = Streams!BodyLen(op)
  <2>1. args \in Bytes
    BY DEF ArgsFit
  <2>2. CASE op = 8
    <3>1. Len(args) = 2
      BY <2>2, OpsAre DEF ArgsFit
    <3>2. 1 \in 1..Len(args)
      BY <3>1
    <3>3. args[1] \in Nat
      BY <2>1, <3>2, BytesAre
    <3>4. sent = <<args[1]>>
      BY <1>1, <2>2, OpsAre DEF Streams!Sent
    <3>5. QED
      BY <2>2, <3>3, <3>4, OpsAre DEF Bytes
  <2>3. CASE op # 8
    BY <1>1, <2>1, <2>3, OpsAre DEF Streams!Sent, ArgsFit
  <2>4. QED
    BY <2>2, <2>3
<1>4. /\ right /\ op \in ops /\ upTo >= Len(request) => served.sent = words /\ served.closed = 0
      /\ ~(right /\ op \in ops /\ upTo >= Len(request)) => served.sent = << >>
      /\ served.closed = IF ~right /\ upTo >= 2 THEN Streams!RefusalCode(auth) ELSE 0
  BY <1>1, <1>3, ServeIs
<1>5. Streams!RefusalCode(auth) = IF auth.protected THEN 2 ELSE 1
  BY DEF Streams!RefusalCode, Streams!Unauthorized, Streams!BadSecret
<1>6. /\ served.closed # 0 <=> ~right /\ upTo >= 2
      /\ served.closed # 0 => (Streams!AsksAgain(auth.protected, served.closed) <=> auth.protected)
  <2>1. auth.protected \in BOOLEAN
    OBVIOUS
  <2>2. QED
    BY <1>4, <1>5, <2>1 DEF Streams!AsksAgain, Streams!Unauthorized
<1>7. /\ got.is = "value" => right /\ op \in ops /\ Streams!IsSome(told) /\ got.value = Streams!The(told)
      /\ (right /\ op \in ops /\ upTo >= Len(request) /\ heard >= Len(served.sent) /\ Streams!IsSome(told))
            => got.is = "value"
  <2>1. CASE right /\ op \in ops /\ upTo >= Len(request)
    <3>1. served.sent = words
      BY <1>4, <2>1
    <3>2. words \in Bytes
      BY <1>1, WordsAre
    <3>3. CutOff(units, words) /\ Len(units) = IF heard <= Len(words) THEN heard ELSE Len(words)
      BY <1>2, <3>1, <3>2, FirstIs
    <3>4. /\ got.is = "value" => told # << >> /\ got.value = told[1]
          /\ told # << >> /\ Len(units) = Len(words) => got.is = "value"
      <4>1. \A u : CutOff(u, Streams!Answer(op, Streams!Sent(op, args), source)) =>
             /\ Streams!Receive(app, op, args, << >>, 0, u).is = "value" =>
                  told # << >> /\ Streams!Receive(app, op, args, << >>, 0, u).value = told[1]
             /\ told # << >> /\ Len(u) = Len(Streams!Answer(op, Streams!Sent(op, args), source)) =>
                  Streams!Receive(app, op, args, << >>, 0, u).is = "value"
        BY AnswerTaken
      <4>2. QED
        BY <1>1, <1>2, <3>3, <4>1, Zenon
    <3>5. heard >= Len(words) => Len(units) = Len(words)
      BY <3>2, <3>3, BytesAre
    <3>6. QED
      BY <2>1, <3>1, <3>4, <3>5 DEF Streams!IsSome, Streams!The
  <2>2. CASE ~(right /\ op \in ops /\ upTo >= Len(request))
    <3>1. PICK none : none = << >>
      OBVIOUS
    <3>2. none \in Bytes /\ Len(none) = 0 /\ served.sent = none
      BY <1>4, <2>2, <3>1, EmptyIn, EmptyIs DEF Bytes
    <3>3. CutOff(units, none)
      BY <1>2, <3>2, FirstIs
    <3>4. units = << >>
      <4>1. Len(units) <= 0 /\ Len(units) \in Nat
        BY <3>2, <3>3, CutIs
      <4>2. Len(units) = 0
        BY <4>1
      <4>3. QED
        BY <3>2, <3>3, <4>2, CutIs
    <3>5. got.is # "value"
      BY <1>2, <3>4, SilenceIs
    <3>6. QED
      BY <2>2, <3>5
  <2>3. QED
    BY <2>1, <2>2
<1>8. QED
  BY <1>1, <1>2, <1>6, <1>7 DEF Streams!ExchangeIsTrue

\* Whatever body a peer makes up, a client takes of it only what is sound.
THEOREM MadeUpBodiesAreRefused ==
    \A app \in BOOLEAN, author \in Nat, seen \in Nat, body \in Bytes : Streams!TakesOnlyTheSound(app, author, seen, body)
<1> TAKE app \in BOOLEAN, author \in Nat, seen \in Nat, body \in Bytes
<1>1. PICK units : units = Streams!Body(0, body)
  OBVIOUS
<1>2. CutOff(units, Streams!Body(0, body)) /\ Len(units) = Len(body) + 2
  <2>1. units \in Bytes
    <3>1. 0 \in Nat
      OBVIOUS
    <3>2. QED
      BY <1>1, <3>1, BodyIs
  <2>2. CutOff(units, units)
    BY <2>1, BytesAre DEF CutOff
  <2>3. QED
    <3>1. 0 \in Nat /\ CutOff(units, Streams!Body(0, body))
      BY <1>1, <2>2
    <3>2. Len(Streams!Body(0, body)) = Len(body) + 2
      BY ONLY <3>1, FramedIs
    <3>3. QED
      BY <1>1, <3>1, <3>2
<1>3. \A n, op : \/ Streams!Ask(n, op, units) = Streams!Value(body)
                 \/ Streams!Ask(n, op, units).is # "value"
  BY <1>2, AskIs
<1>4. PICK row : row = Streams!FetchChunkMap(app, units)
  OBVIOUS
<1>5. row.is = "value" => body[1] = Streams!RootOf(row.value) /\ Len(row.value.leaves) = body[3]
  <2>1. HAVE row.is = "value"
  <2>2. Streams!Ask(app, Streams!OpChunkMap, units) = Streams!Value(body)
    BY <1>3, <1>4, <2>1 DEF Streams!FetchChunkMap
  <2>3. PICK read : read = Streams!DecodeChunkMap(body)
    OBVIOUS
  <2>4. row = IF ~Streams!IsSome(read) THEN Streams!Failed
              ELSE IF Streams!RootOf(Streams!The(read)) # Streams!The(read).root THEN Streams!Failed
              ELSE Streams!Value([size |-> Streams!The(read).size, leaves |-> Streams!The(read).leaves])
    BY <1>4, <2>2, <2>3, ValueIs DEF Streams!FetchChunkMap
  <2>5. PICK n, part, r : /\ n = body[3] /\ part = SubSeq(body, 4, 3 + body[3])
                          /\ r = [root |-> body[1], size |-> body[2], leaves |-> part]
    OBVIOUS
  <2>6. /\ read = <<r>> /\ Len(body) >= 3 /\ Len(body) >= 3 + n
    <3>1. read # << >>
      BY <2>1, <2>4, NoValueIs DEF Streams!IsSome
    <3>2. read = IF Len(body) < 3 \/ Len(body) < 3 + n THEN << >> ELSE <<r>>
      BY <2>3, <2>5 DEF Streams!DecodeChunkMap, Streams!Some
    <3>3. ~(Len(body) < 3) /\ ~(Len(body) < 3 + n) /\ read = <<r>>
      BY <3>1, <3>2
    <3>4. Len(body) \in Nat /\ 3 \in 1..Len(body)
      BY <3>3, BytesAre
    <3>5. n \in Nat
      BY <2>5, <3>4, BytesAre
    <3>6. QED
      BY <3>3, <3>4, <3>5
  <2>7. n \in Nat /\ Len(part) = n
    <3>1. 3 \in 1..Len(body)
      BY <2>6, BytesAre
    <3>2. n \in Nat
      BY <2>5, <3>1, BytesAre
    <3>3. PICK hi : hi = 3 + n
      OBVIOUS
    <3>4. /\ 4 \in Nat /\ hi \in Nat /\ 4 >= 1 /\ hi + 1 >= 4 /\ hi <= Len(body) /\ hi - 4 + 1 = n
      BY <2>6, <3>2, <3>3, BytesAre
    <3>5. Len(SubSeq(body, 4, hi)) = hi - 4 + 1
      BY ONLY <3>4, StretchIs, body \in Bytes
    <3>6. QED
      BY <2>5, <3>2, <3>3, <3>4, <3>5
  <2>8. /\ Streams!IsSome(read) /\ Streams!The(read) = r
        /\ r.root = body[1] /\ r.size = body[2] /\ r.leaves = part
    BY <2>5, <2>6, OptionIs
  <2>9. Streams!RootOf(r) = r.root /\ row = Streams!Value([size |-> r.size, leaves |-> r.leaves])
    BY <2>1, <2>4, <2>8, NoValueIs
  <2>10. PICK v : v = [size |-> r.size, leaves |-> r.leaves]
    OBVIOUS
  <2>11. Streams!RootOf(v) = Streams!RootOf(r)
    BY <2>10 DEF Streams!RootOf
  <2>12. row.value = v /\ v.leaves = part
    BY <2>8, <2>9, <2>10, ValueIs
  <2>13. QED
    BY <2>5, <2>7, <2>8, <2>9, <2>11, <2>12
<1>6. PICK diff : diff = Streams!FetchManifestSince(app, units)
  OBVIOUS
<1>7. diff.is = "value" => Streams!EncodeSince(diff.value) = body
  <2>1. HAVE diff.is = "value"
  <2>2. Streams!Ask(app, Streams!OpManifestSince, units) = Streams!Value(body)
    BY <1>3, <1>6, <2>1 DEF Streams!FetchManifestSince
  <2>3. PICK answer : answer = Streams!DecodeSince(body)
    OBVIOUS
  <2>4. diff = IF Streams!IsSome(answer) THEN Streams!Value(Streams!The(answer)) ELSE Streams!Failed
    BY <1>6, <2>2, <2>3, ValueIs DEF Streams!FetchManifestSince
  <2>5. answer # << >> /\ diff = Streams!Value(Streams!The(answer))
    BY <2>1, <2>4, NoValueIs DEF Streams!IsSome
  <2>6. answer = << >> \/ \E v : answer = <<v>>
    <3>1. CASE Len(body) < 3
      BY <2>3, <3>1 DEF Streams!DecodeSince
    <3>2. CASE Len(body) >= 3
      <4>1. PICK n : n = body[3]
        OBVIOUS
      <4>2. \E g : Streams!DecodeSince(body) =
                  IF g[n] # << >> /\ g[n][1].at = Len(body) + 1
                  THEN <<[target |-> body[1], signature |-> body[2], deltas |-> g[n][1].deltas]>> ELSE << >>
        BY <3>2, <4>1, DecodeSinceIs
      <4>3. QED
        BY <2>3, <4>2
    <3>3. QED
      BY <3>1, <3>2, BytesAre
  <2>7. PICK v : answer = <<v>>
    BY <2>5, <2>6
  <2>8. Streams!EncodeSince(v) = body
    BY <2>3, <2>7, SinceIsWhole
  <2>9. QED
    BY <2>5, <2>7, <2>8, ValueIs, OptionIs
<1>8. PICK have : have = Streams!FetchHave(2, units)
  OBVIOUS
<1>9. have.is = "value" => have.value \subseteq 0..1
  <2>1. PICK set : set = {k \in 0..2 - 1 : Streams!Holds(Streams!The(
                            IF Streams!Ask(FALSE, Streams!OpHave, units).is = "value"
                            THEN Streams!DecodeHave(Streams!Ask(FALSE, Streams!OpHave, units).value)
                            ELSE << >>).bitmap, k)}
    OBVIOUS
  <2>2. have = Streams!Declined \/ have = Streams!Value(set)
    BY ONLY <1>8, <2>1 DEF Streams!FetchHave
  <2>3. set \subseteq 0..1
    <3>1. \A k \in set : k \in 0..2 - 1
      BY <2>1, Zenon
    <3>2. \A k \in 0..2 - 1 : k \in 0..1
      OBVIOUS
    <3>3. QED
      BY <3>1, <3>2
  <2>4. QED
    BY <2>2, <2>3, NoValueIs, ValueIs
<1>10. PICK envelope : envelope = Streams!FetchManifest(Streams!Some(author), seen, units)
  OBVIOUS
<1>11. envelope.is = "value" =>
          /\ body[1] >= seen
          /\ body[2] = Streams!Signature(author, body[1], SubSeq(body, 3, Len(body)))
  <2>1. HAVE envelope.is = "value"
  <2>2. PICK heard : heard = IF units = << >> \/ units[1] # Streams!Ok THEN << >> ELSE Streams!Framed(units, MaxBody)
    OBVIOUS
  <2>3. envelope = IF ~Streams!IsSome(heard) THEN Streams!Failed
                   ELSE IF Streams!Accepted(<<author>>, seen, Streams!The(heard))
                   THEN Streams!Value(Streams!The(heard)) ELSE Streams!Failed
    BY <1>10, <2>2, OptionIs DEF Streams!FetchManifest
  <2>4. heard # << >> /\ Streams!Accepted(<<author>>, seen, Streams!The(heard))
    BY <2>1, <2>3, NoValueIs DEF Streams!IsSome
  <2>5. heard = << >> \/ heard = <<body>>
    <3>1. 0 \in Nat /\ MaxBody \in Nat
      BY SamplesFit
    <3>2. Streams!Framed(units, MaxBody) \in {<<body>>, << >>}
      BY <1>2, <3>1, FramedIs
    <3>3. QED
      BY <2>2, <3>2
  <2>6. Streams!Accepted(<<author>>, seen, body)
    BY <2>4, <2>5, OptionIs
  <2>7. QED
    BY <2>6, OptionIs DEF Streams!Accepted
<1>12. QED
  BY <1>1, <1>4, <1>5, <1>6, <1>7, <1>8, <1>9, <1>10, <1>11 DEF Streams!TakesOnlyTheSound, Streams!Ok

\* The samples the model checker tries are among the above.
LEMMA SampleHashes ==
    /\ \A v \in Nat : <<v>> \in Bytes /\ Len(<<v>>) = 1 /\ <<v>>[1] = v /\ Streams!HashOf(<<v>>) \in Nat
    /\ \A v, w \in Nat : <<v, w>> \in Bytes /\ Streams!HashOf(<<v, w>>) \in Nat
<1>1. ASSUME NEW v \in Nat
      PROVE  <<v>> \in Bytes /\ Len(<<v>>) = 1 /\ <<v>>[1] = v /\ Streams!HashOf(<<v>>) \in Nat
  <2>1. <<v>> \in Bytes
    BY DEF Bytes
  <2>2. QED
    BY <2>1, HashIs
<1>2. ASSUME NEW v \in Nat, NEW w \in Nat
      PROVE  <<v, w>> \in Bytes /\ Streams!HashOf(<<v, w>>) \in Nat
  <2>1. <<v, w>> \in Bytes
    BY DEF Bytes
  <2>2. QED
    BY <2>1, HashIs
<1>3. QED
  BY <1>1, <1>2

LEMMA SampleAuth ==
    ASSUME NEW given \in {<< >>, << 3 >>, << 5 >>}
    PROVE  /\ Streams!share_token(7, given) \in Nat
           /\ Streams!ShareAuth(7, given) \in [token : Nat, protected : BOOLEAN]
<1>1. Streams!share_token(7, given) \in Nat
  <2>1. Streams!HashOf(<<7, 3>>) \in Nat /\ Streams!HashOf(<<7, 5>>) \in Nat
    BY SampleHashes
  <2>2. CASE given = << >>
    BY <2>2 DEF Streams!share_token, Streams!IsSome
  <2>3. CASE given = <<3>>
    BY <2>1, <2>3 DEF Streams!share_token, Streams!The
  <2>4. CASE given = <<5>>
    BY <2>1, <2>4 DEF Streams!share_token, Streams!The
  <2>5. QED
    BY <2>2, <2>3, <2>4
<1>2. Streams!IsSome(given) \in BOOLEAN
  BY DEF Streams!IsSome
<1>3. QED
  BY <1>1, <1>2 DEF Streams!ShareAuth

LEMMA SampleRow ==
    /\ Streams!Row \in AllRows /\ Streams!Row.leaves[2] = Streams!HashOf(<<6>>)
    /\ Len(Streams!EncodeChunkMap(Streams!Row)) = 5
    /\ Streams!RootOf(Streams!Row) \in Nat
    /\ \A a \in Streams!ToSet(Streams!Row.leaves) : a \in Nat
<1>1. PICK one, two : one = Streams!HashOf(<<4, 5>>) /\ two = Streams!HashOf(<<6>>)
  OBVIOUS
<1>2. one \in Nat /\ two \in Nat
  BY <1>1, SampleHashes
<1>3. PICK row, leaves : row = Streams!Row /\ leaves = <<one, two>>
  OBVIOUS
<1>4. leaves \in Bytes /\ Len(leaves) = 2 /\ DOMAIN leaves = 1..2 /\ leaves[1] = one /\ leaves[2] = two
  BY <1>2, <1>3 DEF Bytes
<1>5. row = [size |-> 3, leaves |-> leaves]
  BY <1>1, <1>3 DEF Streams!Row
<1>6. row \in AllRows /\ row.leaves = leaves /\ row.size = 3
  BY <1>4, <1>5 DEF AllRows
<1>7. Streams!RootOf(row) \in Nat
  <2>1. <<3>> \in Bytes
    BY SampleHashes
  <2>2. <<3>> \o leaves \in Bytes
    BY <1>4, <2>1, JoinedAre
  <2>3. QED
    BY <1>6, <2>2, HashIs DEF Streams!RootOf
<1>8. Len(Streams!EncodeChunkMap(row)) = 5
  <2>1. PICK head : head = <<Streams!RootOf(row), 3, 2>>
    OBVIOUS
  <2>2. head \in Bytes /\ Len(head) = 3
    BY <1>7, <2>1 DEF Bytes
  <2>3. Streams!EncodeChunkMap(row) = head \o leaves
    BY <1>4, <1>6, <2>1 DEF Streams!EncodeChunkMap
  <2>4. Len(head \o leaves) = Len(head) + Len(leaves)
    BY ONLY <1>4, <2>2, JoinedAre
  <2>5. QED
    BY <1>4, <2>2, <2>3, <2>4
<1>9. \A a \in Streams!ToSet(leaves) : a \in Nat
  <2>1. \A i \in 1..2 : leaves[i] \in Nat
    BY <1>4, BytesAre
  <2>2. QED
    BY <1>4, <2>1 DEF Streams!ToSet
<1>10. QED
  BY <1>1, <1>3, <1>4, <1>6, <1>7, <1>8, <1>9

LEMMA SampleDifference ==
    Streams!Difference \in AllDifferences /\ Len(Streams!EncodeSince(Streams!Difference)) = 9
<1>1. PICK d, deltas, b : /\ d = Streams!Difference /\ deltas = << <<1>>, << >>, <<2, 3>> >>
                          /\ b = Behind(deltas)
  OBVIOUS
<1>2. <<1>> \in Bytes /\ << >> \in Bytes /\ <<2, 3>> \in Bytes
  BY SampleHashes, EmptyIn DEF Bytes
<1>3. /\ deltas \in Seq(Bytes) /\ Len(deltas) = 3
      /\ deltas[1] = <<1>> /\ deltas[2] = << >> /\ deltas[3] = <<2, 3>>
  BY <1>1, <1>2
<1>4. d = [target |-> 2, signature |-> 9, deltas |-> deltas]
  BY <1>1 DEF Streams!Difference
<1>5. d \in AllDifferences /\ d.target = 2 /\ d.signature = 9 /\ d.deltas = deltas
  BY <1>3, <1>4 DEF AllDifferences
<1>6. /\ b \in Seq(Bytes) /\ Len(b) = 3
      /\ Len(b[1]) = 2 /\ Len(b[2]) = 1 /\ Len(b[3]) = 3
  <2>1. b \in Seq(Bytes) /\ Len(b) = 3 /\ \A k \in 1..3 : b[k] = Wire!Text(deltas[k])
    BY <1>1, <1>3, BehindIs DEF Bytes
  <2>2. \A t \in Bytes : Len(Wire!Text(t)) = Len(t) + 1
    BY TextIs
  <2>3. Len(deltas[1]) = 1 /\ Len(deltas[2]) = 0 /\ Len(deltas[3]) = 2
    BY <1>3
  <2>4. 1 \in 1..3 /\ 2 \in 1..3 /\ 3 \in 1..3
    OBVIOUS
  <2>5. deltas[1] \in Bytes /\ deltas[2] \in Bytes /\ deltas[3] \in Bytes
    BY <1>2, <1>3
  <2>6. b[1] = Wire!Text(deltas[1]) /\ b[2] = Wire!Text(deltas[2]) /\ b[3] = Wire!Text(deltas[3])
    BY <2>1, <2>4
  <2>7. Len(b[1]) = Len(deltas[1]) + 1 /\ Len(b[2]) = Len(deltas[2]) + 1 /\ Len(b[3]) = Len(deltas[3]) + 1
    BY <2>2, <2>5, <2>6
  <2>8. QED
    BY <2>1, <2>3, <2>7
<1>7. FlattenSeq(b) \in Bytes /\ Len(FlattenSeq(b)) = 6
  <2>1. PICK f : /\ f \in [0..3 -> Bytes] /\ f[0] = << >> /\ FlattenSeq(b) = f[3]
                 /\ \A k \in 1..3 : f[k] = f[k - 1] \o b[k]
    <3>1. b \in Seq(Seq(Nat))
      BY <1>6 DEF Bytes
    <3>2. \E f \in [0..Len(b) -> Seq(Nat)] :
               /\ f[0] = << >> /\ \A k \in 1..Len(b) : f[k] = f[k - 1] \o b[k]
               /\ FlattenSeq(b) = f[Len(b)]
      BY <3>1, FlattenSteps
    <3>3. QED
      BY <1>6, <3>2 DEF Bytes
  <2>2. f[0] \in Bytes /\ f[1] \in Bytes /\ f[2] \in Bytes
    <3>1. 0 \in 0..3 /\ 1 \in 0..3 /\ 2 \in 0..3
      OBVIOUS
    <3>2. QED
      BY <2>1, <3>1
  <2>3. b[1] \in Bytes /\ b[2] \in Bytes /\ b[3] \in Bytes
    BY <1>6
  <2>4. f[1] = f[0] \o b[1] /\ f[2] = f[1] \o b[2] /\ f[3] = f[2] \o b[3]
    <3>1. 1 \in 1..3 /\ 2 \in 1..3 /\ 3 \in 1..3 /\ 1 - 1 = 0 /\ 2 - 1 = 1 /\ 3 - 1 = 2
      OBVIOUS
    <3>2. f[1] = f[1 - 1] \o b[1] /\ f[2] = f[2 - 1] \o b[2] /\ f[3] = f[3 - 1] \o b[3]
      BY <2>1, <3>1
    <3>3. QED
      BY <3>1, <3>2
  <2>5. /\ Len(f[0] \o b[1]) = Len(f[0]) + Len(b[1])
        /\ Len(f[1] \o b[2]) = Len(f[1]) + Len(b[2])
        /\ Len(f[2] \o b[3]) = Len(f[2]) + Len(b[3]) /\ f[2] \o b[3] \in Bytes
    BY ONLY <2>2, <2>3, JoinedAre
  <2>6. Len(f[0]) = 0
    BY <2>1, EmptyIs
  <2>7. Len(f[3]) = 6
    BY <1>6, <2>4, <2>5, <2>6
  <2>8. QED
    BY <2>1, <2>4, <2>5, <2>7
<1>8. Len(Streams!EncodeSince(d)) = 9
  <2>1. PICK head, tail : head = <<2, 9, 3>> /\ tail = FlattenSeq(b)
    OBVIOUS
  <2>2. head \in Bytes /\ Len(head) = 3
    BY <2>1 DEF Bytes
  <2>3. Streams!EncodeSince(d) = head \o tail
    BY <1>1, <1>3, <1>5, <2>1, EncodeSinceIs
  <2>4. tail \in Bytes /\ Len(tail) = 6
    BY <1>7, <2>1
  <2>5. Len(head \o tail) = Len(head) + Len(tail)
    BY ONLY <2>2, <2>4, JoinedAre
  <2>6. QED
    BY <2>2, <2>3, <2>4, <2>5
<1>9. QED
  BY <1>1, <1>5, <1>8

LEMMA SampleArgs ==
    ASSUME NEW op \in Streams!Ops, NEW args \in Streams!ArgsOf(op)
    PROVE  ArgsFit(op, args)
<1>1. CASE op = 1
  <2>1. args = << >>
    BY <1>1, OpsAre DEF Streams!ArgsOf
  <2>2. << >> \in Bytes /\ Len(<< >>) = 0
    BY EmptyIn, EmptyIs DEF Bytes
  <2>3. QED
    BY <1>1, <2>1, <2>2, OpsAre DEF ArgsFit
<1>2. CASE op = 2
  <2>1. PICK i \in 0..1, o \in 0..3, n \in 0..3 : args = <<i, o, n>>
    BY <1>2, OpsAre DEF Streams!ArgsOf
  <2>2. args \in Bytes /\ Len(args) = 3
    BY <2>1 DEF Bytes
  <2>3. QED
    BY <1>2, <2>2, OpsAre DEF ArgsFit
<1>3. CASE op \in {6, 7, 9}
  <2>1. \E v \in Nat : args = <<v>>
    <3>1. CASE op = 7
      <4>1. args \in {<<a>> : a \in Streams!ToSet(Streams!Row.leaves)}
        BY <3>1, OpsAre DEF Streams!ArgsOf
      <4>2. QED
        BY <4>1, SampleRow
    <3>2. CASE op # 7
      BY <1>3, <3>2, OpsAre DEF Streams!ArgsOf
    <3>3. QED
      BY <3>1, <3>2
  <2>2. args \in Bytes /\ Len(args) = 1
    BY <2>1, SampleHashes
  <2>3. QED
    BY <1>3, <2>2, OpsAre DEF ArgsFit
<1>4. CASE op = 8
  <2>1. PICK v \in Nat : args = <<v, 2>>
    BY <1>4, OpsAre, SampleRow DEF Streams!ArgsOf
  <2>2. args \in Bytes /\ Len(args) = 2
    BY <2>1 DEF Bytes
  <2>3. QED
    BY <1>4, <2>2, OpsAre DEF ArgsFit
<1>5. QED
  BY <1>1, <1>2, <1>3, <1>4, OpsAre

\* What the producer of the samples has for a request.
LEMMA SampleSource ==
    ASSUME NEW full \in BOOLEAN, NEW op \in Streams!Ops, NEW args \in Streams!ArgsOf(op),
           NEW told, told = Streams!Told(full, op, args)
    PROVE  Streams!Source(full)[op][Streams!Sent(op, args)] =
             IF op # 2 THEN Streams!OnTheWire(op, told)
             ELSE IF told = << >> THEN [status |-> 1, data |-> << >>]
             ELSE [status |-> 0, data |-> told[1]]
<1>1. PICK sent : sent = Streams!Sent(op, args)
  OBVIOUS
<1>2. Streams!Told(full, op, sent) = told
  <2>1. CASE op = 8
    <3>1. sent = <<args[1]>> /\ sent[1] = args[1]
      BY <1>1, <2>1, OpsAre DEF Streams!Sent
    <3>2. QED
      BY <2>1, <3>1, OpsAre DEF Streams!Told
  <2>2. CASE op # 8
    BY <1>1, <2>2, OpsAre DEF Streams!Sent
  <2>3. QED
    BY <2>1, <2>2
<1>3. sent \in {Streams!Sent(op, a) : a \in Streams!ArgsOf(op)}
  BY <1>1
<1>4. Streams!Source(full)[op][sent] =
        IF op # Streams!OpRead THEN Streams!OnTheWire(op, Streams!Told(full, op, sent))
        ELSE IF Streams!Told(full, op, sent) = << >> THEN [status |-> Streams!BadIndex, data |-> << >>]
        ELSE [status |-> Streams!Ok, data |-> Streams!Told(full, op, sent)[1]]
  BY <1>3 DEF Streams!Source
<1>5. QED
  BY <1>1, <1>2, <1>4, OpsAre DEF Streams!BadIndex, Streams!Ok

\* A read of the sample file, within the length it asks for.
LEMMA SampleRead ==
    ASSUME NEW from \in 0..3, NEW n \in 0..3, NEW data,
           data = SubSeq(Streams!File, from + 1, Streams!Min({from + n, Len(Streams!File)}))
    PROVE  data \in Bytes /\ Len(data) <= n
<1>1. PICK file : file = Streams!File
  OBVIOUS
<1>2. file \in Bytes /\ Len(file) = 3
  BY <1>1 DEF Streams!File, Bytes
<1>3. PICK lo, hi : lo = from + 1 /\ hi = IF from + n <= 3 THEN from + n ELSE 3
  OBVIOUS
<1>4. Streams!Min({from + n, 3}) = hi
  <2>1. Streams!Min({from + n, 3}) = CHOOSE x \in {from + n, 3} : \A y \in {from + n, 3} : x <= y
    BY DEF Streams!Min
  <2>2. hi \in {from + n, 3} /\ \A y \in {from + n, 3} : hi <= y
    BY <1>3
  <2>3. \A x \in {from + n, 3} : (\A y \in {from + n, 3} : x <= y) => x = hi
    BY <1>3
  <2>4. QED
    BY <2>1, <2>2, <2>3
<1>5. data = SubSeq(file, lo, hi)
  BY <1>1, <1>2, <1>3, <1>4
<1>6. lo \in Nat /\ hi \in Nat /\ lo >= 1 /\ hi + 1 >= lo /\ hi <= Len(file) /\ hi - lo + 1 <= n
  BY <1>2, <1>3
<1>7. SubSeq(file, lo, hi) \in Bytes /\ Len(SubSeq(file, lo, hi)) = hi - lo + 1
  BY ONLY <1>2, <1>6, StretchIs
<1>8. QED
  BY <1>5, <1>6, <1>7

LEMMA SampleSays ==
    ASSUME NEW full \in BOOLEAN, NEW op \in Streams!Ops, NEW args \in Streams!ArgsOf(op)
    PROVE  Says(op, args, Streams!Source(full)[op][Streams!Sent(op, args)], Streams!Told(full, op, args))
<1>1. PICK told, answer : /\ told = Streams!Told(full, op, args)
                          /\ answer = Streams!Source(full)[op][Streams!Sent(op, args)]
  OBVIOUS
<1>2. answer = IF op # 2 THEN Streams!OnTheWire(op, told)
               ELSE IF told = << >> THEN [status |-> 1, data |-> << >>]
               ELSE [status |-> 0, data |-> told[1]]
  BY <1>1, SampleSource
<1>3. CASE op = 2
  <2>1. PICK i \in 0..1, from \in 0..3, n \in 0..3 : args = <<i, from, n>>
    BY <1>3, OpsAre DEF Streams!ArgsOf
  <2>2. args[1] = i /\ args[2] = from /\ args[3] = n
    BY <2>1
  <2>3. PICK data : data = SubSeq(Streams!File, from + 1, Streams!Min({from + n, Len(Streams!File)}))
    OBVIOUS
  <2>4. data \in Bytes /\ Len(data) <= n
    BY <2>3, SampleRead
  <2>5. told = IF full /\ i = 0 /\ n <= MaxReadLen THEN <<data>> ELSE << >>
    BY <1>1, <1>3, <2>2, <2>3, OptionIs, OpsAre DEF Streams!Told
  <2>6. << >> \in Bytes /\ <<data>> # << >> /\ <<data>>[1] = data
    BY EmptyIn DEF Bytes
  <2>7. CASE full /\ i = 0 /\ n <= MaxReadLen
    <3>1. answer = [status |-> 0, data |-> data] /\ told = <<data>>
      BY <1>2, <1>3, <2>5, <2>6, <2>7
    <3>2. QED
      <4>1. answer.status = 0 /\ answer.data = data
        BY <3>1
      <4>2. 0 \in Nat /\ args[3] <= MaxReadLen
        BY <2>2, <2>7
      <4>3. Len(data) <= args[3]
        BY <2>2, <2>4
      <4>4. QED
        BY <1>1, <1>3, <2>4, <3>1, <4>1, <4>2, <4>3, OpsAre DEF Says
  <2>8. CASE ~(full /\ i = 0 /\ n <= MaxReadLen)
    <3>1. answer = [status |-> 1, data |-> << >>] /\ told = << >>
      BY <1>2, <1>3, <2>5, <2>8
    <3>2. answer.status = 1 /\ answer.data \in Bytes
      BY <2>6, <3>1
    <3>3. QED
      BY <1>1, <1>3, <3>1, <3>2, OpsAre DEF Says
  <2>9. QED
    BY <2>7, <2>8
<1>4. CASE op # 2
  <2>1. answer = Streams!OnTheWire(op, told)
    BY <1>2, <1>4
  <2>2. told = << >> => answer = << >>
    BY <2>1 DEF Streams!OnTheWire, Streams!IsSome
  <2>3. \A v : told = <<v>> => answer = <<Written(op, args, v)>>
    <3> TAKE v
    <3>1. HAVE told = <<v>>
    <3>2. Streams!IsSome(told) /\ told[1] = v
      BY <3>1, OptionIs
    <3>3. op = 8 => args[2] = 2
      BY OpsAre DEF Streams!ArgsOf
    <3>4. QED
      BY <2>1, <3>2, <3>3, OptionIs, OpsAre DEF Streams!OnTheWire, Written
  <2>4. told = << >> \/ \E v \in AnswersTo(op, args) : told = <<v>> /\ Len(Written(op, args, v)) <= MaxBody
    <3>1. CASE op = 1
      <4>1. PICK v : v = <<1, 9, 4>>
        OBVIOUS
      <4>2. v \in Bytes /\ Len(v) = 3
        BY <4>1 DEF Bytes
      <4>3. v \in AnswersTo(op, args) /\ Written(op, args, v) = v /\ Len(v) <= MaxBody
        <5>1. 3 <= MaxBody /\ Len(v) >= 2
          BY <4>2, SamplesFit
        <5>2. QED
          BY <3>1, <4>2, <5>1, OpsAre DEF AnswersTo, Written
      <4>4. told = << >> \/ told = <<v>>
        BY <1>1, <3>1, <4>1, OptionIs, OpsAre DEF Streams!Told
      <4>5. QED
        BY <4>3, <4>4
    <3>2. CASE op = 6
      <4>1. PICK v : v = Streams!Row
        OBVIOUS
      <4>2. v \in AnswersTo(op, args) /\ Written(op, args, v) = Streams!EncodeChunkMap(v)
        BY <3>2, <4>1, SampleRow, OpsAre DEF AnswersTo, Written
      <4>3. Len(Written(op, args, v)) <= MaxBody
        BY <4>1, <4>2, SampleRow, SamplesFit
      <4>4. told = << >> \/ told = <<v>>
        BY <1>1, <3>2, <4>1, OptionIs, OpsAre DEF Streams!Told
      <4>5. QED
        BY <4>2, <4>3, <4>4
    <3>3. CASE op = 7
      <4>1. PICK v : v = <<6>>
        OBVIOUS
      <4>2. v \in Bytes /\ Len(v) = 1
        BY <4>1, SampleHashes
      <4>3. told = << >> \/ (told = <<v>> /\ Streams!HashOf(v) = args[1])
        <5>1. told = IF ~full THEN << >>
                     ELSE IF args[1] = Streams!Row.leaves[2] THEN Streams!Some(v) ELSE << >>
          BY <1>1, <3>3, <4>1, OpsAre DEF Streams!Told
        <5>2. QED
          BY <4>1, <5>1, SampleRow, OptionIs
      <4>4. told # << >> => v \in AnswersTo(op, args)
        BY <3>3, <4>2, <4>3, OpsAre DEF AnswersTo
      <4>5. Len(Written(op, args, v)) <= MaxBody
        <5>1. 1 <= MaxBody
          BY SamplesFit
        <5>2. Written(op, args, v) = v
          BY <3>3, OpsAre DEF Written
        <5>3. QED
          BY <4>2, <5>1, <5>2
      <4>6. QED
        BY <4>3, <4>4, <4>5
    <3>4. CASE op = 8
      <4>1. PICK v : v = {1}
        OBVIOUS
      <4>2. args[2] = 2
        BY <3>4, OpsAre DEF Streams!ArgsOf
      <4>3. v \in SUBSET (0..2 - 1)
        BY <4>1
      <4>4. v \in AnswersTo(op, args) /\ Written(op, args, v) = Streams!EncodeHave(2, v)
        BY <3>4, <4>2, <4>3, OpsAre DEF AnswersTo, Written
      <4>5. Len(Streams!EncodeHave(2, v)) = 2
        <5>1. PICK map, head : map = Streams!Bitmap(2, v) /\ head = <<2>>
          OBVIOUS
        <5>2. Streams!BitmapLen(2) = 1
          BY DEF Streams!BitmapLen, Streams!Bits
        <5>3. map \in Bytes /\ Len(map) = 1
          BY <4>3, <5>1, <5>2, BitmapIs
        <5>4. head \in Bytes /\ Len(head) = 1
          BY <5>1, SampleHashes
        <5>5. Len(head \o map) = Len(head) + Len(map)
          BY ONLY <5>3, <5>4, JoinedAre
        <5>6. Streams!EncodeHave(2, v) = head \o map
          BY ONLY <5>1 DEF Streams!EncodeHave
        <5>7. Len(Streams!EncodeHave(2, v)) = Len(head) + Len(map)
          BY <5>5, <5>6, Zenon
        <5>8. Len(head) + Len(map) = 2
          BY ONLY <5>3, <5>4
        <5>9. QED
          BY ONLY <5>7, <5>8, Zenon
      <4>6. Len(Written(op, args, v)) <= MaxBody
        <5>1. 2 <= MaxBody
          BY SamplesFit
        <5>2. Len(Written(op, args, v)) = 2
          BY <4>4, <4>5, Zenon
        <5>3. QED
          BY <5>1, <5>2, Zenon
      <4>7. told = << >> \/ told = <<v>>
        BY <1>1, <3>4, <4>1, OptionIs, OpsAre DEF Streams!Told
      <4>8. QED
        BY <4>4, <4>6, <4>7
    <3>5. CASE op = 9
      <4>1. PICK v : v = Streams!Difference
        OBVIOUS
      <4>2. v \in AnswersTo(op, args) /\ Written(op, args, v) = Streams!EncodeSince(v)
        BY <3>5, <4>1, SampleDifference, OpsAre DEF AnswersTo, Written
      <4>3. Len(Written(op, args, v)) <= MaxBody
        BY <4>1, <4>2, SampleDifference, SamplesFit
      <4>4. told = << >> \/ told = <<v>>
        BY <1>1, <3>5, <4>1, OptionIs, OpsAre DEF Streams!Told
      <4>5. QED
        BY <4>2, <4>3, <4>4
    <3>6. QED
      BY <1>4, <3>1, <3>2, <3>3, <3>4, <3>5, OpsAre
  <2>5. QED
    BY <1>1, <1>4, <2>2, <2>3, <2>4, OpsAre DEF Says
<1>5. QED
  BY <1>3, <1>4

LEMMA SampleBodies == Streams!MadeUp \subseteq Bytes
<1>1. \A n \in 0..4 : [1..n -> 0..2] \subseteq Bytes
  <2> TAKE n \in 0..4
  <2>1. [1..n -> 0..2] \subseteq [1..n -> Nat]
    OBVIOUS
  <2>2. [1..n -> Nat] \subseteq Seq(Nat)
    OBVIOUS
  <2>3. QED
    BY <2>1, <2>2 DEF Bytes
<1>2. \A u \in UNION {[1..n -> 0..2] : n \in 0..3} : u \in Bytes
  <2>1. \A n \in 0..3 : n \in 0..4
    OBVIOUS
  <2>2. QED
    BY <1>1, <2>1, Zenon
<1>3. \A v \in 0..2, m \in {<< >>, <<1>>} : Streams!Signature(2, v, m) \in Nat
  <2> TAKE v \in 0..2, m \in {<< >>, <<1>>}
  <2>1. PICK head : head = <<2, v>>
    OBVIOUS
  <2>2. head \in Bytes /\ m \in Bytes
    <3>1. << >> \in Bytes /\ <<1>> \in Bytes
      BY SampleHashes, EmptyIn DEF Bytes
    <3>2. 2 \in Nat /\ v \in Nat
      OBVIOUS
    <3>3. head \in Bytes
      BY <2>1, <3>2, SampleHashes
    <3>4. QED
      BY <3>1, <3>3
  <2>3. head \o m \in Bytes
    BY <2>2, JoinedAre
  <2>4. QED
    BY <2>1, <2>3, HashIs DEF Streams!Signature
<1>4. Streams!Heads \subseteq Nat
  <2>1. PICK U, M : U = UNION {[1..n -> 0..2] : n \in 0..3} /\ M = {<< >>, <<1>>}
    OBVIOUS
  <2>2. Streams!Heads = {Streams!HashOf(u) : u \in U} \cup {Streams!Signature(2, v, m) : v \in 0..2, m \in M} \cup 0..2
    BY ONLY <2>1 DEF Streams!Heads
  <2>3. \A u \in U : Streams!HashOf(u) \in Nat
    BY <1>2, <2>1, HashIs
  <2>4. \A v \in 0..2, m \in M : Streams!Signature(2, v, m) \in Nat
    BY <1>3, <2>1
  <2>5. QED
    BY ONLY <2>2, <2>3, <2>4
<1>5. ASSUME NEW body \in Streams!MadeUp PROVE body \in Bytes
  <2>1. PICK H, R, E : /\ H = Streams!Heads /\ R = UNION {[1..n -> 0..2] : n \in 0..4}
                       /\ E = {<< >>, <<1>>, <<2>>}
    OBVIOUS
  <2> DEFINE Row(h, rest) == <<h>> \o rest
             Manifest(v, sig, rest) == <<v, sig>> \o rest
  <2>2. Streams!MadeUp = {Row(h, rest) : h \in H, rest \in R} \cup {Manifest(v, sig, rest) : v \in 0..2, sig \in H, rest \in E}
    BY ONLY <2>1 DEF Streams!MadeUp
  <2>3. \A r \in R \cup E : r \in Bytes
    <3>1. \A r \in R : r \in Bytes
      BY <1>1, <2>1, Zenon
    <3>2. << >> \in Bytes /\ <<1>> \in Bytes /\ <<2>> \in Bytes
      BY SampleHashes, EmptyIn DEF Bytes
    <3>3. QED
      BY <2>1, <3>1, <3>2
  <2>4. H \subseteq Nat /\ 0..2 \subseteq Nat
    BY <1>4, <2>1
  <2>5. ASSUME NEW head \in Bytes, NEW rest \in Bytes PROVE head \o rest \in Bytes
    BY JoinedAre
  <2>6. ASSUME NEW h \in H, NEW rest \in R PROVE Row(h, rest) \in Bytes
    <3>1. <<h>> \in Bytes /\ rest \in Bytes
      BY <2>3, <2>4, SampleHashes
    <3>2. QED
      BY <2>5, <3>1
  <2>7. ASSUME NEW v \in 0..2, NEW sig \in H, NEW rest \in E PROVE Manifest(v, sig, rest) \in Bytes
    <3>1. <<v, sig>> \in Bytes /\ rest \in Bytes
      BY <2>3, <2>4, SampleHashes
    <3>2. QED
      BY <2>5, <3>1
  <2>8. QED
    <3> HIDE DEF Row, Manifest
    <3> QED  BY ONLY <1>5, <2>2, <2>6, <2>7
<1>6. QED
  BY <1>5

LEMMA SampleLadders ==
    /\ <<9>> \in Bytes /\ << >> \in Bytes /\ <<1>> \in Bytes /\ <<2, 1>> \in Bytes
    /\ \A l \in {<< <<5>> >>, << <<1>>, <<2, 1>> >>} : l \in Seq(Bytes) /\ Len(l) \in 1..MaxRelayLadder
<1>1. << >> \in Bytes /\ <<1>> \in Bytes /\ <<5>> \in Bytes /\ <<9>> \in Bytes /\ <<2, 1>> \in Bytes
  BY SampleHashes, EmptyIn DEF Bytes
<1>2. << <<5>> >> \in Seq(Bytes) /\ Len(<< <<5>> >>) = 1
  BY <1>1
<1>3. << <<1>>, <<2, 1>> >> \in Seq(Bytes) /\ Len(<< <<1>>, <<2, 1>> >>) = 2
  BY <1>1
<1>4. 1 \in 1..MaxRelayLadder /\ 2 \in 1..MaxRelayLadder
  BY SamplesFit
<1>5. QED
  BY <1>1, <1>2, <1>3, <1>4

LEMMA SampleTicketsAre == Minted \subseteq AllTickets
<1>1. ASSUME NEW t \in Minted PROVE t \in AllTickets
  <2>1. t \in SampleTickets /\ (t.author # 0) = Wire!Bit(t.flags, 2)
    BY <1>1 DEF Minted
  <2>2. PICK lookups : lookups = t.lookups
    OBVIOUS
  <2>3. /\ t \in [secret : {7}, kind : {0, 3}, addr : {<< >>, <<9>>}, lookups : {lookups},
                  flags : 0..3, meshId : {<< >>, <<1>>, <<2, 1>>}, author : {0, 8}]
        /\ \/ lookups \in [mdns : BOOLEAN, dht : {TRUE}, relay : {"disabled", "pinned"}, ladder : {<< >>}]
           \/ lookups \in [mdns : {FALSE}, dht : BOOLEAN, relay : {"custom"},
                           ladder : {<< <<5>> >>, << <<1>>, <<2, 1>> >>}]
    BY <2>1, <2>2 DEF SampleTickets
  <2>4. lookups \in AllLookups
    <3>1. CASE lookups \in [mdns : BOOLEAN, dht : {TRUE}, relay : {"disabled", "pinned"}, ladder : {<< >>}]
      <4>1. lookups \in [mdns : BOOLEAN, dht : BOOLEAN, relay : {"disabled", "pinned"}, ladder : {<< >>}]
        BY <3>1
      <4>2. QED
        BY <4>1 DEF AllLookups
    <3>2. CASE lookups \in [mdns : {FALSE}, dht : BOOLEAN, relay : {"custom"},
                            ladder : {<< <<5>> >>, << <<1>>, <<2, 1>> >>}]
      <4>1. lookups.ladder \in Seq(Bytes) /\ Len(lookups.ladder) \in 1..MaxRelayLadder
        BY <3>2, SampleLadders
      <4>2. lookups \in [mdns : BOOLEAN, dht : BOOLEAN, relay : {"custom"}, ladder : Seq(Bytes)]
        BY <3>2, <4>1
      <4>3. QED
        BY <4>1, <4>2 DEF AllLookups
    <3>3. QED
      BY <2>3, <3>1, <3>2
  <2>5. t \in [secret : Nat, kind : Nat, addr : Bytes, lookups : AllLookups,
               flags : Nat, meshId : Bytes, author : Nat]
    <3>1. /\ {7} \subseteq Nat /\ {0, 3} \subseteq Nat /\ {<< >>, <<9>>} \subseteq Bytes /\ {lookups} \subseteq AllLookups
          /\ 0..3 \subseteq Nat /\ {<< >>, <<1>>, <<2, 1>>} \subseteq Bytes /\ {0, 8} \subseteq Nat
      BY <2>4, SampleLadders
    <3>2. QED
      BY <2>3, <3>1
  <2>6. t.author # Wire!None <=> Wire!Bit(t.flags, Wire!SignedFlag)
    BY <2>1 DEF Wire!None, Wire!SignedFlag, Wire!Bit
  <2>7. QED
    BY <2>5, <2>6 DEF AllTickets
<1>2. QED
  BY <1>1

\* What crosses a wire is read as it was written or not at all: the samples of the
\* model checker are tickets, requests, answers and bodies of the above.
THEOREM WireIsTrue == WireReadsTrue
<1>1. TicketsSurviveTheWire
  BY SampleTicketsAre, TicketsReadBack DEF TicketsSurviveTheWire
<1>2. ShortTicketsReadTrue
  BY SampleTicketsAre, CutTicketsReadTrue DEF ShortTicketsReadTrue
<1>3. Streams!ExchangesAreTrue
  <2> DEFINE IsTrue(app, full, protected, op, ops, given, args, upTo, heard) ==
                 Streams!ExchangeIsTrue(app, op, args, Streams!share_token(7, given),
                     Streams!ShareAuth(7, IF protected THEN <<3>> ELSE << >>),
                     ops, Streams!Source(full), Streams!Told(full, op, args), upTo, heard)
  <2>1. ASSUME NEW app \in BOOLEAN, NEW full \in BOOLEAN, NEW protected \in BOOLEAN, NEW op \in Streams!Ops,
               NEW ops \in {Streams!Ops, {Streams!OpManifest, Streams!OpRead}}, NEW given \in {<< >>, << 3 >>, << 5 >>},
               NEW args \in Streams!ArgsOf(op), NEW upTo \in 0..5, NEW heard \in 0..2 + MaxBody
        PROVE  IsTrue(app, full, protected, op, ops, given, args, upTo, heard)
    <3>1. PICK token, auth, source, told :
            /\ token = Streams!share_token(7, given)
            /\ auth = Streams!ShareAuth(7, IF protected THEN <<3>> ELSE << >>)
            /\ source = Streams!Source(full) /\ told = Streams!Told(full, op, args)
      OBVIOUS
    <3>2. token \in Nat /\ auth \in [token : Nat, protected : BOOLEAN]
      <4>1. (IF protected THEN <<3>> ELSE << >>) \in {<< >>, <<3>>, <<5>>}
        OBVIOUS
      <4>2. QED
        BY <3>1, <4>1, SampleAuth
    <3>3. upTo \in Nat /\ heard \in Nat
      BY SamplesFit
    <3>4. ArgsFit(op, args) /\ Says(op, args, source[op][Streams!Sent(op, args)], told)
      BY <3>1, SampleArgs, SampleSays
    <3>5. Streams!ExchangeIsTrue(app, op, args, token, auth, ops, source, told, upTo, heard)
      BY <3>2, <3>3, <3>4, ExchangesReadTrue
    <3>6. QED
      BY <3>1, <3>5
  <2>2. \A app, full, protected \in BOOLEAN, op \in Streams!Ops,
           ops \in {Streams!Ops, {Streams!OpManifest, Streams!OpRead}}, given \in {<< >>, <<3>>, <<5>>} :
            \A args \in Streams!ArgsOf(op), upTo \in 0..5, heard \in 0..2 + MaxBody :
                IsTrue(app, full, protected, op, ops, given, args, upTo, heard)
    <3> HIDE DEF IsTrue
    <3> QED  BY ONLY <2>1
  <2>3. QED
    BY ONLY <2>2 DEF Streams!ExchangesAreTrue
<1>4. Streams!MadeUpIsRefused
  <2>1. ASSUME NEW app \in BOOLEAN, NEW seen \in {0, 1}, NEW body \in Streams!MadeUp
        PROVE  Streams!TakesOnlyTheSound(app, 2, seen, body)
    <3>1. 2 \in Nat /\ seen \in Nat /\ body \in Bytes
      BY SampleBodies
    <3>2. QED
      BY <3>1, MadeUpBodiesAreRefused
  <2>2. QED
    BY <2>1 DEF Streams!MadeUpIsRefused
<1>5. QED
  BY <1>1, <1>2, <1>3, <1>4 DEF WireReadsTrue, SampleExchangesAreTrue
=============================================================================
