------------------------------- MODULE Stream -------------------------------
(***************************************************************************)
(* One file streamed to a media element through the service worker:        *)
(* agent-share-web's service-worker/index.ts and lib/stream.  The element   *)
(* asks for ranges and drops them as it seeks; the worker asks the page     *)
(* for bytes over the port the page registered; the browser stops a worker  *)
(* that is idle, and the page registers again when the next one asks.       *)
(*                                                                         *)
(* Ports are numbered in the order the page mints them and requests in the  *)
(* order the element makes them.  A byte stands for one unit of the file.   *)
(***************************************************************************)
EXTENDS Naturals, Sequences, FiniteSets

CONSTANTS
    Size,         \* StreamEntry.size
    ChunkBytes,   \* CHUNK_BYTES, the store's unit
    Chunk,        \* CHUNK, the longest read
    FromOrigin,   \* StreamEntry.sourceIsOrigin
    Headers,      \* the Range headers the element sends
    PromptPage,   \* whether what the page posts arrives before the fetches it leads
                  \* to, and before RECOVER_MS has passed
    MaxRequests,  \* bound: requests made by the element
    MaxDeaths,    \* bound: workers stopped
    MaxFailures   \* bound: reads that fail or come back empty

ASSUME StreamAssumption ==
    /\ Size \in Nat \ {0} /\ ChunkBytes \in Nat \ {0} /\ Chunk \in Nat /\ Chunk >= ChunkBytes
    /\ \A header \in Headers :
        header \in [kind : {"none"}] \cup [kind : {"suffix"}, last : Nat]
                   \cup [kind : {"from"}, first : Nat]
                   \cup [kind : {"between"}, first : Nat, last : Nat]
    /\ FromOrigin \in BOOLEAN /\ PromptPage \in BOOLEAN
    /\ MaxRequests \in Nat /\ MaxDeaths \in Nat /\ MaxFailures \in Nat

VARIABLES
    published,   \* the page still holds the stream
    channel,     \* the port it answers on, the last it minted
    reading,     \* page: reads under way, each with the worker's life it came from
    kept,        \* page: chunks handed to the store
    failures,
    life,        \* which worker this is
    registered,  \* worker: the port in its registry, 0 for none
    nextReqId,   \* worker: the next request id
    waiting,     \* worker: the reads it waits for, by port and request id
    recovering,  \* worker: the windows have been asked for the registration
    timers,      \* worker: recoveries whose RECOVER_MS has not passed
    toWorker,    \* messages posted to the worker itself
    asked,       \* whoOwns messages the page has not handled
    posted,      \* reads posted on a port and not received by the page
    replies,     \* answers posted on a port and not received by the worker
    response,    \* response[r]: what became of the element's r-th request
    delivered    \* history variable: what was handed to the element

pageVars == <<published, channel, reading, kept, failures>>
workerVars == <<life, registered, nextReqId, waiting, recovering, timers>>
wireVars == <<toWorker, asked, posted, replies>>
vars == <<pageVars, workerVars, wireVars, response, delivered>>

Requests == 1..MaxRequests
Unused == [pc |-> "unused", port |-> 0, offset |-> 0, start |-> 0, end |-> 0]
Live(r) == response[r].pc \in {"recovering", "pulling", "waiting"}

\* openStream: the page has minted a port and posted its registration.
Init ==
    /\ published = TRUE /\ channel = 1
    /\ reading = {} /\ kept = {} /\ failures = 0
    /\ life = 1 /\ registered = 0 /\ nextReqId = 1 /\ waiting = {}
    /\ recovering = FALSE /\ timers = 0
    /\ toWorker = <<[type |-> "register", port |-> 1]>>
    /\ asked = 0 /\ posted = {} /\ replies = {}
    /\ response = [r \in Requests |-> Unused]
    /\ delivered = {}

-----------------------------------------------------------------------------

Least(a, b) == IF a < b THEN a ELSE b
Window(start, end) == [start |-> start, end |-> end]
Whole == Window(0, Size - 1)
Unsatisfiable == [start |-> Size, end |-> 0]

\* parseRange, on "bytes=<from>-<to>" with either end left out, or no header.
ParseRange(header) ==
    CASE header.kind = "none" -> Whole
      [] header.kind = "suffix" ->
            IF header.last = 0 THEN Unsatisfiable
            ELSE Window(IF header.last < Size THEN Size - header.last ELSE 0, Size - 1)
      [] header.kind = "from" ->
            IF header.first < Size THEN Window(header.first, Size - 1) ELSE Unsatisfiable
      [] header.kind = "between" ->
            IF header.first < Size /\ header.first <= header.last
            THEN Window(header.first, Least(header.last, Size - 1)) ELSE Unsatisfiable

\* Mutant: every read is as long as a read may be.
StepFlat(offset, end) == Least(end - offset + 1, Chunk)

\* step: a read that is not the window's last ends on a chunk boundary.
Step(offset, end) ==
    LET aligned == ((offset + Chunk) \div ChunkBytes) * ChunkBytes
    IN  IF end - offset + 1 <= Chunk THEN end - offset + 1
        ELSE IF aligned > offset THEN aligned - offset ELSE Chunk

Chunks == {c \in 0..Size : c * ChunkBytes < Size}
ChunkEnd(c) == Least((c + 1) * ChunkBytes, Size) - 1
WholeChunks(first, last) == {c \in Chunks : first <= c * ChunkBytes /\ ChunkEnd(c) <= last}

-----------------------------------------------------------------------------

\* recover: the windows are asked once for all who wait, for RECOVER_MS.
Recover ==
    /\ recovering' = TRUE
    /\ IF recovering THEN UNCHANGED <<timers, asked>>
       ELSE timers' = timers + 1 /\ asked' = asked + 1

\* The element asks for a range.  A worker that has the registration answers
\* from it; one that has not asks the windows.
Fetch(r, header) ==
    /\ response[r].pc = "unused" /\ \A q \in 1..r - 1 : response[q].pc # "unused"
    /\ published
    /\ PromptPage => toWorker = << >>
    /\ LET window == ParseRange(header)
           known == registered # 0
           fresh == [pc |-> IF known THEN "pulling" ELSE "recovering", port |-> registered,
                     offset |-> window.start, start |-> window.start, end |-> window.end]
       IN  \/ /\ known /\ window = Unsatisfiable
              /\ response' = [response EXCEPT ![r] = [fresh EXCEPT !.pc = "refused"]]
              /\ UNCHANGED <<recovering, timers, asked>>
           \/ /\ known /\ window # Unsatisfiable
              /\ response' = [response EXCEPT ![r] = fresh]
              /\ UNCHANGED <<recovering, timers, asked>>
           \/ /\ ~known
              /\ response' = [response EXCEPT ![r] = fresh]
              /\ Recover
    /\ UNCHANGED <<pageVars, life, registered, nextReqId, waiting, toWorker, posted, replies, delivered>>

\* Every response that waits on the recovery, woken with a port, or with none.
Woken(port) ==
    [q \in Requests |->
        IF response[q].pc # "recovering" THEN response[q]
        ELSE [response[q] EXCEPT
                !.port = port,
                !.pc = IF port = 0 THEN "404"
                       ELSE IF response[q].start = Size THEN "refused" ELSE "pulling"]]

\* "register": the registry takes the new port, and a recovery ends.
Register ==
    /\ toWorker # << >> /\ Head(toWorker).type = "register"
    /\ toWorker' = Tail(toWorker)
    /\ registered' = Head(toWorker).port
    /\ recovering' = FALSE
    /\ response' = Woken(Head(toWorker).port)
    /\ UNCHANGED <<pageVars, life, nextReqId, waiting, timers, asked, posted, replies, delivered>>

\* RECOVER_MS has passed: who still waits gets what the registry has.  The page
\* answers whoOwns sooner when it is prompt.
RecoverTimeout ==
    /\ timers > 0
    /\ PromptPage /\ published => asked = 0 /\ toWorker = << >>
    /\ timers' = timers - 1
    /\ recovering' = FALSE
    /\ response' = Woken(registered)
    /\ UNCHANGED <<pageVars, life, registered, nextReqId, waiting, wireVars, delivered>>

\* whoOwns: a page that still holds the stream mints a port and registers again.
AnswerWhoOwns ==
    /\ asked > 0
    /\ asked' = asked - 1
    /\ IF published
       THEN /\ channel' = channel + 1
            /\ toWorker' = Append(toWorker, [type |-> "register", port |-> channel + 1])
       ELSE UNCHANGED <<channel, toWorker>>
    /\ UNCHANGED <<published, reading, kept, failures, workerVars, posted, replies, response, delivered>>

-----------------------------------------------------------------------------

\* pull: the next read of the window is posted on the port this response was
\* given, whatever has become of it since.
Pull(r) ==
    /\ response[r].pc = "pulling" /\ response[r].offset <= response[r].end
    /\ LET at == response[r].offset
       IN  posted' = posted \cup {[port |-> response[r].port, reqId |-> nextReqId, offset |-> at,
                                   len |-> Step(at, response[r].end), life |-> life]}
    /\ waiting' = waiting \cup {[port |-> response[r].port, reqId |-> nextReqId, r |-> r]}
    /\ nextReqId' = nextReqId + 1
    /\ response' = [response EXCEPT ![r].pc = "waiting"]
    /\ UNCHANGED <<pageVars, life, registered, recovering, timers, toWorker, asked, replies, delivered>>

\* pull past the window: the body ends.
Close(r) ==
    /\ response[r].pc = "pulling" /\ response[r].offset > response[r].end
    /\ response' = [response EXCEPT ![r].pc = "closed"]
    /\ UNCHANGED <<pageVars, workerVars, wireVars, delivered>>

\* The element seeks away.  The read under way goes on, and so does the page's.
Cancel(r) ==
    /\ Live(r)
    /\ response' = [response EXCEPT ![r].pc = "cancelled"]
    /\ UNCHANGED <<pageVars, workerVars, wireVars, delivered>>

\* The page takes a read from its end of a port; release closes the live one.
Receive(q) ==
    /\ q \in posted
    /\ posted' = posted \ {q}
    /\ reading' = IF published \/ q.port # channel THEN reading \cup {q} ELSE reading
    /\ UNCHANGED <<published, channel, kept, failures, workerVars, toWorker, asked, replies, response, delivered>>

\* answerRead: the reply goes out on the live channel, not on the one the read
\* came from; whole chunks are kept afterwards.
Answer(q) ==
    /\ q \in reading
    /\ reading' = reading \ {q}
    /\ \E kind \in {"bytes", "empty", "error"} :
        /\ kind # "bytes" => failures < MaxFailures
        /\ failures' = IF kind = "bytes" THEN failures ELSE failures + 1
        /\ kept' = IF kind = "bytes"
                   THEN kept \cup WholeChunks(q.offset, q.offset + q.len - 1) ELSE kept
        /\ replies' = IF published
                      THEN replies \cup {[port |-> channel, reqId |-> q.reqId, kind |-> kind,
                                          offset |-> q.offset, len |-> q.len, life |-> q.life]}
                      ELSE replies
    /\ UNCHANGED <<published, channel, workerVars, toWorker, asked, posted, response, delivered>>

\* What a pull makes of its answer.
After(read, reply) ==
    CASE read.pc # "waiting" -> read
      [] read.pc = "waiting" /\ reply.kind = "bytes" ->
            [read EXCEPT !.pc = "pulling", !.offset = @ + reply.len]
      [] read.pc = "waiting" /\ reply.kind = "empty" ->
            [read EXCEPT !.pc = IF FromOrigin THEN "closed" ELSE "errored"]
      [] read.pc = "waiting" /\ reply.kind = "error" -> [read EXCEPT !.pc = "errored"]

\* A reply is matched by its id among those waiting on the port it came by, and
\* dropped when there is none.  A port the worker does not have is dead.
Settle(reply) ==
    /\ reply \in replies
    /\ replies' = replies \ {reply}
    /\ LET matched == {w \in waiting : w.port = reply.port /\ w.reqId = reply.reqId}
       IN  /\ waiting' = waiting \ matched
           /\ response' = [r \in Requests |->
                            IF \E w \in matched : w.r = r THEN After(response[r], reply)
                            ELSE response[r]]
           /\ delivered' = delivered \cup
                {[r |-> w.r, at |-> response[w.r].offset, offset |-> reply.offset,
                  len |-> reply.len, asked |-> reply.life, served |-> life] :
                    w \in {w \in matched : reply.kind = "bytes" /\ response[w.r].pc = "waiting"}}
    /\ UNCHANGED <<pageVars, life, registered, nextReqId, recovering, timers, toWorker, asked, posted>>

-----------------------------------------------------------------------------

\* release(): the page forgets the stream and closes its end.
Release ==
    /\ published
    /\ published' = FALSE
    /\ toWorker' = Append(toWorker, [type |-> "release"])
    /\ posted' = {q \in posted : q.port # channel}
    /\ UNCHANGED <<channel, reading, kept, failures, workerVars, asked, replies, response, delivered>>

\* Mutant: what waits on a released registration is forgotten with it.
ReleasedQuietly ==
    /\ toWorker # << >> /\ Head(toWorker).type = "release"
    /\ toWorker' = Tail(toWorker)
    /\ waiting' = {w \in waiting : w.port # registered}
    /\ registered' = 0
    /\ UNCHANGED <<pageVars, life, nextReqId, recovering, timers, asked, posted, replies, response,
                   delivered>>

\* "release": what waits on the registration fails, and it is forgotten.
Released ==
    /\ toWorker # << >> /\ Head(toWorker).type = "release"
    /\ toWorker' = Tail(toWorker)
    /\ LET failed == {w \in waiting : w.port = registered}
       IN  /\ waiting' = waiting \ failed
           /\ response' = [r \in Requests |->
                            IF response[r].pc = "waiting" /\ \E w \in failed : w.r = r
                            THEN [response[r] EXCEPT !.pc = "errored"] ELSE response[r]]
    /\ replies' = {reply \in replies : reply.port # registered}
    /\ registered' = 0
    /\ UNCHANGED <<pageVars, life, nextReqId, recovering, timers, asked, posted, delivered>>

\* The browser stops a worker that has nothing to do; the next event starts
\* another, whose module is fresh.
Die ==
    /\ life <= MaxDeaths
    /\ ~recovering /\ \A r \in Requests : ~Live(r)
    /\ life' = life + 1
    /\ registered' = 0 /\ nextReqId' = 1 /\ waiting' = {}
    /\ recovering' = FALSE /\ timers' = 0
    /\ replies' = {}
    /\ UNCHANGED <<pageVars, toWorker, asked, posted, response, delivered>>

-----------------------------------------------------------------------------

PageStep ==
    \/ AnswerWhoOwns
    \/ \E q \in posted : Receive(q)
    \/ \E q \in reading : Answer(q)

WorkerStep == Register \/ Released \/ \E reply \in replies : Settle(reply)

Next ==
    \/ \E r \in Requests :
        \/ \E header \in Headers : Fetch(r, header)
        \/ Pull(r) \/ Close(r) \/ Cancel(r)
    \/ PageStep \/ WorkerStep \/ RecoverTimeout
    \/ Release \/ Die

Spec == Init /\ [][Next]_vars

\* Messages between the page and a running worker are delivered, timers fire
\* and a read the page makes ends.  That the element goes on pulling is not owed.
FairSpec ==
    /\ Spec
    /\ WF_vars(PageStep) /\ WF_vars(WorkerStep) /\ WF_vars(RecoverTimeout)

-----------------------------------------------------------------------------

\* The worker's tables agree with its responses: each response that waits is
\* waited for under one id, and ids are below the next.
TypeOK ==
    /\ registered \in 0..channel /\ recovering \in BOOLEAN /\ timers \in Nat /\ asked \in Nat
    /\ kept \subseteq Chunks
    /\ \A w \in waiting : w.reqId < nextReqId /\ w.port \in 1..channel
    /\ \A r \in Requests : response[r].pc = "waiting" =>
        Cardinality({w \in waiting : w.r = r}) = 1

\* Within one life of the worker, however the page's answers overtake one
\* another and whatever was dropped by seeking, each read gets its own bytes.
AnswersMeetTheirReads ==
    \A d \in delivered : d.asked = d.served => d.offset = d.at

\* "Every fourth chunk is then never stored ... and the file never becomes
\* servable no matter how long it plays" (range.ts, body): what was streamed to
\* the end of its window leaves every chunk wholly inside it kept.
PlayedIsKept ==
    \A r \in Requests :
        /\ response[r].pc = "closed" /\ response[r].offset > response[r].end
        /\ \A d \in delivered : d.r = r => d.asked = d.served
        => WholeChunks(response[r].start, response[r].end) \subseteq kept

\* "A fetch that never settles would hang the element instead of failing it"
\* (service-worker, recover): every request is answered.
RequestsAreAnswered ==
    \A r \in Requests : response[r].pc = "recovering" ~> response[r].pc # "recovering"

\* "A promise that never settles would hold its ReadableStream open forever"
\* (service-worker, release): a read made through the registration of the
\* moment is answered, though the page release the stream meanwhile.
ReadsAreAnswered ==
    \A r \in Requests :
        response[r].pc = "waiting" /\ response[r].port = registered ~> response[r].pc # "waiting"

\* The worker answers each read with its own bytes and, played through, the
\* page has kept the file.
StreamsAreTrue == TypeOK /\ AnswersMeetTheirReads /\ PlayedIsKept

\* Neither a request nor a read of a response hangs the element.
NothingHangs == RequestsAreAnswered /\ ReadsAreAnswered
=============================================================================
