------------------------------ MODULE Sources ------------------------------
(***************************************************************************)
(* The reads of one mount: agent-share/src/mount/sources.rs.               *)
(*                                                                         *)
(* A read tries content-addressed chunks first, keeps what it fetched and  *)
(* hands it to the mount's own seeder; failing that it asks for a range of *)
(* bytes, from the origin or the peer that answered last, then from any    *)
(* peer whose card vouches for the slot.  Reads run concurrently and share *)
(* the row cache, the store, the strikes, the active source and the        *)
(* seeder; every step below ends where the code awaits or drops a lock.    *)
(***************************************************************************)
EXTENDS Seeder, Serving, Sequences, FiniteSetsExt

CONSTANTS
    Readers,     \* reads that may be in flight at once
    Peers,       \* the other seeders on the share's mesh
    PeerTree,    \* PeerTree[p]: "ours", or another tree
    PeerHolds,   \* PeerHolds[p]: the slots p's card lists, all of them whole
    MaxStrikes,  \* MAX_STRIKES
    Leavers,     \* peers that may go away, their cards left behind
    Editable,    \* slots whose file the user may change or add
    Initial,     \* slots listed when the mount attached
    MaxContent,  \* bound: contents a slot goes through
    MaxOutages,  \* bound: times the origin goes away
    StoreFails   \* whether keeping a chunk may fail

ASSUME SourcesAssumption ==
    /\ PeerTree \in [Peers -> {"ours", "other"}]
    /\ PeerHolds \in [Peers -> SUBSET Initial] /\ Leavers \subseteq Peers
    /\ Slots \subseteq Nat /\ Initial \subseteq Slots /\ Editable \subseteq Slots
    /\ Parts \subseteq Nat /\ Parts # {} /\ IsFiniteSet(Peers)
    /\ MaxStrikes \in Nat \ {0} /\ MaxContent \in Nat \ {0} /\ MaxOutages \in Nat
    /\ StoreFails \in BOOLEAN

VARIABLES
    content,  \* content[s]: what the origin's file at slot s holds, 0 for none
    up,       \* the origin answers
    outages,
    gone,     \* the peers that went away
    listed,   \* listed[s]: the content the mounted tree shows, by the watch
    rows,     \* SourceSet.rows
    store,    \* SourceSet.store: the chunks kept
    active,   \* SourceSet.active
    strikes,  \* SourceSet.strikes, counted up to MaxStrikes
    seeder,   \* SourceSet.seeder
    serving,  \* the serving field of this mount's own card
    reads     \* reads[r]: where each read is

envVars == <<content, up, outages, gone, listed>>
setVars == <<rows, store, active, strikes, seeder, serving>>
vars == <<envVars, setVars, reads>>

Foreign == MaxContent + 1  \* bytes of another tree

Idle == [pc |-> "idle", slot |-> 0, first |-> "origin", row |-> 0,
         left |-> {}, fetched |-> FALSE, known |-> NoRows, queue |-> << >>, got |-> {}]

\* The tree this mount attached to: what its fingerprint and the envelope it
\* serves stand for.
Attached == [s \in Slots |-> IF s \in Initial THEN 1 ELSE 0]
TotalSlots == Cardinality(Initial)

Init ==
    /\ content = Attached /\ listed = Attached
    /\ up = TRUE /\ outages = 0 /\ gone = {}
    /\ rows = NoRows /\ store = {}
    /\ active = "origin" /\ strikes = [p \in Peers |-> 0]
    /\ seeder = NewSeeder /\ serving = NoField
    /\ reads = [r \in Readers |-> Idle]

\* The user changes a file, or adds one.
Edit(s) ==
    /\ content[s] < MaxContent
    /\ content' = [content EXCEPT ![s] = @ + 1]
    /\ UNCHANGED <<up, outages, gone, listed, setVars, reads>>

OriginFails ==
    /\ up /\ outages < MaxOutages
    /\ up' = FALSE /\ outages' = outages + 1
    /\ UNCHANGED <<content, gone, listed, setVars, reads>>

OriginReturns ==
    /\ ~up /\ up' = TRUE
    /\ UNCHANGED <<content, outages, gone, listed, setVars, reads>>

PeerLeaves(p) ==
    /\ p \in Leavers \ gone
    /\ gone' = gone \cup {p}
    /\ UNCHANGED <<content, up, outages, listed, setVars, reads>>

\* watch_tree rebuilds the mounted tree; the SourceSet is not told.
FollowTree ==
    /\ up /\ listed # content
    /\ listed' = content
    /\ UNCHANGED <<content, up, outages, gone, setVars, reads>>

\* spawn_serving_updates, every five seconds.
PublishServing ==
    /\ serving' = EncodeServing(CompleteSlots(seeder, store), TotalSlots)
    /\ serving' # serving
    /\ UNCHANGED <<envVars, rows, store, active, strikes, seeder, reads>>

-----------------------------------------------------------------------------

\* Mutant: any card that lists the slot vouches for it, whatever its tree.
VouchesAnyTree(p, s) == s \in DecodeServing(EncodeServing(PeerHolds[p], TotalSlots), TotalSlots)

\* vouches: guard #1, then the slot.
Vouches(p, s) ==
    /\ PeerTree[p] = "ours"
    /\ s \in DecodeServing(EncodeServing(PeerHolds[p], TotalSlots), TotalSlots)

Candidates(s) == {p \in Peers : strikes[p] < MaxStrikes /\ Vouches(p, s)}

\* candidates(): in some order; the code's is by transport, then endpoint.
CandidateList(s, list) ==
    /\ Len(list) = Cardinality(Candidates(s))
    /\ Candidates(s) = {list[i] : i \in DOMAIN list}

\* What a peer serves: the content its own tree gives the slot.
PeerContent(p, s) == IF PeerTree[p] = "ours" THEN Attached[s] ELSE Foreign
PeerAnswers(p, s) == p \notin gone /\ s \in PeerHolds[p]

Go(r, change) == reads' = [reads EXCEPT ![r] = change]

Done(r, got) == Go(r, [reads[r] EXCEPT !.pc = "done", !.got = got])
Failed(r) == Go(r, [reads[r] EXCEPT !.pc = "failed", !.got = {}])

Begin(r) ==
    /\ reads[r].pc = "idle"
    /\ \E s \in Slots : listed[s] # 0 /\
        Go(r, [Idle EXCEPT !.pc = "row", !.slot = s, !.first = active])
    /\ UNCHANGED <<envVars, setVars>>

\* row_for: the cached row, however old, before the wire.
LookUpRow(r) ==
    /\ reads[r].pc = "row"
    /\ LET known == rows[reads[r].slot]
       IN  Go(r, IF known # 0
                 THEN [reads[r] EXCEPT !.pc = "chunks", !.row = known, !.left = Parts]
                 ELSE [reads[r] EXCEPT !.pc = "ask"])
    /\ UNCHANGED <<envVars, setVars>>

AskRow(r) ==
    /\ reads[r].pc = "ask"
    /\ LET row == content[reads[r].slot]
       IN  Go(r, IF up /\ row # 0
                 THEN [reads[r] EXCEPT !.pc = "keep", !.row = row]
                 ELSE [reads[r] EXCEPT !.pc = "ranged"])
    /\ UNCHANGED <<envVars, setVars>>

KeepRow(r) ==
    /\ reads[r].pc = "keep"
    /\ rows' = [rows EXCEPT ![reads[r].slot] = reads[r].row]
    /\ Go(r, [reads[r] EXCEPT !.pc = "chunks", !.left = Parts])
    /\ UNCHANGED <<envVars, store, active, strikes, seeder, serving>>

Address(r, k) == <<reads[r].slot, reads[r].row, k>>

\* Whoever can answer for an address: the origin while its file still has that
\* content, or a candidate that holds it.
ChunkIsServed(r) ==
    \/ up /\ content[reads[r].slot] = reads[r].row
    \/ \E p \in Candidates(reads[r].slot) :
          PeerAnswers(p, reads[r].slot) /\ PeerContent(p, reads[r].slot) = reads[r].row

AfterPart(read, k, fetched) ==
    LET next == [read EXCEPT !.left = @ \ {k}, !.got = @ \cup {read.row},
                             !.fetched = @ \/ fetched]
    IN  IF next.left # {} THEN next
        ELSE [next EXCEPT !.pc = IF next.fetched THEN "adopt" ELSE "done"]

\* One turn of read_chunks: the store, else the wire, then kept and counted as
\* fetched even when keeping it failed.
ReadChunk(r) ==
    /\ reads[r].pc = "chunks"
    /\ LET k == Min(reads[r].left)
       IN  \/ /\ Address(r, k) \in store
              /\ Go(r, AfterPart(reads[r], k, FALSE))
              /\ UNCHANGED store
           \/ /\ Address(r, k) \notin store /\ ChunkIsServed(r)
              /\ Go(r, AfterPart(reads[r], k, TRUE))
              /\ \/ store' = store \cup {Address(r, k)}
                 \/ StoreFails /\ UNCHANGED store
           \/ /\ Address(r, k) \notin store /\ ~ChunkIsServed(r)
              /\ Go(r, [reads[r] EXCEPT !.pc = "ranged", !.got = {}])
              /\ UNCHANGED store
    /\ UNCHANGED <<envVars, rows, active, strikes, seeder, serving>>

\* Mutant: the row is handed over only when it arms the seeder.
AdoptOnlyFirst(r) ==
    /\ reads[r].pc = "adopt"
    /\ IF seeder.armed
       THEN Go(r, [reads[r] EXCEPT !.pc = "done"])
       ELSE Go(r, [reads[r] EXCEPT !.pc = "arm", !.known = rows])
    /\ UNCHANGED <<envVars, setVars>>

\* adopt_into_seeder: an armed seeder takes the row; an empty one is given every
\* row known, copied out of the cache before the seeder's lock is taken.
Adopt(r) ==
    /\ reads[r].pc = "adopt"
    /\ IF seeder.armed
       THEN /\ seeder' = AdoptRow(seeder, reads[r].slot, reads[r].row)
            /\ Go(r, [reads[r] EXCEPT !.pc = "done"])
       ELSE /\ Go(r, [reads[r] EXCEPT !.pc = "arm", !.known = rows])
            /\ UNCHANGED seeder
    /\ UNCHANGED <<envVars, rows, store, active, strikes, serving>>

Arm(r) ==
    /\ reads[r].pc = "arm"
    /\ seeder' = Update(seeder, reads[r].known)
    /\ Go(r, [reads[r] EXCEPT !.pc = "done", !.known = NoRows])
    /\ UNCHANGED <<envVars, rows, store, active, strikes, serving>>

-----------------------------------------------------------------------------

Strike(p) == strikes' = [strikes EXCEPT ![p] = IF @ < MaxStrikes THEN @ + 1 ELSE @]

OriginAnswers(s) == up /\ content[s] # 0

\* The fallback, from the source that was active when the read began.
ReadRanged(r) ==
    /\ reads[r].pc = "ranged"
    /\ LET s == reads[r].slot
           p == reads[r].first
       IN  \/ /\ p = "origin" /\ OriginAnswers(s)
              /\ Done(r, {content[s]})
              /\ UNCHANGED strikes
           \/ /\ p = "origin" /\ ~OriginAnswers(s)
              /\ \E list \in [1..Cardinality(Candidates(s)) -> Candidates(s)] :
                    /\ CandidateList(s, list)
                    /\ Go(r, [reads[r] EXCEPT !.pc = "peers", !.queue = list])
              /\ UNCHANGED strikes
           \/ /\ p # "origin" /\ PeerAnswers(p, s)
              /\ Done(r, {PeerContent(p, s)})
              /\ UNCHANGED strikes
           \/ /\ p # "origin" /\ ~PeerAnswers(p, s)
              /\ Strike(p)
              /\ Go(r, [reads[r] EXCEPT !.pc = "retry"])
    /\ UNCHANGED <<envVars, rows, store, active, seeder, serving>>

\* The origin is retried before the rest of the peers.
RetryOrigin(r) ==
    /\ reads[r].pc = "retry"
    /\ LET s == reads[r].slot
       IN  \/ /\ OriginAnswers(s)
              /\ active' = "origin"
              /\ Done(r, {content[s]})
           \/ /\ ~OriginAnswers(s)
              /\ \E list \in [1..Cardinality(Candidates(s)) -> Candidates(s)] :
                    /\ CandidateList(s, list)
                    /\ Go(r, [reads[r] EXCEPT !.pc = "peers", !.queue = list])
              /\ UNCHANGED active
    /\ UNCHANGED <<envVars, rows, store, strikes, seeder, serving>>

\* Mutant: a peer that failed is asked again.
AskPeerAgain(r) ==
    /\ reads[r].pc = "peers"
    /\ LET s == reads[r].slot
           p == Head(reads[r].queue)
       IN  \/ reads[r].queue = << >> /\ Failed(r) /\ UNCHANGED <<active, strikes>>
           \/ /\ reads[r].queue # << >> /\ PeerAnswers(p, s)
              /\ active' = p
              /\ Done(r, {PeerContent(p, s)})
              /\ UNCHANGED strikes
           \/ /\ reads[r].queue # << >> /\ ~PeerAnswers(p, s)
              /\ Strike(p)
              /\ UNCHANGED <<active, reads>>
    /\ UNCHANGED <<envVars, rows, store, seeder, serving>>

\* read_from_peers: the first that answers becomes the active source.
AskPeer(r) ==
    /\ reads[r].pc = "peers"
    /\ LET s == reads[r].slot
           p == Head(reads[r].queue)
       IN  \/ reads[r].queue = << >> /\ Failed(r) /\ UNCHANGED <<active, strikes>>
           \/ /\ reads[r].queue # << >> /\ PeerAnswers(p, s)
              /\ active' = p
              /\ Done(r, {PeerContent(p, s)})
              /\ UNCHANGED strikes
           \/ /\ reads[r].queue # << >> /\ ~PeerAnswers(p, s)
              /\ Strike(p)
              /\ Go(r, [reads[r] EXCEPT !.queue = Tail(@)])
              /\ UNCHANGED active
    /\ UNCHANGED <<envVars, rows, store, seeder, serving>>

Return(r) ==
    /\ reads[r].pc \in {"done", "failed"}
    /\ Go(r, Idle)
    /\ UNCHANGED <<envVars, setVars>>

-----------------------------------------------------------------------------

Step(r) ==
    \/ LookUpRow(r) \/ AskRow(r) \/ KeepRow(r) \/ ReadChunk(r) \/ Adopt(r) \/ Arm(r)
    \/ ReadRanged(r) \/ RetryOrigin(r) \/ AskPeer(r) \/ Return(r)

Next ==
    \/ \E s \in Editable : Edit(s)
    \/ \E p \in Leavers : PeerLeaves(p)
    \/ OriginFails \/ OriginReturns \/ FollowTree \/ PublishServing
    \/ \E r \in Readers : Begin(r) \/ Step(r)

Spec == Init /\ [][Next]_vars

\* Every call a read makes is answered or times out.
FairSpec == Spec /\ \A r \in Readers : WF_vars(Step(r))

-----------------------------------------------------------------------------

\* The shared state is what sources.rs declares: a chunk is kept only for a row
\* the mount learned, and only a peer on the mount's own tree becomes active.
TypeOK ==
    /\ rows \in [Slots -> 0..MaxContent]
    /\ \A s \in Slots : rows[s] <= content[s]
    /\ \A a \in store : a[1] \in Slots /\ a[2] \in 1..content[a[1]] /\ a[3] \in Parts
    /\ active = "origin" \/ (active \in Peers /\ PeerTree[active] = "ours")
    /\ strikes \in [Peers -> 0..MaxStrikes]
    /\ \A r \in Readers :
          reads[r].left \subseteq Parts /\ (reads[r].pc # "idle" => reads[r].slot \in Slots)

\* A read returns one content of its file, one the origin gave that slot: parts
\* fetched from different sources, around an edit or an outage, never mix, and
\* another tree's bytes never come in.
ReadsAreWhole ==
    \A r \in Readers : reads[r].pc = "done" =>
        \E c \in 1..content[reads[r].slot] : reads[r].got = {c}

\* Every slot this mount's card lists can be read from it, whole: "Listing it
\* would send readers to bytes that are not there" (sources.rs, serving).
AdvertisedSlotsAreServable ==
    \A s \in DecodeServing(serving, TotalSlots) : CanRead(seeder, store, s)

Quiet == \A r \in Readers : reads[r].pc = "idle"

\* "The read is what makes this peer a seeder" (sources.rs): once no read is in
\* flight, a file whose chunks were all kept can be read from this mount.
ReadSlotsAreSeeded ==
    Quiet => \A s \in Slots :
        rows[s] # 0 /\ Leaves(s, rows[s]) \subseteq store => CanRead(seeder, store, s)

\* Every read ends, whatever fails meanwhile.
ReadsEnd == \A r \in Readers : (reads[r].pc # "idle") ~> (reads[r].pc = "idle")

\* What reads share stays well formed, and what they return is one content.
ReadsAreSound == TypeOK /\ ReadsAreWhole
=============================================================================
