---------------------------- MODULE ReadsProofs ----------------------------
(***************************************************************************)
(* Theorems of the reads of a mount: of Sources and Serving, which peer    *)
(* answers and what, and of Mounted, the requests and the kernel above.    *)
(*                                                                         *)
(* Of Sources and Serving, for every set of reads, every finite set of     *)
(* peers, any slots and parts, and every limit: a read returns one content *)
(* its file really had, and a serving field that is published lists        *)
(* exactly what its peer holds.                                            *)
(*                                                                         *)
(* Of Mounted, for any paths, frames, page size, file and read size and    *)
(* any number of lost connections: the loop of reads and the requests      *)
(* below it, and what the kernel is shown of the manifest through fileids  *)
(* it keeps across rebuilds.                                               *)
(***************************************************************************)
EXTENDS MCSources, Mounted, TLAPS, FiniteSetTheorems, SequenceTheorems, WellFoundedInduction

\* The peers on this mount's own tree, and what a read may come from.
Ours == {p \in Peers : PeerTree[p] = "ours"}
Origins == {"origin"} \cup Ours

ReadState ==
    [pc : {"idle", "row", "ask", "keep", "chunks", "adopt", "arm",
           "ranged", "retry", "peers", "done", "failed"},
     slot : Slots \cup {0}, first : Origins, row : 0..MaxContent,
     left : SUBSET Parts, fetched : BOOLEAN, known : [Slots -> 0..MaxContent],
     queue : Seq(Ours), got : SUBSET (0..MaxContent)]

Types ==
    /\ content \in [Slots -> 0..MaxContent]
    /\ rows \in [Slots -> 0..MaxContent]
    /\ active \in Origins
    /\ strikes \in [Peers -> 0..MaxStrikes]
    /\ reads \in [Readers -> ReadState]

\* A file never loses the content it had when the mount attached: every content
\* from there to the one it holds now was the origin's.
ContentsGrow == \A s \in Slots : Attached[s] <= content[s]

\* What the mount learned is what the origin had once.
RowsWereReal ==
    /\ \A s \in Slots : rows[s] <= content[s]
    /\ \A a \in store : a[1] \in Slots /\ a[2] \in 1..content[a[1]] /\ a[3] \in Parts

\* What one read got so far, by where it is.
GotSoFar(read) ==
    /\ read.pc # "idle" => read.slot \in Slots
    /\ read.pc \in {"row", "ask", "keep"} => read.got = {}
    /\ read.pc \in {"keep", "chunks", "adopt", "arm"} => read.row \in 1..content[read.slot]
    /\ read.pc = "chunks" => read.left # {} /\ read.got \subseteq {read.row}
    /\ read.pc \in {"adopt", "arm"} => read.got = {read.row}
    /\ read.pc = "done" => \E c \in 1..content[read.slot] : read.got = {c}

ReadsAreOneContent == \A r \in Readers : GotSoFar(reads[r])

SourcesInv == Types /\ ContentsGrow /\ RowsWereReal /\ ReadsAreOneContent

\* Where a read may go next.
MovesWell(r) == \E step \in ReadState : GotSoFar(step) /\ Go(r, step)

-----------------------------------------------------------------------------

\* A step of one read, while the files stand still, keeps every read in order.
LEMMA ReadMoves ==
    ASSUME SourcesInv, NEW r \in Readers, MovesWell(r), UNCHANGED content
    PROVE  reads' \in [Readers -> ReadState] /\ ReadsAreOneContent'
<1>1. PICK step \in ReadState : GotSoFar(step) /\ reads' = [reads EXCEPT ![r] = step]
  BY DEF MovesWell, Go
<1>2. reads' \in [Readers -> ReadState]
  BY <1>1 DEF SourcesInv, Types
<1>3. \A q \in Readers : GotSoFar(reads'[q])
  BY <1>1 DEF SourcesInv, Types, ReadsAreOneContent
<1>4. ASSUME NEW q \in Readers  PROVE GotSoFar(reads[q])'
  BY <1>3, <1>4 DEF GotSoFar
<1>5. QED
  BY <1>2, <1>4 DEF ReadsAreOneContent

\* A file that is changed or added keeps what was read of it one of its contents.
LEMMA EditStep ==
    ASSUME SourcesInv, NEW s \in Slots, Edit(s)
    PROVE  SourcesInv'
<1>1. content \in [Slots -> 0..MaxContent] /\ MaxContent \in Nat
  BY SourcesAssumption DEF SourcesInv, Types
<1>2. /\ content' = [content EXCEPT ![s] = content[s] + 1] /\ content[s] < MaxContent
      /\ UNCHANGED <<rows, store, active, strikes, reads>>
  BY DEF Edit, setVars
<1>3. content' \in [Slots -> 0..MaxContent] /\ \A t \in Slots : content[t] <= content'[t]
  BY <1>1, <1>2
<1>4. \A t \in Slots : content[t] \in Nat /\ content'[t] \in Nat
  BY <1>1, <1>3
<1>5. \A t \in Slots : 1..content[t] \subseteq 1..content'[t]
  BY <1>3, <1>4
<1>6. Types'
  BY <1>2, <1>3 DEF SourcesInv, Types
<1>7. ContentsGrow'
  BY <1>3, <1>4 DEF SourcesInv, ContentsGrow, Attached
<1>8. RowsWereReal'
  <2>1. \A t \in Slots : rows[t] \in Nat /\ rows[t] <= content[t]
    BY DEF SourcesInv, Types, RowsWereReal
  <2>2. \A t \in Slots : rows'[t] <= content'[t]
    BY <1>2, <1>3, <1>4, <2>1
  <2>3. \A a \in store' : a[1] \in Slots /\ a[2] \in 1..content'[a[1]] /\ a[3] \in Parts
    BY <1>2, <1>5 DEF SourcesInv, RowsWereReal
  <2>4. QED
    BY <2>2, <2>3 DEF RowsWereReal
<1>9. ReadsAreOneContent'
  <2> SUFFICES ASSUME NEW r \in Readers  PROVE GotSoFar(reads[r])'
    BY DEF ReadsAreOneContent
  <2>1. GotSoFar(reads[r]) /\ reads' = reads
    BY <1>2 DEF SourcesInv, ReadsAreOneContent
  <2>2. QED
    BY <1>5, <2>1 DEF GotSoFar
<1>10. QED
  BY <1>6, <1>7, <1>8, <1>9 DEF SourcesInv

\* The conjuncts that are about the files and the shared state alone.
SharedInv ==
    /\ rows \in [Slots -> 0..MaxContent] /\ active \in Origins
    /\ strikes \in [Peers -> 0..MaxStrikes] /\ RowsWereReal

\* A step of a read that leaves the files alone is sound when the shared state
\* stays so and the read moves well.
LEMMA ReadStep ==
    ASSUME SourcesInv, NEW r \in Readers, MovesWell(r), UNCHANGED content, SharedInv'
    PROVE  SourcesInv'
<1>1. reads' \in [Readers -> ReadState] /\ ReadsAreOneContent'
  BY ReadMoves
<1>2. ContentsGrow'
  BY DEF SourcesInv, ContentsGrow, Attached
<1>3. content' \in [Slots -> 0..MaxContent]
  BY DEF SourcesInv, Types
<1>4. QED
  BY <1>1, <1>2, <1>3 DEF SourcesInv, SharedInv, Types

\* What a step does not touch stays sound.
LEMMA SharedIsKept ==
    ASSUME SourcesInv, UNCHANGED <<content, rows, store, active, strikes>>
    PROVE  SharedInv'
BY DEF SourcesInv, Types, SharedInv, RowsWereReal

\* What is known of a read, with its fields apart.
LEMMA ReadsAreTyped ==
    ASSUME SourcesInv, NEW r \in Readers
    PROVE  /\ reads[r] \in ReadState /\ GotSoFar(reads[r])
           /\ \A s \in Slots : content[s] \in Nat /\ content[s] <= MaxContent /\ Attached[s] <= content[s]
           /\ \A s \in Slots : rows[s] \in Nat /\ rows[s] <= content[s]
           /\ MaxContent \in Nat /\ 0 \in 0..MaxContent
<1>1. MaxContent \in Nat /\ 0 \in 0..MaxContent
  BY SourcesAssumption
<1>2. QED
  BY <1>1 DEF SourcesInv, Types, ContentsGrow, RowsWereReal, ReadsAreOneContent

\* The answer that ends a read is one content its file has had.
LEMMA DoneWell ==
    ASSUME SourcesInv, NEW r \in Readers, reads[r].pc # "idle",
           NEW c \in 1..content[reads[r].slot], Done(r, {c})
    PROVE  MovesWell(r)
<1> DEFINE step == [reads[r] EXCEPT !.pc = "done", !.got = {c}]
<1>1. reads[r] \in ReadState /\ reads[r].slot \in Slots
  BY ReadsAreTyped DEF GotSoFar
<1>2. {c} \in SUBSET (0..MaxContent)
  BY <1>1, ReadsAreTyped
<1>3. step \in ReadState /\ step.pc = "done" /\ step.got = {c} /\ step.slot = reads[r].slot
  BY <1>1, <1>2 DEF ReadState
<1>4. GotSoFar(step)
  <2> HIDE DEF step
  <2> QED  BY <1>1, <1>3 DEF GotSoFar
<1>5. Go(r, step)
  BY DEF Done
<1> HIDE DEF step
<1>6. QED
  BY <1>3, <1>4, <1>5 DEF MovesWell

\* A read that only changes where it is.
LEMMA AsideWell ==
    ASSUME SourcesInv, NEW r \in Readers, NEW step \in ReadState, Go(r, step),
           step.pc \in {"ranged", "retry", "peers", "failed"}, step.slot = reads[r].slot,
           reads[r].pc # "idle"
    PROVE  MovesWell(r)
<1>1. reads[r].slot \in Slots
  BY ReadsAreTyped DEF GotSoFar
<1>2. GotSoFar(step)
  BY <1>1 DEF GotSoFar
<1>3. QED
  BY <1>2 DEF MovesWell

\* A peer on the mount's own tree that answers for a slot serves the content
\* the mount attached to, which the file had.
LEMMA PeersServeTheTree ==
    ASSUME SourcesInv, NEW p \in Ours, NEW s \in Slots, PeerAnswers(p, s)
    PROVE  PeerContent(p, s) \in 1..content[s]
<1>1. s \in Initial
  BY SourcesAssumption DEF PeerAnswers, Ours
<1>2. Attached[s] = 1 /\ PeerContent(p, s) = 1
  BY <1>1 DEF Attached, PeerContent, Ours
<1>3. content[s] \in Nat /\ 1 <= content[s]
  BY <1>2, SourcesAssumption DEF SourcesInv, Types, ContentsGrow
<1>4. QED
  BY <1>2, <1>3

\* Only peers on the mount's own tree are queued.
LEMMA QueuesAreOurs ==
    ASSUME NEW s, NEW list \in [1..Cardinality(Candidates(s)) -> Candidates(s)]
    PROVE  list \in Seq(Ours)
<1>1. Candidates(s) \subseteq Ours /\ Candidates(s) \in SUBSET Peers
  BY DEF Candidates, Vouches, Ours
<1>2. IsFiniteSet(Candidates(s))
  BY <1>1, SourcesAssumption, FS_Subset
<1>3. Cardinality(Candidates(s)) \in Nat
  BY <1>2, FS_CardinalityType
<1>4. QED
  BY <1>1, <1>3

\* Going to the peers, whichever order they are asked in.
LEMMA PeersWell ==
    ASSUME SourcesInv, NEW r \in Readers, reads[r].pc # "idle",
           NEW list \in [1..Cardinality(Candidates(reads[r].slot)) -> Candidates(reads[r].slot)],
           Go(r, [reads[r] EXCEPT !.pc = "peers", !.queue = list])
    PROVE  MovesWell(r)
<1> DEFINE step == [reads[r] EXCEPT !.pc = "peers", !.queue = list]
<1>1. reads[r] \in ReadState /\ list \in Seq(Ours)
  BY ReadsAreTyped, QueuesAreOurs
<1>2. step \in ReadState /\ step.pc = "peers" /\ step.slot = reads[r].slot
  BY <1>1 DEF ReadState
<1>3. Go(r, step)
  OBVIOUS
<1> HIDE DEF step
<1>4. QED
  BY <1>2, <1>3, AsideWell

\* A struck peer's count stays within the limit.
LEMMA StrikesAreBounded ==
    ASSUME SourcesInv, NEW p, Strike(p)
    PROVE  strikes' \in [Peers -> 0..MaxStrikes]
<1>1. strikes \in [Peers -> 0..MaxStrikes] /\ MaxStrikes \in Nat
  BY SourcesAssumption DEF SourcesInv, Types
<1>2. strikes' = [strikes EXCEPT ![p] = IF strikes[p] < MaxStrikes THEN strikes[p] + 1 ELSE strikes[p]]
  BY DEF Strike
<1>3. p \in Peers => (IF strikes[p] < MaxStrikes THEN strikes[p] + 1 ELSE strikes[p]) \in 0..MaxStrikes
  BY <1>1
<1>4. QED
  BY <1>1, <1>2, <1>3

-----------------------------------------------------------------------------

\* The shared state when only the active source and the strikes may change.
LEMMA SourcesChange ==
    ASSUME SourcesInv, UNCHANGED <<content, rows, store>>,
           active' \in Origins, strikes' \in [Peers -> 0..MaxStrikes]
    PROVE  SharedInv'
BY DEF SourcesInv, Types, SharedInv, RowsWereReal

\* The set of parts still to be read has a least one.
LEMMA LeastOfNaturals ==
    ASSUME NEW S, S \subseteq Nat, S # {}
    PROVE  \E n \in S : \A m \in S : n <= m
<1>1. PICK n \in S : \A m \in S : ~ (<<m, n>> \in OpToRel(<, Nat))
  BY NatLessThanWellFounded, WFMin
<1>2. \A m \in S : ~ (m < n)
  BY <1>1 DEF OpToRel
<1>3. QED
  BY <1>2

(* The least of some parts is one of them. *)
LEMMA MinOfParts ==
    ASSUME NEW parts, parts \subseteq Parts, parts # {}
    PROVE  Min(parts) \in parts
<1>1. parts \subseteq Nat
  BY SourcesAssumption
<1>2. \E k \in parts : \A j \in parts : k <= j
  BY <1>1, LeastOfNaturals
<1>3. QED
  BY <1>2 DEF Min

\* What a part more makes of a read.
LEMMA AfterPartIs ==
    ASSUME NEW read \in ReadState, read.row \in 0..MaxContent, NEW k, NEW fetched \in BOOLEAN
    PROVE  /\ AfterPart(read, k, fetched) \in ReadState
           /\ AfterPart(read, k, fetched).slot = read.slot
           /\ AfterPart(read, k, fetched).row = read.row
           /\ AfterPart(read, k, fetched).got = read.got \cup {read.row}
           /\ AfterPart(read, k, fetched).fetched <=> (read.fetched \/ fetched)
           /\ \/ /\ AfterPart(read, k, fetched).left # {}
                 /\ AfterPart(read, k, fetched).pc = read.pc
              \/ AfterPart(read, k, fetched).pc = "adopt"
              \/ AfterPart(read, k, fetched).pc = "done" /\ ~read.fetched /\ ~fetched
<1> DEFINE both == read.fetched \/ fetched
           more == read.got \cup {read.row}
           rest == read.left \ {k}
           next == [read EXCEPT !.left = rest, !.got = more, !.fetched = both]
           end == IF next.fetched THEN "adopt" ELSE "done"
           over == [next EXCEPT !.pc = end]
           step == AfterPart(read, k, fetched)
<1>1. more \in SUBSET (0..MaxContent) /\ both \in BOOLEAN /\ rest \in SUBSET Parts
  BY DEF ReadState
<1>2. both <=> (read.fetched \/ fetched)
  OBVIOUS
<1>3. next.fetched = both
  <2> HIDE DEF both, more, rest
  <2> QED  BY <1>1 DEF ReadState
<1>4. end \in {"adopt", "done"} /\ (end = "done" => ~both)
  <2> HIDE DEF next, both
  <2> QED  BY <1>3
<1> HIDE DEF both, more, rest, end
<1>5. /\ next \in ReadState /\ next.left = rest /\ next.got = more /\ next.row = read.row
      /\ next.slot = read.slot /\ next.pc = read.pc
  BY <1>1 DEF ReadState
<1> HIDE DEF next
<1>6. /\ over \in ReadState /\ over.got = more /\ over.row = read.row /\ over.slot = read.slot
      /\ over.pc = end /\ over.fetched = both
  BY <1>3, <1>4, <1>5 DEF ReadState
<1> HIDE DEF over
<1>7. step = IF next.left # {} THEN next ELSE over
  BY Zenon DEF AfterPart, next, over, end, both, more, rest
<1>8. (step = next /\ next.left # {}) \/ step = over
  <2> HIDE DEF step
  <2> QED  BY <1>7
<1>9. /\ step \in ReadState /\ step.slot = read.slot /\ step.row = read.row /\ step.got = more
      /\ step.fetched = both
      /\ (step.left # {} /\ step.pc = read.pc) \/ step.pc = end
  <2> HIDE DEF step
  <2> QED  BY <1>3, <1>5, <1>6, <1>8
<1> HIDE DEF step
<1>10. step.fetched <=> (read.fetched \/ fetched)
  BY <1>2, <1>9
<1>11. step.got = read.got \cup {read.row}
  BY <1>9 DEF more
<1>12. (step.left # {} /\ step.pc = read.pc) \/ step.pc = "adopt"
       \/ (step.pc = "done" /\ ~read.fetched /\ ~fetched)
  BY <1>2, <1>4, <1>9
<1>13. QED
  BY <1>9, <1>10, <1>11, <1>12 DEF step

\* A part more of the same content: the read goes on, or has all of it.
LEMMA PartsAddUp ==
    ASSUME SourcesInv, NEW r \in Readers, reads[r].pc = "chunks",
           NEW k, NEW fetched \in BOOLEAN, Go(r, AfterPart(reads[r], k, fetched))
    PROVE  MovesWell(r)
<1> DEFINE step == AfterPart(reads[r], k, fetched)
<1>1. /\ reads[r] \in ReadState /\ reads[r].slot \in Slots
      /\ reads[r].row \in 1..content[reads[r].slot] /\ reads[r].got \subseteq {reads[r].row}
      /\ reads[r].row \in 0..MaxContent
  BY ReadsAreTyped DEF GotSoFar, ReadState
<1>2. /\ step \in ReadState /\ step.slot = reads[r].slot /\ step.row = reads[r].row
      /\ step.got = {reads[r].row}
      /\ (step.left # {} /\ step.pc = "chunks") \/ step.pc \in {"adopt", "done"}
  BY <1>1, AfterPartIs
<1> HIDE DEF step
<1>3. GotSoFar(step)
  BY <1>1, <1>2 DEF GotSoFar
<1>4. QED
  BY <1>2, <1>3 DEF MovesWell, step

-----------------------------------------------------------------------------

\* The steps that find the row and the chunks.
LEMMA ChunkSteps ==
    ASSUME SourcesInv, NEW r \in Readers,
           Begin(r) \/ LookUpRow(r) \/ AskRow(r) \/ KeepRow(r) \/ ReadChunk(r)
    PROVE  SourcesInv'
<1>1. /\ reads[r] \in ReadState /\ GotSoFar(reads[r])
      /\ \A s \in Slots : content[s] \in Nat /\ content[s] <= MaxContent
      /\ \A s \in Slots : rows[s] \in Nat /\ rows[s] <= content[s]
      /\ MaxContent \in Nat /\ 0 \in 0..MaxContent
  BY ReadsAreTyped
<1>2. CASE Begin(r)
  <2>1. PICK s \in Slots : Go(r, [Idle EXCEPT !.pc = "row", !.slot = s, !.first = active])
    BY <1>2 DEF Begin
  <2> DEFINE step == [Idle EXCEPT !.pc = "row", !.slot = s, !.first = active]
  <2>2. /\ << >> \in Seq(Ours) /\ active \in Origins /\ NoRows \in [Slots -> 0..MaxContent]
        /\ {} \in SUBSET Parts /\ {} \in SUBSET (0..MaxContent)
    BY <1>1 DEF SourcesInv, Types, NoRows
  <2>3. Idle \in ReadState /\ Idle.got = {}
    BY <1>1, <2>2 DEF Idle, ReadState, Origins
  <2>4. step \in ReadState
    BY <2>2, <2>3 DEF ReadState
  <2>5. step.pc = "row" /\ step.got = {} /\ step.slot = s
    BY <2>3 DEF ReadState
  <2> HIDE DEF step
  <2>6. GotSoFar(step)
    BY <2>5 DEF GotSoFar
  <2>7. MovesWell(r)
    BY <2>1, <2>4, <2>6 DEF MovesWell, step
  <2>8. UNCHANGED <<content, rows, store, active, strikes>>
    BY <1>2 DEF Begin, envVars, setVars
  <2>9. QED
    BY <2>7, <2>8, SharedIsKept, ReadStep
<1>3. CASE LookUpRow(r)
  <2> DEFINE known == rows[reads[r].slot]
             found == [reads[r] EXCEPT !.pc = "chunks", !.row = known, !.left = Parts]
             none == [reads[r] EXCEPT !.pc = "ask"]
  <2>1. reads[r].pc = "row" /\ reads[r].slot \in Slots /\ reads[r].got = {}
    BY <1>1, <1>3 DEF LookUpRow, GotSoFar
  <2>2. known \in 0..content[reads[r].slot] /\ known \in 0..MaxContent
    BY <1>1, <2>1
  <2>3. Go(r, IF known # 0 THEN found ELSE none) /\ UNCHANGED <<content, rows, store, active, strikes>>
    BY <1>3 DEF LookUpRow, envVars, setVars
  <2> HIDE DEF known
  <2>4. /\ none \in ReadState /\ none.pc = "ask" /\ none.slot = reads[r].slot /\ none.got = {}
        /\ found \in ReadState /\ found.pc = "chunks" /\ found.slot = reads[r].slot
        /\ found.got = {} /\ found.left = Parts /\ found.row = known
    BY <1>1, <2>1, <2>2 DEF ReadState
  <2> HIDE DEF found, none
  <2>5. GotSoFar(none)
    BY <2>1, <2>4 DEF GotSoFar
  <2>6. known # 0 => GotSoFar(found)
    <3>1. known # 0 => known \in 1..content[reads[r].slot]
      BY <1>1, <2>1, <2>2
    <3>2. QED
      BY <2>1, <2>4, <3>1, SourcesAssumption DEF GotSoFar
  <2>7. MovesWell(r)
    BY <2>3, <2>4, <2>5, <2>6 DEF MovesWell
  <2>8. QED
    BY <2>3, <2>7, SharedIsKept, ReadStep
<1>4. CASE AskRow(r)
  <2> DEFINE row == content[reads[r].slot]
             told == [reads[r] EXCEPT !.pc = "keep", !.row = row]
             untold == [reads[r] EXCEPT !.pc = "ranged"]
  <2>1. reads[r].pc = "ask" /\ reads[r].slot \in Slots /\ reads[r].got = {}
    BY <1>1, <1>4 DEF AskRow, GotSoFar
  <2>2. row \in 0..MaxContent /\ row = content[reads[r].slot]
    BY <1>1, <2>1
  <2>3. /\ Go(r, IF up /\ row # 0 THEN told ELSE untold)
        /\ UNCHANGED <<content, rows, store, active, strikes>>
    BY <1>4 DEF AskRow, envVars, setVars
  <2> HIDE DEF row
  <2>4. /\ untold \in ReadState /\ untold.pc = "ranged" /\ untold.slot = reads[r].slot
        /\ told \in ReadState /\ told.pc = "keep" /\ told.slot = reads[r].slot
        /\ told.got = {} /\ told.row = row
    BY <1>1, <2>1, <2>2 DEF ReadState
  <2> HIDE DEF told, untold
  <2>5. GotSoFar(untold)
    BY <2>1, <2>4 DEF GotSoFar
  <2>6. row # 0 => GotSoFar(told)
    <3>1. row # 0 => row \in 1..content[reads[r].slot]
      BY <1>1, <2>1, <2>2
    <3>2. QED
      BY <2>1, <2>4, <3>1 DEF GotSoFar
  <2>7. MovesWell(r)
    BY <2>3, <2>4, <2>5, <2>6 DEF MovesWell
  <2>8. QED
    BY <2>3, <2>7, SharedIsKept, ReadStep
<1>5. CASE KeepRow(r)
  <2> DEFINE step == [reads[r] EXCEPT !.pc = "chunks", !.left = Parts]
  <2>1. /\ reads[r].pc = "keep" /\ reads[r].slot \in Slots /\ reads[r].got = {}
        /\ reads[r].row \in 1..content[reads[r].slot]
    BY <1>1, <1>5 DEF KeepRow, GotSoFar
  <2>2. /\ Go(r, step) /\ UNCHANGED <<content, store, active, strikes>>
        /\ rows' = [rows EXCEPT ![reads[r].slot] = reads[r].row]
    BY <1>5 DEF KeepRow, envVars
  <2>3. /\ step \in ReadState /\ step.pc = "chunks" /\ step.slot = reads[r].slot
        /\ step.got = {} /\ step.left = Parts /\ step.row = reads[r].row
    BY <1>1, <2>1 DEF ReadState
  <2> HIDE DEF step
  <2>4. MovesWell(r)
    <3>1. GotSoFar(step)
      BY <2>1, <2>3, SourcesAssumption DEF GotSoFar
    <3>2. QED
      BY <2>2, <2>3, <3>1 DEF MovesWell
  <2>5. rows' \in [Slots -> 0..MaxContent] /\ \A s \in Slots : rows'[s] <= content'[s]
    <3>1. rows \in [Slots -> 0..MaxContent]
      BY DEF SourcesInv, Types
    <3>2. reads[r].row \in 0..MaxContent /\ reads[r].row <= content[reads[r].slot]
      BY <1>1, <2>1
    <3>3. QED
      BY <1>1, <2>1, <2>2, <3>1, <3>2
  <2>6. SharedInv'
    BY <2>2, <2>5 DEF SourcesInv, Types, SharedInv, RowsWereReal
  <2>7. QED
    BY <2>2, <2>4, <2>6, ReadStep
<1>6. CASE ReadChunk(r)
  <2> DEFINE k == Min(reads[r].left)
             out == [reads[r] EXCEPT !.pc = "ranged", !.got = {}]
  <2>1. /\ reads[r].pc = "chunks" /\ reads[r].slot \in Slots
        /\ reads[r].row \in 1..content[reads[r].slot]
        /\ reads[r].left # {} /\ reads[r].left \subseteq Parts
    BY <1>1, <1>6 DEF ReadChunk, GotSoFar, ReadState
  <2>2. k \in Parts
    BY <2>1, MinOfParts
  <2>3. UNCHANGED <<content, rows, active, strikes>>
    BY <1>6 DEF ReadChunk, envVars
  <2>4. store' = store \/ store' = store \cup {Address(r, k)}
    BY <1>6 DEF ReadChunk
  <2>5. \/ \E fetched \in BOOLEAN : Go(r, AfterPart(reads[r], k, fetched))
        \/ Go(r, out)
    BY <1>6 DEF ReadChunk
  <2> HIDE DEF k
  <2>6. SharedInv'
    <3> DEFINE address == Address(r, k)
    <3>1. address = <<reads[r].slot, reads[r].row, k>>
      BY DEF Address
    <3>2. address[1] \in Slots /\ address[2] \in 1..content[address[1]] /\ address[3] \in Parts
      BY <2>1, <2>2, <3>1
    <3> HIDE DEF address
    <3>3. \A a \in store' : a[1] \in Slots /\ a[2] \in 1..content[a[1]] /\ a[3] \in Parts
      BY <2>4, <3>2 DEF SourcesInv, RowsWereReal, address
    <3>4. QED
      BY <2>3, <3>3 DEF SourcesInv, Types, SharedInv, RowsWereReal
  <2>7. CASE Go(r, out)
    <3>1. out \in ReadState /\ out.pc = "ranged" /\ out.slot = reads[r].slot
      BY <1>1 DEF ReadState
    <3> HIDE DEF out
    <3>2. MovesWell(r)
      BY <2>1, <2>7, <3>1, AsideWell
    <3>3. QED
      BY <2>3, <2>6, <3>2, ReadStep
  <2>8. CASE \E fetched \in BOOLEAN : Go(r, AfterPart(reads[r], k, fetched))
    <3>1. MovesWell(r)
      BY <2>1, <2>8, PartsAddUp
    <3>2. QED
      BY <2>3, <2>6, <3>1, ReadStep
  <2>9. QED
    BY <2>5, <2>7, <2>8
<1>7. QED
  BY <1>2, <1>3, <1>4, <1>5, <1>6

\* Handing the row to the seeder, and the end of a read.
LEMMA HandOverSteps ==
    ASSUME SourcesInv, NEW r \in Readers, Adopt(r) \/ Arm(r) \/ Return(r)
    PROVE  SourcesInv'
<1>1. /\ reads[r] \in ReadState /\ GotSoFar(reads[r])
      /\ MaxContent \in Nat /\ 0 \in 0..MaxContent
  BY ReadsAreTyped
<1>2. /\ rows \in [Slots -> 0..MaxContent] /\ NoRows \in [Slots -> 0..MaxContent]
  BY <1>1 DEF SourcesInv, Types, NoRows
<1>3. UNCHANGED <<content, rows, store, active, strikes>>
  BY DEF Adopt, Arm, Return, envVars, setVars
<1>4. CASE Adopt(r) \/ Arm(r)
  <2> DEFINE adopted == [reads[r] EXCEPT !.pc = "done"]
             arming == [reads[r] EXCEPT !.pc = "arm", !.known = rows]
             armed == [reads[r] EXCEPT !.pc = "done", !.known = NoRows]
  <2>1. /\ reads[r].pc \in {"adopt", "arm"} /\ reads[r].slot \in Slots
        /\ reads[r].row \in 1..content[reads[r].slot] /\ reads[r].got = {reads[r].row}
    BY <1>1, <1>4 DEF Adopt, Arm, GotSoFar
  <2>2. \E step \in {adopted, arming, armed} : Go(r, step)
    BY <1>4 DEF Adopt, Arm
  <2>3. \A step \in {adopted, arming, armed} :
            /\ step \in ReadState /\ step.pc \in {"arm", "done"} /\ step.slot = reads[r].slot
            /\ step.row = reads[r].row /\ step.got = {reads[r].row}
    BY <1>1, <1>2, <2>1 DEF ReadState
  <2> HIDE DEF adopted, arming, armed
  <2>4. \A step \in {adopted, arming, armed} : GotSoFar(step)
    BY <2>1, <2>3 DEF GotSoFar
  <2>5. MovesWell(r)
    BY <2>2, <2>3, <2>4 DEF MovesWell
  <2>6. QED
    BY <1>3, <2>5, SharedIsKept, ReadStep
<1>5. CASE Return(r)
  <2>1. Idle \in ReadState /\ Idle.pc = "idle"
    <3>1. /\ << >> \in Seq(Ours) /\ {} \in SUBSET Parts /\ {} \in SUBSET (0..MaxContent)
      OBVIOUS
    <3>2. QED
      BY <1>1, <1>2, <3>1 DEF Idle, ReadState, Origins
  <2>2. GotSoFar(Idle)
    BY <2>1 DEF GotSoFar
  <2>3. MovesWell(r)
    BY <1>5, <2>1, <2>2 DEF Return, MovesWell
  <2>4. QED
    BY <1>3, <2>3, SharedIsKept, ReadStep
<1>6. QED
  BY <1>4, <1>5

\* The steps that ask for a range of bytes.
LEMMA RangedSteps ==
    ASSUME SourcesInv, NEW r \in Readers, ReadRanged(r) \/ RetryOrigin(r) \/ AskPeer(r)
    PROVE  SourcesInv'
<1> DEFINE s == reads[r].slot
           retry == [reads[r] EXCEPT !.pc = "retry"]
           failed == [reads[r] EXCEPT !.pc = "failed", !.got = {}]
           passed == [reads[r] EXCEPT !.queue = Tail(@)]
<1>1. /\ reads[r] \in ReadState /\ GotSoFar(reads[r])
      /\ \A t \in Slots : content[t] \in Nat /\ content[t] <= MaxContent
      /\ MaxContent \in Nat
  BY ReadsAreTyped
<1>2. reads[r].pc \in {"ranged", "retry", "peers"} /\ s \in Slots
  BY <1>1 DEF ReadRanged, RetryOrigin, AskPeer, GotSoFar
<1>3. /\ active \in Origins /\ strikes \in [Peers -> 0..MaxStrikes] /\ reads[r].first \in Origins
      /\ "origin" \in Origins /\ reads[r].queue \in Seq(Ours)
  BY <1>1 DEF SourcesInv, Types, Origins, ReadState
<1>4. UNCHANGED <<content, rows, store>>
  BY DEF ReadRanged, RetryOrigin, AskPeer, envVars
<1>5. OriginAnswers(s) => content[s] \in 1..content[s]
  BY <1>1, <1>2 DEF OriginAnswers
<1>6. /\ retry \in ReadState /\ retry.pc = "retry" /\ retry.slot = s
      /\ failed \in ReadState /\ failed.pc = "failed" /\ failed.slot = s
  BY <1>1 DEF ReadState
<1>7. ASSUME NEW p \in Ours, PeerAnswers(p, s), Done(r, {PeerContent(p, s)})  PROVE MovesWell(r)
  BY <1>2, <1>7, PeersServeTheTree, DoneWell
<1>8. ASSUME OriginAnswers(s), Done(r, {content[s]})  PROVE MovesWell(r)
  BY <1>2, <1>5, <1>8, DoneWell
<1>9. ASSUME \E list \in [1..Cardinality(Candidates(s)) -> Candidates(s)] :
                Go(r, [reads[r] EXCEPT !.pc = "peers", !.queue = list])
      PROVE  MovesWell(r)
  BY <1>2, <1>9, PeersWell
<1>10. CASE ReadRanged(r)
  <2> DEFINE p == reads[r].first
  <2>1. \/ /\ OriginAnswers(s) /\ Done(r, {content[s]}) /\ UNCHANGED strikes
        \/ /\ UNCHANGED strikes
           /\ \E list \in [1..Cardinality(Candidates(s)) -> Candidates(s)] :
                 Go(r, [reads[r] EXCEPT !.pc = "peers", !.queue = list])
        \/ p # "origin" /\ PeerAnswers(p, s) /\ Done(r, {PeerContent(p, s)}) /\ UNCHANGED strikes
        \/ Strike(p) /\ Go(r, retry)
    BY <1>10 DEF ReadRanged
  <2>2. UNCHANGED active
    BY <1>10 DEF ReadRanged
  <2>3. strikes' \in [Peers -> 0..MaxStrikes]
    BY <1>3, <2>1, StrikesAreBounded
  <2>4. p # "origin" => p \in Ours
    BY <1>3 DEF Origins
  <2>5. Go(r, retry) => MovesWell(r)
    <3> HIDE DEF retry, failed, passed
    <3> QED  BY <1>2, <1>6, AsideWell
  <2>6. MovesWell(r)
    <3> HIDE DEF p, s, retry, failed, passed
    <3> QED  BY <1>7, <1>8, <1>9, <2>1, <2>4, <2>5
  <2>7. SharedInv'
    BY <1>3, <1>4, <2>2, <2>3, SourcesChange
  <2>8. QED
    BY <1>4, <2>6, <2>7, ReadStep
<1>11. CASE RetryOrigin(r)
  <2>1. \/ OriginAnswers(s) /\ Done(r, {content[s]}) /\ active' = "origin"
        \/ /\ UNCHANGED active
           /\ \E list \in [1..Cardinality(Candidates(s)) -> Candidates(s)] :
                 Go(r, [reads[r] EXCEPT !.pc = "peers", !.queue = list])
    BY <1>11 DEF RetryOrigin
  <2>2. UNCHANGED strikes
    BY <1>11 DEF RetryOrigin
  <2>3. MovesWell(r)
    <3> HIDE DEF s, retry, failed, passed
    <3> QED  BY <1>8, <1>9, <2>1
  <2>4. SharedInv'
    BY <1>3, <1>4, <2>1, <2>2, SourcesChange
  <2>5. QED
    BY <1>4, <2>3, <2>4, ReadStep
<1>12. CASE AskPeer(r)
  <2> DEFINE p == Head(reads[r].queue)
  <2>1. \/ Go(r, failed) /\ UNCHANGED <<active, strikes>>
        \/ /\ reads[r].queue # << >> /\ PeerAnswers(p, s) /\ Done(r, {PeerContent(p, s)})
           /\ active' = p /\ UNCHANGED strikes
        \/ reads[r].queue # << >> /\ Go(r, passed) /\ Strike(p) /\ UNCHANGED active
    BY <1>12 DEF AskPeer, Failed
  <2>2. reads[r].queue # << >> => p \in Ours /\ Tail(reads[r].queue) \in Seq(Ours)
    BY <1>3, HeadTailProperties
  <2>3. strikes' \in [Peers -> 0..MaxStrikes] /\ active' \in Origins
    <3>1. Ours \subseteq Origins
      BY DEF Origins
    <3>2. QED
      BY <1>3, <2>1, <2>2, <3>1, StrikesAreBounded
  <2>4. Go(r, failed) => MovesWell(r)
    <3> HIDE DEF retry, failed, passed
    <3> QED  BY <1>2, <1>6, AsideWell
  <2>5. reads[r].queue # << >> /\ Go(r, passed) => MovesWell(r)
    <3>1. reads[r].queue # << >> =>
             passed \in ReadState /\ passed.pc = reads[r].pc /\ passed.slot = s
      BY <1>1, <2>2 DEF ReadState
    <3> HIDE DEF retry, failed, passed
    <3>2. QED
      BY <1>2, <3>1, AsideWell
  <2>6. MovesWell(r)
    <3> HIDE DEF p, s, retry, failed, passed
    <3> QED  BY <1>7, <2>1, <2>2, <2>4, <2>5
  <2>7. SharedInv'
    BY <1>4, <2>3, SourcesChange
  <2>8. QED
    BY <1>4, <2>6, <2>7, ReadStep
<1>13. QED
  BY <1>10, <1>11, <1>12

-----------------------------------------------------------------------------

(* The invariant holds when the mount is attached. *)
LEMMA SourcesInit == Init => SourcesInv
<1> SUFFICES ASSUME Init  PROVE SourcesInv
  OBVIOUS
<1>1. MaxContent \in Nat \ {0} /\ MaxStrikes \in Nat /\ {0, 1} \subseteq 0..MaxContent
  BY SourcesAssumption
<1>2. Attached \in [Slots -> 0..MaxContent] /\ NoRows \in [Slots -> 0..MaxContent]
      /\ \A s \in Slots : NoRows[s] = 0 /\ Attached[s] \in {0, 1}
  BY <1>1 DEF Attached, NoRows
<1>3. Idle \in ReadState /\ Idle.pc = "idle"
  <2>1. /\ << >> \in Seq(Ours) /\ {} \in SUBSET Parts /\ {} \in SUBSET (0..MaxContent)
        /\ 0 \in 0..MaxContent
    BY <1>1
  <2>2. QED
    BY <1>2, <2>1 DEF Idle, ReadState, Origins
<1>4. Types
  BY <1>1, <1>2, <1>3 DEF Init, Types, Origins
<1>5. ContentsGrow /\ RowsWereReal
  <2>1. \A s \in Slots : Attached[s] \in Nat /\ NoRows[s] = 0
    BY <1>2
  <2>2. QED
    BY <2>1 DEF Init, ContentsGrow, RowsWereReal
<1>6. ReadsAreOneContent
  BY <1>3 DEF Init, ReadsAreOneContent, GotSoFar
<1>7. QED
  BY <1>4, <1>5, <1>6 DEF SourcesInv

(* Every step keeps the invariant. *)
LEMMA SourcesStep ==
    ASSUME SourcesInv, [Next]_vars
    PROVE  SourcesInv'
<1>1. ASSUME NEW s \in Editable, Edit(s)  PROVE SourcesInv'
  BY <1>1, EditStep, SourcesAssumption
<1>2. ASSUME UNCHANGED <<content, rows, store, active, strikes, reads>>  PROVE SourcesInv'
  BY <1>2 DEF SourcesInv, Types, ContentsGrow, RowsWereReal, ReadsAreOneContent, GotSoFar, Attached
<1>3. ASSUME NEW p \in Leavers, PeerLeaves(p)  PROVE SourcesInv'
  BY <1>2, <1>3 DEF PeerLeaves, setVars
<1>4. CASE OriginFails \/ OriginReturns \/ FollowTree \/ PublishServing
  BY <1>2, <1>4 DEF OriginFails, OriginReturns, FollowTree, PublishServing, setVars, envVars
<1>5. ASSUME NEW r \in Readers, Begin(r) \/ LookUpRow(r) \/ AskRow(r) \/ KeepRow(r) \/ ReadChunk(r)
      PROVE  SourcesInv'
  BY <1>5, ChunkSteps
<1>6. ASSUME NEW r \in Readers, Adopt(r) \/ Arm(r) \/ Return(r)  PROVE SourcesInv'
  BY <1>6, HandOverSteps
<1>7. ASSUME NEW r \in Readers, ReadRanged(r) \/ RetryOrigin(r) \/ AskPeer(r)  PROVE SourcesInv'
  BY <1>7, RangedSteps
<1>8. CASE UNCHANGED vars
  BY <1>2, <1>8 DEF vars, envVars, setVars
<1>9. QED
  BY <1>1, <1>3, <1>4, <1>5, <1>6, <1>7, <1>8 DEF Next, Step

\* Every state of a mount's reads is consistent: a row the mount learned is a
\* content the origin gave that slot, and what a read has is of one row alone.
THEOREM SourcesInvariant == Spec => []SourcesInv
BY SourcesInit, SourcesStep, PTL DEF Spec

\* A read returns one content of its file, whatever failed or was edited
\* meanwhile and whichever sources its parts came from; rows, chunks kept and
\* the active source are the origin's or a peer's on the same tree.
THEOREM ReadsStaySound == Spec => []ReadsAreSound
<1>1. SourcesInv => TypeOK
  BY DEF SourcesInv, Types, RowsWereReal, ReadsAreOneContent, GotSoFar, ReadState, TypeOK,
         Origins, Ours
<1>2. SourcesInv => ReadsAreWhole
  BY DEF SourcesInv, ReadsAreOneContent, GotSoFar, ReadsAreWhole
<1>3. QED
  BY <1>1, <1>2, SourcesInvariant, PTL DEF ReadsAreSound

-----------------------------------------------------------------------------

\* A slot a peer holds is in a maximal run of them, of slots it holds: no run
\* of slots below a limit goes on for ever.
LEMMA EverySlotHasARun ==
    ASSUME NEW total \in Nat, NEW owned \in SUBSET (0..total - 1), NEW s \in owned
    PROVE  \E r \in Runs(owned) : s \in r[1]..r[2]
<1> DEFINE starts == {a \in 0..s : a..s \subseteq owned}
           ends == {b \in Nat : s <= b /\ b + 1 \notin owned}
<1>1. s \in Nat /\ s < total /\ owned \subseteq Nat
  OBVIOUS
<1>2. s \in starts /\ starts \subseteq Nat
  BY <1>1
<1>3. total \in ends /\ ends \subseteq Nat
  BY <1>1
<1>4. PICK a \in starts : \A x \in starts : a <= x
  <2> HIDE DEF starts
  <2> QED  BY <1>2, LeastOfNaturals
<1>5. PICK b \in ends : \A x \in ends : b <= x
  <2> HIDE DEF ends
  <2> QED  BY <1>3, LeastOfNaturals
<1>6. a = 0 \/ a - 1 \notin owned
  <2> SUFFICES ASSUME a # 0, a - 1 \in owned  PROVE FALSE
    OBVIOUS
  <2>1. a \in Nat /\ a - 1 \in 0..s /\ (a - 1)..s \subseteq owned
    BY <1>1
  <2>2. a - 1 \in starts
    BY <2>1
  <2>3. QED
    BY <1>4, <2>1, <2>2
<1>7. s..b \subseteq owned
  <2> SUFFICES ASSUME NEW x \in s..b, x \notin owned  PROVE FALSE
    OBVIOUS
  <2>1. x # s /\ x - 1 \in Nat /\ s <= x - 1 /\ (x - 1) + 1 = x
    BY <1>1, <1>5
  <2>2. x - 1 \in ends
    BY <2>1
  <2>3. b <= x - 1 /\ b \in Nat /\ x <= b /\ x \in Int
    BY <1>1, <1>5, <2>2
  <2>4. QED
    BY <2>3
<1>8. a..b \subseteq owned /\ a <= s /\ s <= b /\ a \in owned /\ b \in owned /\ b + 1 \notin owned
  <2>1. a \in Nat /\ b \in Nat /\ a <= s /\ s <= b
    BY <1>1, <1>4, <1>5
  <2>2. a..b \subseteq (a..s) \cup (s..b)
    BY <1>1, <2>1
  <2>3. a..s \subseteq owned /\ b + 1 \notin owned
    BY <1>4, <1>5
  <2>4. a \in a..s /\ b \in s..b
    BY <1>1, <2>1
  <2>5. QED
    BY <1>7, <2>1, <2>2, <2>3, <2>4
<1> DEFINE r == <<a, b>>
<1>9. r \in Runs(owned) /\ s \in r[1]..r[2]
  <2> HIDE DEF starts, ends
  <2>1. a <= b /\ r[1] = a /\ r[2] = b /\ r \in owned \X owned /\ s \in a..b
    BY <1>1, <1>8
  <2>2. QED
    <3> HIDE DEF r
    <3> QED  BY <1>6, <1>8, <2>1 DEF Runs
<1>10. QED
  <2> HIDE DEF r
  <2> QED  BY <1>9

\* A serving field that is published lists exactly the slots its peer holds,
\* for any tree, any holding and any room on the card.
THEOREM FieldsListWhatIsHeld ==
    \A total \in Nat : \A owned \in SUBSET (0..total - 1) : FieldIsExact(owned, total)
<1> SUFFICES ASSUME NEW total \in Nat, NEW owned \in SUBSET (0..total - 1),
                    EncodeServing(owned, total) # NoField
             PROVE  DecodeServing(EncodeServing(owned, total), total) = owned
  BY DEF FieldIsExact
<1> DEFINE field == EncodeServing(owned, total)
           fits == RunsLength(Runs(owned)) <= MaxChars
           all == total > 0 /\ Cardinality(owned) = total
           runs == [kind |-> "runs", runs |-> Runs(owned)]
           bitmap == [kind |-> "bitmap", bits |-> {s \in owned : s < total}]
<1>1. owned # {} /\ field = IF all THEN AllField ELSE IF fits THEN runs ELSE EncodeBitmap(owned, total)
  BY DEF EncodeServing
<1>2. CASE all
  <2>1. IsFiniteSet(0..total - 1) /\ Cardinality(0..total - 1) = total
    <3> DEFINE last == total - 1
    <3>1. 0 \in Int /\ last \in Int /\ ~ (0 > last) /\ last - 0 + 1 = total
      BY <1>2
    <3> HIDE DEF last
    <3>2. IsFiniteSet(0..last) /\ Cardinality(0..last) = total
      BY <3>1, FS_Interval
    <3>3. QED
      BY <3>2 DEF last
  <2>2. owned = 0..total - 1
    BY <1>2, <2>1, FS_Subset
  <2>3. field = AllField
    BY <1>1, <1>2
  <2>4. DecodeServing(field, total) = {s \in 0..total : s < total}
    <3> HIDE DEF field
    <3> QED  BY <2>3 DEF DecodeServing, AllField
  <2>5. {s \in 0..total : s < total} = 0..total - 1
    OBVIOUS
  <2>6. QED
    <3> HIDE DEF field
    <3> QED  BY <2>2, <2>4, <2>5 DEF field
<1>3. CASE ~all /\ fits
  <2>1. field = runs
    <3> HIDE DEF field, all, fits, runs
    <3> QED  BY <1>1, <1>3
  <2>2. DecodeServing(field, total) = UNION {r[1]..r[2] : r \in Runs(owned)}
    <3> HIDE DEF field
    <3> QED  BY <2>1 DEF DecodeServing
  <2>3. \A r \in Runs(owned) : r[1]..r[2] \subseteq owned
    BY DEF Runs
  <2>4. \A s \in owned : \E r \in Runs(owned) : s \in r[1]..r[2]
    BY EverySlotHasARun
  <2>5. UNION {r[1]..r[2] : r \in Runs(owned)} = owned
    BY <2>3, <2>4
  <2>6. QED
    BY <2>2, <2>5
<1>4. CASE ~all /\ ~fits
  <2>1. field = bitmap
    <3>1. field = EncodeBitmap(owned, total)
      <4> HIDE DEF field, all, fits, runs
      <4> QED  BY <1>1, <1>4
    <3>2. EncodeBitmap(owned, total) \in {NoField, bitmap}
      BY DEF EncodeBitmap
    <3>3. QED
      <4> HIDE DEF bitmap
      <4> QED  BY <3>1, <3>2
  <2>2. DecodeServing(field, total) = {s \in bitmap.bits : s < total}
    <3> HIDE DEF field
    <3> QED  BY <2>1 DEF DecodeServing
  <2>3. bitmap.bits = {s \in owned : s < total}
    OBVIOUS
  <2>4. {s \in owned : s < total} = owned
    <3>1. \A s \in owned : s \in 0..total - 1 /\ s < total
      OBVIOUS
    <3>2. QED
      BY <3>1
  <2>5. QED
    <3> HIDE DEF field, bitmap
    <3> QED  BY <2>2, <2>3, <2>4 DEF field
<1>5. QED
  <2> HIDE DEF field
  <2> QED  BY <1>2, <1>3, <1>4 DEF field

\* Whoever holds a slot of a tree no larger than MAX_BITMAP_SLOTS has a field to
\* publish, whatever the room on the card.
THEOREM SmallTreesAreAdvertised ==
    \A total \in 0..MaxBitmapSlots : \A owned \in SUBSET (0..total - 1) :
        HolderIsAdvertised(owned, total)
<1> SUFFICES ASSUME NEW total \in 0..MaxBitmapSlots, NEW owned \in SUBSET (0..total - 1), owned # {}
             PROVE  EncodeServing(owned, total) # NoField
  BY DEF HolderIsAdvertised
<1> DEFINE bytes == (total + 7) \div 8
           words == (MaxChars - 1) \div 4
           bitmap == [kind |-> "bitmap", bits |-> {s \in owned : s < total}]
           runs == [kind |-> "runs", runs |-> Runs(owned)]
<1>1. MaxChars \in Nat \ {0} /\ words \in Nat /\ 4 * words <= MaxChars - 1
  BY MaxCharsAssumption
<1>2. total \in Nat /\ total # 0 /\ total <= words * 3 * 8
  <2>1. MaxBitmapSlots = words * 3 * 8 /\ MaxBitmapSlots \in Nat
    BY <1>1 DEF MaxBitmapSlots
  <2>2. total # 0
    <3>1. PICK s \in owned : s \in 0..total - 1
      OBVIOUS
    <3>2. QED
      BY <2>1, <3>1
  <2>3. QED
    <3> HIDE DEF words
    <3> QED  BY <2>1, <2>2
<1>3. bytes \in Nat /\ bytes <= words * 3
  BY <1>1, <1>2
<1>4. BitmapLength(total) <= MaxChars
  <2>1. BitmapLength(total) =
           1 + 4 * (bytes \div 3) + (IF bytes % 3 = 0 THEN 0 ELSE (bytes % 3) + 1)
    BY DEF BitmapLength
  <2> HIDE DEF bytes, words
  <2>2. bytes = 3 * (bytes \div 3) + (bytes % 3) /\ bytes % 3 \in 0..2 /\ bytes \div 3 \in Nat
    BY <1>3
  <2>3. 1 + 4 * (bytes \div 3) + (IF bytes % 3 = 0 THEN 0 ELSE (bytes % 3) + 1) <= 1 + 4 * words
    BY <1>1, <1>3, <2>2
  <2>4. 1 + 4 * words <= MaxChars
    BY <1>1
  <2>5. 1 + 4 * (bytes \div 3) + (IF bytes % 3 = 0 THEN 0 ELSE (bytes % 3) + 1) \in Nat
    BY <2>2
  <2>6. QED
    BY <1>1, <2>1, <2>3, <2>4, <2>5
<1>5. EncodeBitmap(owned, total) = bitmap
  <2>1. MaxBitmapSlots = words * 3 * 8 /\ BitmapLength(total) \in Nat
    BY <1>1 DEF MaxBitmapSlots, BitmapLength
  <2>2. ~ (total = 0 \/ total > MaxBitmapSlots \/ BitmapLength(total) > MaxChars)
    <3> HIDE DEF words
    <3> QED  BY <1>1, <1>2, <1>4, <2>1
  <2>3. QED
    BY <2>2 DEF EncodeBitmap
<1>6. /\ bitmap.kind = "bitmap" /\ runs.kind = "runs"
      /\ AllField.kind = "all" /\ NoField.kind = "none"
  BY DEF AllField, NoField
<1>7. EncodeServing(owned, total) \in {AllField, runs, bitmap}
  BY <1>5 DEF EncodeServing
<1>8. QED
  <2> HIDE DEF runs, bitmap
  <2> QED  BY <1>6, <1>7

-----------------------------------------------------------------------------

\* One read at a time: the rows the seeder has are the rows the mount knows, the
\* chunks kept are of those rows, and a file wholly kept is in the seeder, or in
\* the hands of the read that is about to put it there.

LoneRead(read) ==
    /\ read.pc \in {"ask", "keep"} => rows[read.slot] = 0
    /\ read.pc \in {"chunks", "adopt", "arm"} => read.row = rows[read.slot]
    /\ read.pc = "arm" => read.known = rows

Seeding(read, s) ==
    /\ read.slot = s
    /\ (read.pc = "chunks" /\ read.fetched) \/ read.pc \in {"adopt", "arm"}

SeederFollows ==
    /\ seeder = [armed |-> seeder.armed, rows |-> seeder.rows, scope |-> seeder.scope]
    /\ seeder.rows \in [Slots -> Nat]
    /\ \A s \in Slots : seeder.rows[s] \in {0, rows[s]}
    /\ \A a \in store : a[2] = rows[a[1]]

KeptIsSeeded(r) ==
    \A s \in Slots : rows[s] # 0 /\ Leaves(s, rows[s]) \subseteq store =>
        seeder.rows[s] = rows[s] \/ Seeding(reads[r], s)

CardIsTrue == DecodeServing(serving, TotalSlots) \subseteq CompleteSlots(seeder, store)

LoneInv(r) == LoneRead(reads[r]) /\ SeederFollows /\ KeptIsSeeded(r) /\ CardIsTrue

\* The assumptions of this section: a tree no file is added to, its slots numbered
\* from 0, and no read begun while another is in flight.
NumberedTree == Initial = Slots /\ Slots = 0..TotalSlots - 1 /\ TotalSlots \in Nat
Alone(r) == \A q \in Readers : q # r => reads[q] = Idle
OneAtATime == \E r \in Readers : Alone(r)
OneByOne == Init /\ [][Next /\ OneAtATime']_vars

LoneReadInv == \E r \in Readers : Alone(r) /\ LoneInv(r)

\* A move that leaves rows, chunks, seeder and card alone.
LEMMA LoneMove ==
    ASSUME SourcesInv, NEW r \in Readers, LoneInv(r), UNCHANGED <<rows, store, seeder, serving>>,
           NEW step, Go(r, step), LoneRead(step), \A s \in Slots : ~Seeding(reads[r], s)
    PROVE  LoneInv(r)'
<1>1. reads'[r] = step
  BY DEF SourcesInv, Types, Go
<1>2. LoneRead(reads[r])'
  BY <1>1 DEF LoneRead
<1>3. SeederFollows'
  BY DEF LoneInv, SeederFollows
<1>4. KeptIsSeeded(r)'
  BY DEF LoneInv, KeptIsSeeded
<1>5. CardIsTrue'
  BY DEF LoneInv, CardIsTrue, TotalSlots, CompleteSlots
<1>6. QED
  BY <1>2, <1>3, <1>4, <1>5 DEF LoneInv

\* What makes the seeder hold more leaves the card true.
LEMMA CardStaysTrue ==
    ASSUME CardIsTrue, UNCHANGED serving,
           \A s \in Slots : seeder'.rows[s] = seeder.rows[s] \/ seeder.rows[s] = 0,
           store \subseteq store'
    PROVE  CardIsTrue'
<1>1. CompleteSlots(seeder, store) \subseteq CompleteSlots(seeder', store')
  BY DEF CompleteSlots
<1>2. QED
  BY <1>1 DEF CardIsTrue, TotalSlots

\* The row a read learned is the first its file is known by.
LEMMA LoneKeep ==
    ASSUME SourcesInv, NEW r \in Readers, LoneInv(r), KeepRow(r)
    PROVE  LoneInv(r)'
<1> DEFINE s == reads[r].slot
           row == reads[r].row
           step == [reads[r] EXCEPT !.pc = "chunks", !.left = Parts]
<1>1. /\ reads[r] \in ReadState /\ GotSoFar(reads[r]) /\ reads[r].pc = "keep"
      /\ rows \in [Slots -> 0..MaxContent] /\ MaxContent \in Nat /\ content[s] \in Nat
  BY ReadsAreTyped DEF KeepRow, SourcesInv, Types, GotSoFar
<1>2. s \in Slots /\ row \in Nat \ {0} /\ rows[s] = 0 /\ LoneRead(reads[r]) /\ SeederFollows
  BY <1>1 DEF GotSoFar, LoneInv, LoneRead
<1>3. /\ rows' = [rows EXCEPT ![s] = row] /\ UNCHANGED <<store, seeder, serving>>
      /\ reads'[r] = step
  BY DEF KeepRow, Go, SourcesInv, Types
<1>4. step.pc = "chunks" /\ step.slot = s /\ step.row = row /\ step.fetched = reads[r].fetched
  BY <1>1 DEF ReadState
<1>5. rows'[s] = row /\ \A t \in Slots \ {s} : rows'[t] = rows[t]
  BY <1>1, <1>2, <1>3
<1> HIDE DEF s, row, step
<1>6. \A a \in store : a[1] \in Slots /\ a[2] \in Nat \ {0} /\ a[2] = rows[a[1]] /\ a[1] # s
  <2> SUFFICES ASSUME NEW a \in store
               PROVE  a[1] \in Slots /\ a[2] \in Nat \ {0} /\ a[2] = rows[a[1]] /\ a[1] # s
    OBVIOUS
  <2> DEFINE slot == a[1]
             part == a[2]
  <2>1. slot \in Slots /\ part \in 1..content[slot] /\ part = rows[slot]
    BY <1>2 DEF SourcesInv, RowsWereReal, SeederFollows
  <2>2. content[slot] \in Nat
    BY <2>1, ReadsAreTyped
  <2> HIDE DEF slot, part
  <2>3. part \in Nat \ {0}
    BY <2>1, <2>2
  <2>4. slot # s
    BY <1>2, <2>1, <2>3
  <2>5. QED
    BY <2>1, <2>3, <2>4 DEF slot, part
<1>7. LoneRead(reads[r])'
  <2>1. reads'[r].pc = "chunks" /\ reads'[r].slot = s /\ reads'[r].row = rows'[s]
    BY <1>3, <1>4, <1>5
  <2>2. QED
    BY <2>1 DEF LoneRead
<1>8. SeederFollows'
  <2>1. \A t \in Slots : seeder.rows[t] \in {0, rows'[t]}
    BY <1>2, <1>5 DEF SeederFollows
  <2>2. \A a \in store : a[2] = rows'[a[1]]
    BY <1>5, <1>6
  <2>3. QED
    BY <1>2, <1>3, <2>1, <2>2 DEF SeederFollows
<1>9. KeptIsSeeded(r)'
  <2> SUFFICES ASSUME NEW t \in Slots, rows'[t] # 0, Leaves(t, rows'[t]) \subseteq store
               PROVE  seeder.rows[t] = rows'[t]
    BY <1>3 DEF KeptIsSeeded
  <2>1. PICK k \in Parts : <<t, rows'[t], k>> \in store
    BY SourcesAssumption DEF Leaves
  <2>2. <<t, rows'[t], k>>[1] = t
    OBVIOUS
  <2>3. t # s /\ rows'[t] = rows[t]
    BY <1>5, <1>6, <2>1, <2>2
  <2>4. ~Seeding(reads[r], t)
    BY <1>1 DEF Seeding
  <2>5. QED
    BY <2>3, <2>4 DEF LoneInv, KeptIsSeeded
<1>10. CardIsTrue'
  BY <1>3, CardStaysTrue DEF LoneInv
<1>11. QED
  BY <1>7, <1>8, <1>9, <1>10 DEF LoneInv

\* A chunk kept is of the row the mount knows, and the read that keeps the last
\* one is about to seed it.
LEMMA LoneChunk ==
    ASSUME SourcesInv, NEW r \in Readers, LoneInv(r), ReadChunk(r)
    PROVE  LoneInv(r)'
<1> DEFINE s == reads[r].slot
           k == Min(reads[r].left)
           a == Address(r, k)
           out == [reads[r] EXCEPT !.pc = "ranged", !.got = {}]
           read == reads'[r]
<1>1. /\ reads[r] \in ReadState /\ GotSoFar(reads[r]) /\ reads[r].pc = "chunks"
      /\ rows \in [Slots -> 0..MaxContent] /\ MaxContent \in Nat
  BY ReadsAreTyped DEF ReadChunk, SourcesInv, Types
<1>2. /\ s \in Slots /\ reads[r].row = rows[s] /\ LoneRead(reads[r]) /\ SeederFollows /\ k \in Parts
      /\ KeptIsSeeded(r) /\ CardIsTrue
  <2>1. reads[r].left # {} /\ reads[r].left \subseteq Parts
    BY <1>1 DEF GotSoFar, ReadState
  <2>2. QED
    BY <1>1, <2>1, MinOfParts DEF GotSoFar, LoneInv, LoneRead
<1>3. UNCHANGED <<rows, seeder, serving>>
  BY DEF ReadChunk
<1>4. a = <<s, rows[s], k>> /\ a[1] = s /\ a[2] = rows[s]
  BY <1>2 DEF Address
<1>5. \/ a \in store /\ store' = store /\ read = AfterPart(reads[r], k, FALSE)
      \/ store' \in {store, store \cup {a}} /\ read = AfterPart(reads[r], k, TRUE)
      \/ a \notin store /\ store' = store /\ read = out
  BY DEF ReadChunk, Go, SourcesInv, Types
<1>6. \A fetched \in BOOLEAN : read = AfterPart(reads[r], k, fetched) =>
          /\ read.slot = s /\ read.row = rows[s] /\ read.pc \in {"chunks", "adopt", "done"}
          /\ fetched \/ reads[r].fetched => Seeding(read, s)
  <2> TAKE fetched \in BOOLEAN
  <2> HAVE read = AfterPart(reads[r], k, fetched)
  <2>1. reads[r].row \in 0..MaxContent
    BY <1>1 DEF ReadState
  <2>2. /\ read.slot = s /\ read.row = rows[s]
        /\ read.fetched <=> (reads[r].fetched \/ fetched)
        /\ read.pc = "chunks" \/ read.pc = "adopt"
           \/ (read.pc = "done" /\ ~reads[r].fetched /\ ~fetched)
    <3> HIDE DEF read, k
    <3> QED  BY <1>1, <1>2, <2>1, AfterPartIs
  <2>3. QED
    <3> HIDE DEF read, k
    <3> QED  BY <2>2 DEF Seeding
<1>7. read = out => read.slot = s /\ read.pc = "ranged"
  BY <1>1 DEF ReadState
<1> HIDE DEF read, k, a, out
<1>8. LoneRead(reads[r])'
  <2>1. LoneRead(read)
    BY <1>2, <1>5, <1>6, <1>7 DEF LoneRead
  <2>2. QED
    BY <1>3, <2>1 DEF LoneRead, read
<1>9. SeederFollows'
  <2>1. \A b \in store' : b[2] = rows[b[1]]
    BY <1>2, <1>4, <1>5 DEF SeederFollows
  <2>2. QED
    BY <1>2, <1>3, <2>1 DEF SeederFollows
<1>10. KeptIsSeeded(r)'
  <2> SUFFICES ASSUME NEW t \in Slots, rows[t] # 0, Leaves(t, rows[t]) \subseteq store',
                      seeder.rows[t] # rows[t]
               PROVE  Seeding(read, t)
    BY <1>3 DEF KeptIsSeeded, read, Seeding
  <2>1. Leaves(t, rows[t]) \subseteq store => t = s /\ reads[r].fetched
    BY <1>1, <1>2 DEF KeptIsSeeded, Seeding
  <2>2. a \in Leaves(s, rows[s])
    BY <1>2, <1>4 DEF Leaves
  <2>3. t # s => a \notin Leaves(t, rows[t])
    BY <1>4 DEF Leaves
  <2>4. QED
    BY <1>5, <1>6, <2>1, <2>2, <2>3
<1>11. CardIsTrue'
  <2>1. store \subseteq store'
    BY <1>5
  <2>2. QED
    BY <1>2, <1>3, <2>1, CardStaysTrue
<1>12. QED
  BY <1>8, <1>9, <1>10, <1>11 DEF LoneInv

\* The row whose chunks a read fetched goes to the seeder, with all the others
\* when it is the first.
LEMMA LoneHandOver ==
    ASSUME SourcesInv, NEW r \in Readers, LoneInv(r), Adopt(r) \/ Arm(r)
    PROVE  LoneInv(r)'
<1> DEFINE s == reads[r].slot
           adopted == [reads[r] EXCEPT !.pc = "done"]
           arming == [reads[r] EXCEPT !.pc = "arm", !.known = rows]
           armed == [reads[r] EXCEPT !.pc = "done", !.known = NoRows]
           read == reads'[r]
<1>1. /\ reads[r] \in ReadState /\ reads[r].pc \in {"adopt", "arm"} /\ s \in Slots
      /\ reads[r].row = rows[s] /\ (reads[r].pc = "arm" => reads[r].known = rows)
      /\ SeederFollows /\ KeptIsSeeded(r) /\ CardIsTrue
      /\ rows \in [Slots -> 0..MaxContent] /\ MaxContent \in Nat
  BY ReadsAreTyped DEF Adopt, Arm, SourcesInv, Types, GotSoFar, LoneInv, LoneRead
<1>2. UNCHANGED <<rows, store, serving>>
  BY DEF Adopt, Arm
<1>3. /\ adopted.pc = "done" /\ armed.pc = "done" /\ arming.pc = "arm" /\ arming.known = rows
      /\ arming.slot = s /\ arming.row = reads[r].row
  BY <1>1 DEF ReadState
<1>4. \/ seeder' = AdoptRow(seeder, s, reads[r].row) /\ seeder.armed /\ read = adopted
      \/ seeder' = seeder /\ read = arming
      \/ seeder' = Update(seeder, rows) /\ read = armed
  BY <1>1 DEF Adopt, Arm, Go, SourcesInv, Types
<1> HIDE DEF read, adopted, arming, armed
<1>5. \/ seeder' = seeder /\ read = arming
      \/ /\ seeder' = [armed |-> seeder'.armed, rows |-> seeder'.rows, scope |-> seeder'.scope]
         /\ seeder'.rows \in [Slots -> Nat]
         /\ \A t \in Slots : seeder'.rows[t] = seeder.rows[t] \/ seeder'.rows[t] = rows[t]
         /\ seeder'.rows[s] = rows[s] /\ read.pc = "done"
  <2>1. CASE seeder' = AdoptRow(seeder, s, reads[r].row) /\ seeder.armed /\ read = adopted
    <3>1. seeder' = [armed |-> seeder.armed, rows |-> [seeder.rows EXCEPT ![s] = rows[s]],
                     scope |-> seeder.scope \cup Leaves(s, rows[s])]
      BY <1>1, <2>1 DEF AdoptRow, SeederFollows
    <3>2. seeder.rows \in [Slots -> Nat] /\ rows[s] \in Nat
      BY <1>1 DEF SeederFollows
    <3>3. QED
      BY <1>1, <1>3, <2>1, <3>1, <3>2
  <2>2. CASE seeder' = Update(seeder, rows) /\ read = armed
    <3>1. seeder' = [armed |-> TRUE, rows |-> rows, scope |-> InScope(rows)]
      BY <2>2 DEF Update
    <3>2. rows \in [Slots -> Nat]
      BY <1>1
    <3>3. QED
      BY <1>1, <1>3, <2>2, <3>1, <3>2
  <2>3. QED
    BY <1>4, <2>1, <2>2
<1>6. LoneRead(reads[r])'
  <2>1. LoneRead(read)
    BY <1>1, <1>3, <1>5 DEF LoneRead
  <2>2. QED
    BY <1>2, <2>1 DEF LoneRead, read
<1>7. SeederFollows'
  BY <1>1, <1>2, <1>5 DEF SeederFollows
<1>8. KeptIsSeeded(r)'
  <2> SUFFICES ASSUME NEW t \in Slots, rows[t] # 0, Leaves(t, rows[t]) \subseteq store
               PROVE  seeder'.rows[t] = rows[t] \/ Seeding(read, t)
    BY <1>2 DEF KeptIsSeeded, read, Seeding
  <2>1. seeder.rows[t] = rows[t] \/ t = s
    BY <1>1 DEF KeptIsSeeded, Seeding
  <2>2. read = arming => Seeding(read, s)
    BY <1>3 DEF Seeding
  <2>3. QED
    BY <1>5, <2>1, <2>2
<1>9. CardIsTrue'
  <2>1. \A t \in Slots : seeder'.rows[t] = seeder.rows[t] \/ seeder.rows[t] = 0
    BY <1>1, <1>5 DEF SeederFollows
  <2>2. QED
    BY <1>1, <1>2, <2>1, CardStaysTrue
<1>10. QED
  BY <1>6, <1>7, <1>8, <1>9 DEF LoneInv

\* What the card lists is what the seeder holds when it is published.
LEMMA LonePublish ==
    ASSUME NEW r \in Readers, NumberedTree, LoneInv(r), PublishServing
    PROVE  LoneInv(r)'
<1> DEFINE owned == CompleteSlots(seeder, store)
<1>1. serving' = EncodeServing(owned, TotalSlots) /\ UNCHANGED <<rows, store, seeder, reads>>
  BY DEF PublishServing
<1>2. owned \in SUBSET (0..TotalSlots - 1) /\ TotalSlots \in Nat
  BY DEF CompleteSlots, NumberedTree
<1>3. DecodeServing(NoField, TotalSlots) = {}
  BY DEF DecodeServing, NoField
<1>4. FieldIsExact(owned, TotalSlots)
  <2> HIDE DEF owned
  <2> QED  BY <1>2, FieldsListWhatIsHeld
<1>5. DecodeServing(serving', TotalSlots) \subseteq owned
  <2> HIDE DEF owned
  <2> QED  BY <1>1, <1>3, <1>4 DEF FieldIsExact
<1>6. CardIsTrue'
  BY <1>1, <1>5 DEF CardIsTrue, TotalSlots, CompleteSlots
<1>7. LoneRead(reads[r])' /\ SeederFollows' /\ KeptIsSeeded(r)'
  BY <1>1 DEF LoneInv, LoneRead, SeederFollows, KeptIsSeeded, Seeding
<1>8. QED
  BY <1>6, <1>7 DEF LoneInv

\* The steps that find the row, ask for a range and end a read.
LEMMA LoneAside ==
    ASSUME SourcesInv, NEW r \in Readers, LoneInv(r),
           Begin(r) \/ LookUpRow(r) \/ AskRow(r) \/ ReadRanged(r) \/ RetryOrigin(r)
           \/ AskPeer(r) \/ Return(r)
    PROVE  LoneInv(r)'
<1>1. reads[r] \in ReadState /\ LoneRead(reads[r])
  BY ReadsAreTyped DEF LoneInv
<1>2. /\ UNCHANGED <<rows, store, seeder, serving>>
      /\ reads[r].pc \in {"idle", "row", "ask", "ranged", "retry", "peers", "done", "failed"}
  BY DEF Begin, LookUpRow, AskRow, ReadRanged, RetryOrigin, AskPeer, Return, setVars
<1>3. \A s \in Slots : ~Seeding(reads[r], s)
  BY <1>2 DEF Seeding
<1>4. \E step : Go(r, step) /\ LoneRead(step)
  <2>1. CASE Begin(r)
    <3>1. PICK s \in Slots : Go(r, [Idle EXCEPT !.pc = "row", !.slot = s, !.first = active])
      BY <2>1 DEF Begin
    <3> DEFINE step == [Idle EXCEPT !.pc = "row", !.slot = s, !.first = active]
    <3>2. step.pc = "row"
      BY DEF Idle
    <3> HIDE DEF step
    <3>3. LoneRead(step)
      BY <3>2 DEF LoneRead
    <3>4. QED
      BY <3>1, <3>3 DEF step
  <2>2. CASE LookUpRow(r)
    <3> DEFINE known == rows[reads[r].slot]
               found == [reads[r] EXCEPT !.pc = "chunks", !.row = known, !.left = Parts]
               none == [reads[r] EXCEPT !.pc = "ask"]
    <3>1. Go(r, IF known # 0 THEN found ELSE none)
      BY <2>2 DEF LookUpRow
    <3>2. /\ found.pc = "chunks" /\ found.row = known /\ found.slot = reads[r].slot
          /\ none.pc = "ask" /\ none.slot = reads[r].slot
      BY <1>1 DEF ReadState
    <3> HIDE DEF found, none
    <3>3. LoneRead(found) /\ (known = 0 => LoneRead(none))
      BY <3>2 DEF LoneRead
    <3>4. QED
      BY <3>1, <3>3
  <2>3. CASE AskRow(r)
    <3> DEFINE told == [reads[r] EXCEPT !.pc = "keep", !.row = content[reads[r].slot]]
               untold == [reads[r] EXCEPT !.pc = "ranged"]
    <3>1. Go(r, told) \/ Go(r, untold)
      BY <2>3 DEF AskRow
    <3>2. /\ told.pc = "keep" /\ told.slot = reads[r].slot /\ untold.pc = "ranged"
          /\ rows[reads[r].slot] = 0
      BY <1>1, <2>3 DEF AskRow, ReadState, LoneRead
    <3> HIDE DEF told, untold
    <3>3. LoneRead(told) /\ LoneRead(untold)
      BY <3>2 DEF LoneRead
    <3>4. QED
      BY <3>1, <3>3
  <2>4. CASE ReadRanged(r) \/ RetryOrigin(r) \/ AskPeer(r) \/ Return(r)
    <3>1. \E step : Go(r, step) /\ step.pc \in {"idle", "retry", "peers", "done", "failed"}
      <4> DEFINE done(got) == [reads[r] EXCEPT !.pc = "done", !.got = got]
                 peers(list) == [reads[r] EXCEPT !.pc = "peers", !.queue = list]
                 failed == [reads[r] EXCEPT !.pc = "failed", !.got = {}]
                 retry == [reads[r] EXCEPT !.pc = "retry"]
                 passed == [reads[r] EXCEPT !.queue = Tail(@)]
      <4>1. /\ \A got : done(got).pc = "done"
            /\ \A list : peers(list).pc = "peers"
            /\ failed.pc = "failed" /\ retry.pc = "retry" /\ passed.pc = reads[r].pc
            /\ Idle.pc = "idle"
        BY <1>1 DEF ReadState, Idle
      <4>2. \/ \E got : Go(r, done(got))
            \/ \E list : Go(r, peers(list))
            \/ Go(r, failed) \/ Go(r, retry) \/ Go(r, Idle)
            \/ Go(r, passed) /\ reads[r].pc = "peers"
        BY <2>4 DEF ReadRanged, RetryOrigin, AskPeer, Return, Done, Failed
      <4> HIDE DEF done, peers, failed, retry, passed
      <4>3. QED
        BY <4>1, <4>2
    <3>2. QED
      BY <3>1 DEF LoneRead
  <2>5. QED
    BY <2>1, <2>2, <2>3, <2>4
<1>5. QED
  BY <1>2, <1>3, <1>4, LoneMove

\* A step of the world, or of the read under way.
LEMMA LoneStep ==
    ASSUME SourcesInv, NumberedTree, NEW r \in Readers, LoneInv(r),
           \/ \E s \in Editable : Edit(s)
           \/ \E p \in Leavers : PeerLeaves(p)
           \/ OriginFails \/ OriginReturns \/ FollowTree \/ PublishServing
           \/ Begin(r) \/ Step(r) \/ UNCHANGED vars
    PROVE  LoneInv(r)'
<1>1. ASSUME UNCHANGED <<rows, store, seeder, serving, reads>>  PROVE LoneInv(r)'
  BY <1>1 DEF LoneInv, LoneRead, SeederFollows, KeptIsSeeded, Seeding, CardIsTrue, TotalSlots,
              CompleteSlots
<1>2. CASE \/ (\E s \in Editable : Edit(s)) \/ (\E p \in Leavers : PeerLeaves(p))
           \/ OriginFails \/ OriginReturns \/ FollowTree \/ UNCHANGED vars
  BY <1>1, <1>2 DEF Edit, PeerLeaves, OriginFails, OriginReturns, FollowTree, setVars, vars
<1>3. CASE PublishServing
  BY <1>3, LonePublish
<1>4. CASE KeepRow(r)
  BY <1>4, LoneKeep
<1>5. CASE ReadChunk(r)
  BY <1>5, LoneChunk
<1>6. CASE Adopt(r) \/ Arm(r)
  BY <1>6, LoneHandOver
<1>7. CASE Begin(r) \/ LookUpRow(r) \/ AskRow(r) \/ ReadRanged(r) \/ RetryOrigin(r)
           \/ AskPeer(r) \/ Return(r)
  BY <1>7, LoneAside
<1>8. QED
  BY <1>2, <1>3, <1>4, <1>5, <1>6, <1>7 DEF Step

\* The steps of one read leave the others as they are.
LEMMA AloneStays ==
    ASSUME SourcesInv, NEW r \in Readers, Alone(r),
           \/ \E s \in Editable : Edit(s)
           \/ \E p \in Leavers : PeerLeaves(p)
           \/ OriginFails \/ OriginReturns \/ FollowTree \/ PublishServing
           \/ Begin(r) \/ Step(r) \/ UNCHANGED vars
    PROVE  Alone(r)'
<1>1. UNCHANGED reads \/ \E step : Go(r, step)
  BY DEF Edit, PeerLeaves, OriginFails, OriginReturns, FollowTree, PublishServing, vars, Begin,
         Step, LookUpRow, AskRow, KeepRow, ReadChunk, Adopt, Arm, ReadRanged, RetryOrigin, AskPeer,
         Return, Done, Failed
<1>2. QED
  <2>1. reads \in [Readers -> ReadState]
    BY DEF SourcesInv, Types
  <2>2. \A q \in Readers : q # r => reads'[q] = reads[q]
    BY <1>1, <2>1 DEF Go
  <2>3. QED
    BY <2>2 DEF Alone, Idle

\* When nobody reads, what is known of one read is known of any.
LEMMA AnyIdleRead ==
    ASSUME NEW r \in Readers, NEW q \in Readers, LoneInv(r), reads[r] = Idle, reads[q] = Idle
    PROVE  LoneInv(q)
<1>1. Idle.pc = "idle"
  BY DEF Idle
<1>2. LoneRead(reads[q])
  BY <1>1 DEF LoneRead
<1>3. \A s : ~Seeding(reads[r], s)
  BY <1>1 DEF Seeding
<1>4. KeptIsSeeded(q)
  BY <1>3 DEF LoneInv, KeptIsSeeded
<1>5. QED
  BY <1>2, <1>4 DEF LoneInv

\* Whoever reads next is the lone read.
LEMMA LoneReadStep ==
    ASSUME SourcesInv, NumberedTree, LoneReadInv, [Next /\ OneAtATime']_vars
    PROVE  LoneReadInv'
<1>1. PICK r \in Readers : Alone(r) /\ LoneInv(r)
  BY DEF LoneReadInv
<1>2. CASE \/ (\E s \in Editable : Edit(s)) \/ (\E p \in Leavers : PeerLeaves(p))
           \/ OriginFails \/ OriginReturns \/ FollowTree \/ PublishServing
           \/ Begin(r) \/ Step(r) \/ UNCHANGED vars
  BY <1>1, <1>2, LoneStep, AloneStays DEF LoneReadInv
<1>3. ASSUME NEW q \in Readers, q # r, Begin(q) \/ Step(q), OneAtATime'
      PROVE  LoneReadInv'
  <2>1. reads[q] = Idle /\ reads[q].pc = "idle"
    <3>1. reads[q] = Idle
      BY <1>1, <1>3 DEF Alone
    <3>2. QED
      BY <3>1 DEF Idle
  <2>2. Begin(q)
    BY <1>3, <2>1 DEF Step, LookUpRow, AskRow, KeepRow, ReadChunk, Adopt, Arm, ReadRanged, RetryOrigin,
                      AskPeer, Return
  <2>3. PICK s \in Slots : reads' = [reads EXCEPT ![q] = [Idle EXCEPT !.pc = "row", !.slot = s, !.first = active]]
    BY <2>2 DEF Begin, Go
  <2>4. reads'[q] # Idle /\ reads'[r] = reads[r]
    <3>1. reads \in [Readers -> ReadState]
      BY DEF SourcesInv, Types
    <3>2. [Idle EXCEPT !.pc = "row", !.slot = s, !.first = active].pc = "row" /\ Idle.pc = "idle"
      BY DEF Idle
    <3>3. QED
      BY <1>3, <2>3, <3>1, <3>2
  <2>5. PICK x \in Readers : Alone(x)'
    BY <1>3 DEF OneAtATime
  <2>6. Alone(q)' /\ reads[r] = Idle
    BY <1>3, <2>4, <2>5 DEF Alone
  <2>7. LoneInv(q)
    BY <1>1, <2>1, <2>6, AnyIdleRead
  <2>8. LoneInv(q)'
    BY <2>2, <2>7, LoneStep
  <2>9. QED
    BY <2>6, <2>8 DEF LoneReadInv
<1>4. QED
  BY <1>2, <1>3 DEF Next

(* What is known of a lone read holds when the mount is attached. *)
LEMMA LoneInit ==
    ASSUME NEW r \in Readers, Init
    PROVE  LoneInv(r)
<1>1. /\ reads[r].pc = "idle" /\ store = {} /\ serving = NoField /\ rows = NoRows
      /\ seeder = NewSeeder /\ NoRows \in [Slots -> Nat] /\ \A s \in Slots : NoRows[s] = 0
  BY DEF Init, Idle, NoRows
<1>2. LoneRead(reads[r])
  BY <1>1 DEF LoneRead
<1>3. SeederFollows
  BY <1>1 DEF SeederFollows, NewSeeder
<1>4. KeptIsSeeded(r)
  BY <1>1 DEF KeptIsSeeded
<1>5. CardIsTrue
  BY <1>1 DEF CardIsTrue, DecodeServing, NoField
<1>6. QED
  BY <1>2, <1>3, <1>4, <1>5 DEF LoneInv

LEMMA LoneReadInit ==
    ASSUME NEW r \in Readers, Init
    PROVE  LoneReadInv
<1>1. Alone(r)
  BY DEF Alone, Init
<1>2. QED
  BY <1>1, LoneInit DEF LoneReadInv

LEMMA LoneReadMeans == LoneReadInv => AdvertisedSlotsAreServable /\ ReadSlotsAreSeeded
<1> SUFFICES ASSUME NEW r \in Readers, LoneInv(r)
             PROVE  AdvertisedSlotsAreServable /\ ReadSlotsAreSeeded
  BY DEF LoneReadInv
<1>1. AdvertisedSlotsAreServable
  BY DEF LoneInv, CardIsTrue, AdvertisedSlotsAreServable, CompleteSlots, CanRead
<1>2. ReadSlotsAreSeeded
  BY DEF LoneInv, KeptIsSeeded, Seeding, ReadSlotsAreSeeded, Quiet, CanRead
<1>3. QED
  BY <1>1, <1>2

\* When reads come one at a time and no file is added, every slot this mount's
\* card lists can be read from it, whole, whatever changes, fails or is not kept;
\* and a file whose chunks a read left in the store is seeded once no read is in
\* flight.
THEOREM LoneReadsServe ==
    ASSUME Readers # {}, NumberedTree
    PROVE  OneByOne => [](AdvertisedSlotsAreServable /\ ReadSlotsAreSeeded)
<1>1. Init => SourcesInv /\ LoneReadInv
  BY SourcesInit, LoneReadInit
<1>2. SourcesInv /\ LoneReadInv /\ [Next /\ OneAtATime']_vars => SourcesInv' /\ LoneReadInv'
  <2>1. SourcesInv /\ [Next /\ OneAtATime']_vars => SourcesInv'
    BY SourcesStep
  <2>2. QED
    BY <2>1, LoneReadStep
<1>3. LoneReadInv => AdvertisedSlotsAreServable /\ ReadSlotsAreSeeded
  BY LoneReadMeans
<1>4. QED
  BY <1>1, <1>2, <1>3, PTL DEF OneByOne

\* The instance the model checker is given is one of these while its reads are
\* alone, and publishes nothing while they are not.
BoundedInv ==
    /\ SourcesInv
    /\ IF lone THEN LoneReadInv ELSE serving = NoField

LEMMA BoundedStep ==
    ASSUME Readers = TwoReaders, NumberedTree, BoundedInv,
           [Next /\ UNCHANGED lone /\ Bound']_<<vars, lone>>
    PROVE  BoundedInv'
<1>1. [Next]_vars /\ lone' = lone
  OBVIOUS
<1>2. SourcesInv'
  BY <1>1, SourcesStep DEF BoundedInv
<1>3. CASE lone
  <2>1. [Next /\ OneAtATime']_vars
    <3>1. CASE Bound'
      <4>1. reads'[r2] = Idle /\ Readers = {r1, r2}
        BY <1>1, <1>3, <3>1 DEF Bound, TwoReaders
      <4>2. Alone(r1)'
        BY <4>1 DEF Alone
      <4>3. QED
        BY <1>1, <4>1, <4>2 DEF OneAtATime
    <3>2. CASE UNCHANGED <<vars, lone>>
      BY <3>2
    <3>3. QED
      BY <3>1, <3>2
  <2>2. LoneReadInv'
    BY <1>3, <2>1, LoneReadStep DEF BoundedInv
  <2>3. QED
    BY <1>1, <1>2, <1>3, <2>2 DEF BoundedInv
<1>4. CASE ~lone
  <2>1. serving' = NoField
    BY <1>4 DEF BoundedInv, Bound, vars, setVars
  <2>2. QED
    BY <1>1, <1>2, <1>4, <2>1 DEF BoundedInv
<1>5. QED
  BY <1>3, <1>4

\* Two reads, of one file at once or one at a time: what the card lists can be
\* read, and what a lone read left in the store is seeded.
THEOREM LoneReadsSeed ==
    ASSUME Readers = TwoReaders, NumberedTree
    PROVE  BoundedSpec => [](AdvertisedSlotsAreServable /\ LoneReadsAreSeeded)
<1>1. EitherInit => BoundedInv
  <2>1. r1 \in Readers
    BY DEF TwoReaders
  <2>2. QED
    BY <2>1, SourcesInit, LoneReadInit DEF EitherInit, BoundedInv, Init
<1>2. BoundedInv /\ [Next /\ UNCHANGED lone /\ Bound']_<<vars, lone>> => BoundedInv'
  BY BoundedStep
<1>3. BoundedInv => AdvertisedSlotsAreServable /\ LoneReadsAreSeeded
  <2>1. serving = NoField => AdvertisedSlotsAreServable
    BY DEF AdvertisedSlotsAreServable, DecodeServing, NoField
  <2>2. QED
    BY <2>1, LoneReadMeans DEF BoundedInv, LoneReadsAreSeeded
<1>4. QED
  BY <1>1, <1>2, <1>3, PTL DEF BoundedSpec

\* Every field over the holdings the model checker enumerates says neither less
\* nor more than its peer holds: those holdings are among the trees, holdings and
\* limits of the two theorems on serving fields.
THEOREM ServingFieldsStayTrue == BoundedSpec => []ServingFieldsAreTrue
<1>1. ASSUME NEW total \in Totals  PROVE total \in Nat /\ Holdings(total) \subseteq SUBSET (0..total - 1)
  <2>1. Ends(total) \subseteq 0..total - 1
    BY DEF Ends
  <2>2. QED
    BY <2>1 DEF Totals, Holdings, kSubset
<1>2. FieldsAreExact
  BY <1>1, FieldsListWhatIsHeld DEF FieldsAreExact
<1>3. HoldersAreAdvertised
  <2>1. MaxBitmapSlots \in Nat
    BY MaxCharsAssumption DEF MaxBitmapSlots
  <2>2. QED
    BY <1>1, <2>1, SmallTreesAreAdvertised DEF HoldersAreAdvertised
<1>4. ServingFieldsAreTrue
  BY <1>2, <1>3 DEF ServingFieldsAreTrue
<1>5. QED
  BY <1>4, PTL

-----------------------------------------------------------------------------
(* Mounted.                                                                *)

Phases == {"idle", "connecting", "dialing", "opening", "asked", "unopened", "refused", "ended"}

UserState ==
    [phase : Phases, attempt : {0, 1}, conn : Nat, since : Nat]

RequestTypes ==
    /\ user \in [Users -> UserState]
    /\ dialled \in Nat /\ cached \in 0..dialled /\ holder \in Users \cup {0}
    /\ dead \subseteq 1..dialled

\* The connection lock is held by whoever is dialling, and by nobody else.
DiallersHoldTheLock ==
    \A u \in Users : user[u].phase = "dialing" <=> holder = u

\* What one request knows of the connections lost since it was made: one for
\* the attempt that failed, and one more when its own has died under it.
Evidence(u) == user[u].attempt + (IF user[u].conn \in dead THEN 1 ELSE 0)

AttemptsAreEvidence ==
    \A u \in Users :
        /\ user[u].phase \in {"connecting", "dialing"} =>
                Cardinality(dead) >= user[u].since + user[u].attempt
        /\ user[u].phase = "opening" => Cardinality(dead) >= user[u].since + Evidence(u)
        /\ user[u].phase = "unopened" => Cardinality(dead) >= user[u].since + 2

\* The kernel's loop is inside the file, and at its end when it is over.
LoopsStayInTheFile ==
    /\ reading \in [phase : {"idle", "reading", "read", "failed"}, path : {reading.path},
                    index : {reading.index}, offset : 0..FileSize]
    /\ reading.phase = "read" => reading.offset = FileSize

RequestInv ==
    RequestTypes /\ DiallersHoldTheLock /\ AttemptsAreEvidence /\ LoopsStayInTheFile

-----------------------------------------------------------------------------

\* The lost connections are counted, and one more is one more.
LEMMA LossesAreCounted ==
    ASSUME RequestTypes
    PROVE  /\ IsFiniteSet(dead) /\ Cardinality(dead) \in Nat
           /\ \A c : c \notin dead => Cardinality(dead \cup {c}) = Cardinality(dead) + 1
<1>1. IsFiniteSet(dead)
  <2>1. IsFiniteSet(1..dialled)
    BY FS_Interval DEF RequestTypes
  <2>2. QED
    BY <2>1, FS_Subset DEF RequestTypes
<1>2. QED
  BY <1>1, FS_CardinalityType, FS_AddElement

\* The initial states satisfy the inductive invariant.
LEMMA InitRequests == MountedInit => RequestInv
<1> SUFFICES ASSUME MountedInit  PROVE RequestInv
  OBVIOUS
<1>1. user \in [Users -> UserState] /\ \A u \in Users :
            user[u].phase \in {"idle", "connecting"} /\ user[u].attempt = 0 /\ user[u].since = 0
  BY DEF MountedInit, NoRequest, Users, Reader, Watcher, UserState, Phases
<1>2. RequestTypes
  BY <1>1 DEF MountedInit, RequestTypes
<1>3. Cardinality(dead) = 0
  BY FS_EmptySet DEF MountedInit
<1>4. AttemptsAreEvidence
  BY <1>1, <1>3 DEF AttemptsAreEvidence
<1>5. LoopsStayInTheFile
  BY MountedAssumption DEF MountedInit, NoReading, LoopsStayInTheFile
<1>6. DiallersHoldTheLock
  BY <1>1 DEF MountedInit, DiallersHoldTheLock, Users, Reader, Watcher
<1>7. QED
  BY <1>2, <1>4, <1>5, <1>6 DEF RequestInv

\* A request of either user moves on as the client lets it.
LEMMA MovesStep ==
    ASSUME RequestInv, NEW u \in Users, NEW step \in UserState, Moves(u, step), UNCHANGED dead,
           dialled' \in Nat, dialled' >= dialled, cached' \in 0..dialled',
           holder' \in Users \cup {0},
           step.phase = "dialing" <=> holder' = u,
           \A v \in Users \ {u} : (holder' = v) <=> (holder = v),
           step.phase \in {"connecting", "dialing"} =>
                Cardinality(dead) >= step.since + step.attempt,
           step.phase = "opening" => /\ step.conn \notin dead
                                     /\ Cardinality(dead) >= step.since + step.attempt,
           step.phase = "unopened" => Cardinality(dead) >= step.since + 2
    PROVE  RequestTypes' /\ DiallersHoldTheLock' /\ AttemptsAreEvidence'
<1>1. user \in [Users -> UserState]
  BY DEF RequestInv, RequestTypes
<1>2. user'[u] = step /\ \A v \in Users \ {u} : user'[v] = user[v]
  BY <1>1 DEF Moves
<1>3. user' \in [Users -> UserState]
  BY <1>1 DEF Moves
<1>4. RequestTypes'
  BY <1>3 DEF RequestInv, RequestTypes
<1>5. DiallersHoldTheLock'
  BY <1>2 DEF RequestInv, DiallersHoldTheLock
<1>6. AttemptsAreEvidence'
  <2> SUFFICES ASSUME NEW v \in Users
               PROVE  /\ user'[v].phase \in {"connecting", "dialing"} =>
                            Cardinality(dead') >= user'[v].since + user'[v].attempt
                      /\ user'[v].phase = "opening" =>
                            Cardinality(dead') >= user'[v].since + Evidence(v)'
                      /\ user'[v].phase = "unopened" => Cardinality(dead') >= user'[v].since + 2
    BY DEF AttemptsAreEvidence
  <2>1. CASE v = u
    <3>1. step.phase = "opening" => Evidence(v)' = step.attempt
      BY <1>2, <2>1 DEF Evidence, UserState
    <3>2. QED
      BY <1>2, <2>1, <3>1
  <2>2. CASE v # u
    <3>1. user'[v] = user[v] /\ Evidence(v)' = Evidence(v) /\ dead' = dead
      BY <1>2, <2>2 DEF Evidence
    <3>2. QED
      BY <3>1 DEF RequestInv, AttemptsAreEvidence
  <2>3. QED
    BY <2>1, <2>2
<1>7. QED
  BY <1>4, <1>5, <1>6

\* A connection that dies is evidence for whoever was about to open on it.
LEMMA DeathStep ==
    ASSUME RequestInv, NEW c, Die(c)
    PROVE  RequestTypes' /\ DiallersHoldTheLock' /\ AttemptsAreEvidence'
<1>1. /\ dead' = dead \cup {c} /\ c \notin dead /\ c \in 1..dialled
      /\ UNCHANGED <<user, cached, holder, dialled>>
  BY DEF Die
<1>2. Cardinality(dead) \in Nat /\ Cardinality(dead') = Cardinality(dead) + 1
  BY <1>1, LossesAreCounted DEF RequestInv
<1>3. \A u \in Users : user[u].attempt \in {0, 1} /\ user[u].since \in Nat
  BY DEF RequestInv, RequestTypes, UserState
<1>4. \A u \in Users : Evidence(u) \in Nat /\ Evidence(u)' <= Evidence(u) + 1
                       /\ user[u].attempt <= Evidence(u)
  BY <1>1, <1>3 DEF Evidence
<1>5. \A u \in Users : Evidence(u)' \in Nat
  BY <1>1, <1>3 DEF Evidence
<1>6. AttemptsAreEvidence'
  BY <1>1, <1>2, <1>3, <1>4, <1>5 DEF RequestInv, AttemptsAreEvidence
<1>7. QED
  BY <1>1, <1>6 DEF RequestInv, RequestTypes, DiallersHoldTheLock

\* The answers to the kernel's loop keep it inside the file.
LEMMA LoopStep ==
    ASSUME RequestInv, [MountedNext]_mountedVars
    PROVE  LoopsStayInTheFile'
<1> DEFINE Loop(r) == /\ r = [phase |-> r.phase, path |-> r.path, index |-> r.index, offset |-> r.offset]
                      /\ r.phase \in {"idle", "reading", "read", "failed"}
                      /\ r.offset \in 0..FileSize
                      /\ r.phase = "read" => r.offset = FileSize
<1>1. Loop(reading)
  BY DEF RequestInv, LoopsStayInTheFile
<1>2. FileSize \in Nat /\ Asked \in Nat
  BY MountedAssumption DEF Asked, Least
<1>3. CASE StartReading
  <2>1. PICK path, index :
            reading' = [NoReading EXCEPT !.phase = "reading", !.path = path, !.index = index]
    BY <1>3 DEF StartReading
  <2>2. NoReading.offset = 0 /\ 0 \in 0..FileSize
    BY <1>2 DEF NoReading
  <2>3. reading' = [phase |-> "reading", path |-> path, index |-> index, offset |-> 0]
    BY <2>1 DEF NoReading
  <2>4. Loop(reading')
    BY <2>2, <2>3
  <2>5. QED
    BY <2>4 DEF LoopsStayInTheFile
<1>4. CASE Answered
  <2> DEFINE got == Least(Asked, FileSize - reading.offset)
  <2>1. got \in Nat /\ reading.offset + got \in 0..FileSize
        /\ (got < Asked => reading.offset + got = FileSize)
    BY <1>1, <1>2 DEF Least
  <2>2. \/ /\ got < Asked
           /\ reading' = [reading EXCEPT !.phase = "read", !.offset = @ + got]
        \/ \E index : reading' = [reading EXCEPT !.offset = @ + got, !.index = index]
                      /\ user[Reader].phase = "asked"
        \/ reading' = [reading EXCEPT !.phase = "failed"]
    BY <1>4 DEF Answered, EndOfFile
  <2> HIDE DEF got
  <2>3. reading.phase = "read" => reading.offset + got = FileSize
    BY <1>1, <1>2, <2>1
  <2>4. Loop(reading')
    BY <1>1, <2>1, <2>2, <2>3
  <2>5. QED
    BY <2>4 DEF LoopsStayInTheFile
<1>5. CASE ReadFails
  <2>1. reading' = [reading EXCEPT !.phase = "failed"]
    BY <1>5 DEF ReadFails
  <2>2. Loop(reading')
    BY <1>1, <2>1
  <2>3. QED
    BY <2>2 DEF LoopsStayInTheFile
<1>6. CASE ReadingOver
  <2>1. Loop(reading')
    BY <1>2, <1>6 DEF ReadingOver, NoReading
  <2>2. QED
    BY <2>1 DEF LoopsStayInTheFile
<1>7. CASE UNCHANGED reading
  <2>1. Loop(reading')
    BY <1>1, <1>7
  <2>2. QED
    BY <2>1 DEF LoopsStayInTheFile
<1>8. QED
  BY <1>3, <1>4, <1>5, <1>6, <1>7
  DEF MountedNext, TakesTheLock, Progresses, WatchTask, Kernel, ReadCall, Reuse, StartDial, OpenFails,
      Dialled, DialFails, Open, Die, FrameArrives, BadFrameArrives, WatchEnds, WatchRetries,
      StartListing, Page, ListingOver, mountedVars, kernelVars

\* Each step of a request is one the lemma above is about.
LEMMA RequestStep ==
    ASSUME RequestInv, [MountedNext]_mountedVars
    PROVE  RequestTypes' /\ DiallersHoldTheLock' /\ AttemptsAreEvidence'
<1> DEFINE Goal == RequestTypes' /\ DiallersHoldTheLock' /\ AttemptsAreEvidence'
<1>1. /\ \A u \in Users : user[u] \in UserState
      /\ Users = {1, 2} /\ Reader = 1 /\ Watcher = 2
      /\ dialled \in Nat /\ cached \in 0..dialled /\ holder \in {0, 1, 2} /\ dead \subseteq 1..dialled
  BY DEF RequestInv, RequestTypes, Users, Reader, Watcher
<1>2. Cardinality(dead) \in Nat
  BY LossesAreCounted DEF RequestInv
<1>3. \A u \in Users : /\ user[u].phase = "dialing" <=> holder = u
                       /\ user[u].phase \in {"connecting", "dialing"} =>
                                Cardinality(dead) >= user[u].since + user[u].attempt
                       /\ user[u].phase = "opening" => Cardinality(dead) >= user[u].since + Evidence(u)
  BY DEF RequestInv, DiallersHoldTheLock, AttemptsAreEvidence
<1>4. ASSUME NEW u \in Users, Reuse(u)  PROVE Goal
  <2> DEFINE step == [user[u] EXCEPT !.phase = "opening", !.conn = cached]
  <2>1. /\ step \in UserState /\ step.phase = "opening" /\ step.conn = cached
        /\ step.since = user[u].since /\ step.attempt = user[u].attempt
    <3>1. cached \in Nat
      BY <1>1
    <3>2. QED
      BY <1>1, <3>1 DEF UserState, Phases
  <2>2. /\ Moves(u, step) /\ UNCHANGED <<cached, holder, dialled, dead>>
        /\ user[u].phase = "connecting" /\ holder = 0 /\ cached \notin dead
    BY <1>4 DEF Reuse, CachedLives
  <2> HIDE DEF step
  <2>3. QED
    BY <1>1, <1>3, <2>1, <2>2, MovesStep
<1>5. ASSUME NEW u \in Users, StartDial(u)  PROVE Goal
  <2> DEFINE step == [user[u] EXCEPT !.phase = "dialing"]
  <2>1. /\ step \in UserState /\ step.phase = "dialing"
        /\ step.since = user[u].since /\ step.attempt = user[u].attempt
    BY <1>1 DEF UserState, Phases
  <2>2. /\ Moves(u, step) /\ UNCHANGED <<cached, dialled, dead>>
        /\ user[u].phase = "connecting" /\ holder = 0 /\ holder' = u
    BY <1>5 DEF StartDial
  <2>3. /\ \A v \in Users \ {u} : holder' # v /\ holder # v
        /\ Cardinality(dead) >= user[u].since + user[u].attempt
    BY <1>1, <1>3, <2>2
  <2>4. /\ dialled' \in Nat /\ dialled' >= dialled /\ cached' \in 0..dialled'
        /\ holder' \in Users \cup {0}
    BY <1>1, <2>2
  <2>5. /\ \A v \in Users \ {u} : holder' = v <=> holder = v
        /\ step.phase = "dialing" <=> holder' = u
        /\ Cardinality(dead) >= step.since + step.attempt
    <3> HIDE DEF step
    <3> QED  BY <2>1, <2>2, <2>3
  <2> HIDE DEF step
  <2>6. QED
    BY <2>1, <2>2, <2>4, <2>5, MovesStep
<1>6. ASSUME NEW u \in Users, Dialled(u)  PROVE Goal
  <2> DEFINE step == [user[u] EXCEPT !.phase = "opening", !.conn = dialled + 1]
  <2>1. /\ step \in UserState /\ step.phase = "opening" /\ step.conn = dialled + 1
        /\ step.since = user[u].since /\ step.attempt = user[u].attempt
    <3>1. dialled + 1 \in Nat
      BY <1>1
    <3>2. QED
      BY <1>1, <3>1 DEF UserState, Phases
  <2>2. /\ Moves(u, step) /\ dialled' = dialled + 1 /\ cached' = dialled + 1 /\ UNCHANGED dead
        /\ user[u].phase = "dialing" /\ holder = u /\ holder' = 0
    BY <1>3, <1>6 DEF Dialled
  <2>3. dialled + 1 \notin dead /\ cached' \in 0..dialled' /\ dialled' \in Nat /\ dialled' >= dialled
    BY <1>1, <2>2
  <2> HIDE DEF step
  <2>4. QED
    BY <1>1, <1>3, <2>1, <2>2, <2>3, MovesStep
<1>7. ASSUME NEW u \in Users, DialFails(u)  PROVE Goal
  <2> DEFINE step == [user[u] EXCEPT !.phase = "refused"]
  <2>1. step \in UserState /\ step.phase = "refused"
    BY <1>1 DEF UserState, Phases
  <2>2. /\ Moves(u, step) /\ UNCHANGED <<cached, dialled, dead>> /\ holder = u /\ holder' = 0
    BY <1>3, <1>7 DEF DialFails
  <2> HIDE DEF step
  <2>3. QED
    BY <1>1, <2>1, <2>2, MovesStep
<1>8. ASSUME NEW u \in Users, Open(u)  PROVE Goal
  <2> DEFINE step == [user[u] EXCEPT !.phase = "asked"]
  <2>1. step \in UserState /\ step.phase = "asked"
    BY <1>1 DEF UserState, Phases
  <2>2. /\ Moves(u, step) /\ UNCHANGED <<cached, dialled, dead, holder>> /\ holder # u
    BY <1>3, <1>8 DEF Open
  <2> HIDE DEF step
  <2>3. QED
    BY <1>1, <2>1, <2>2, MovesStep
<1>9. ASSUME NEW u \in Users, OpenFails(u)  PROVE Goal
  <2> DEFINE gives == [user[u] EXCEPT !.phase = "unopened"]
             again == [user[u] EXCEPT !.phase = "connecting", !.attempt = 1]
  <2>1. /\ gives \in UserState /\ gives.phase = "unopened" /\ gives.since = user[u].since
        /\ again \in UserState /\ again.phase = "connecting" /\ again.since = user[u].since
        /\ again.attempt = 1
    BY <1>1 DEF UserState, Phases
  <2>2. Cardinality(dead) >= user[u].since + user[u].attempt + 1
        /\ user[u].attempt \in {0, 1} /\ user[u].since \in Nat
    BY <1>1, <1>2, <1>3, <1>9 DEF OpenFails, Evidence, UserState
  <2>3. /\ cached' = 0 /\ UNCHANGED <<holder, dialled, dead>> /\ holder = 0
        /\ IF user[u].attempt = 1 THEN Moves(u, gives) ELSE Moves(u, again)
    BY <1>9 DEF OpenFails
  <2> HIDE DEF gives, again
  <2>4. CASE user[u].attempt = 1
    <3>1. Cardinality(dead) >= gives.since + 2 /\ 0 \in 0..dialled
      BY <1>1, <1>2, <2>1, <2>2, <2>4
    <3>2. QED
      BY <1>1, <2>1, <2>3, <2>4, <3>1, MovesStep
  <2>5. CASE user[u].attempt # 1
    <3>1. Cardinality(dead) >= again.since + again.attempt /\ 0 \in 0..dialled
      BY <1>1, <1>2, <2>1, <2>2, <2>5
    <3>2. QED
      BY <1>1, <2>1, <2>3, <2>5, <3>1, MovesStep
  <2>6. QED
    BY <2>4, <2>5
<1>10. /\ NewRequest \in UserState /\ NoRequest \in UserState
       /\ NewRequest.phase = "connecting" /\ NewRequest.since = Cardinality(dead)
       /\ NewRequest.attempt = 0 /\ NoRequest.phase = "idle"
  BY <1>2 DEF NewRequest, NoRequest, UserState, Phases
<1>11. CASE WatchEnds \/ WatchRetries
  <2> DEFINE ended == [user[Watcher] EXCEPT !.phase = "ended"]
  <2>1. ended \in UserState /\ ended.phase = "ended"
    BY <1>1 DEF UserState, Phases
  <2>2. /\ user[Watcher].phase # "dialing" /\ UNCHANGED <<cached, holder, dialled, dead>>
        /\ Moves(Watcher, ended) \/ Moves(Watcher, NewRequest)
    BY <1>11 DEF WatchEnds, WatchRetries
  <2> HIDE DEF ended
  <2>3. QED
    BY <1>1, <1>2, <1>3, <1>10, <2>1, <2>2, MovesStep
<1>12. CASE StartReading \/ Answered \/ ReadFails
  <2>1. user[Reader].phase # "dialing" /\ UNCHANGED <<cached, holder, dialled, dead>>
    BY <1>12 DEF StartReading, Answered, ReadFails
  <2>2. Moves(Reader, NoRequest) \/ Moves(Reader, NewRequest)
    BY <1>12 DEF StartReading, Answered, ReadFails
  <2>3. QED
    BY <1>1, <1>2, <1>3, <1>10, <2>1, <2>2, MovesStep
<1>13. CASE \E c \in 1..dialled : Die(c)
  BY <1>13, DeathStep
<1>14. CASE UNCHANGED clientVars
  <2>1. \A u \in Users : Evidence(u)' = Evidence(u)
    BY <1>14 DEF clientVars, Evidence
  <2>2. QED
    BY <1>14, <2>1
    DEF clientVars, RequestInv, RequestTypes, DiallersHoldTheLock, AttemptsAreEvidence
<1>15. QED
  BY <1>4, <1>5, <1>6, <1>7, <1>8, <1>9, <1>11, <1>12, <1>13, <1>14
  DEF MountedNext, TakesTheLock, Progresses, WatchTask, Kernel, ReadCall, FrameArrives, BadFrameArrives,
      StartListing, Page, ListingOver, ReadingOver, mountedVars

-----------------------------------------------------------------------------

\* The inductive invariant holds throughout: an attempt that failed is a
\* connection lost since its request was made, and the kernel's loop is inside
\* its file.
THEOREM RequestsInvariant == MountedSpec => []RequestInv
<1>1. RequestInv /\ [MountedNext]_mountedVars => RequestInv'
  BY RequestStep, LoopStep DEF RequestInv
<1>2. QED
  BY <1>1, InitRequests, PTL DEF MountedSpec

\* A reading program that is told it reached the end has the whole file, and a
\* request gives up on opening a stream only when two connections died under
\* it, whoever of the two users noticed them.  RemoteFs::read, RemoteClient::request.
THEOREM ReadsComeThrough == MountedSpec => []ReadsAreCarriedThrough
<1>1. RequestInv => ReadsAreCarriedThrough
  BY DEF RequestInv, LoopsStayInTheFile, AttemptsAreEvidence, ReadsAreCarriedThrough,
         ReadsReachTheEnd, OneDropIsRiddenOut
<1>2. QED
  BY <1>1, RequestsInvariant, PTL

-----------------------------------------------------------------------------
(* Paths.                                                                    *)

AllPaths == Seq(Nat)

\* The first n names of a path.
LEMMA PrefixIs ==
    ASSUME NEW p \in AllPaths, NEW n \in 0..Len(p)
    PROVE  LET q == SubSeq(p, 1, n)
           IN  /\ q \in AllPaths /\ Len(q) = n /\ \A i \in 1..n : q[i] = p[i]
               /\ n = 0 => q = Root
               /\ n # 0 => q # Root /\ Last(q) = p[n] /\ Parent(q) = SubSeq(p, 1, n - 1)
<1> DEFINE q == SubSeq(p, 1, n)
<1>1. Len(p) \in Nat /\ (\A i \in 1..Len(p) : p[i] \in Nat) /\ n \in Nat /\ n <= Len(p)
  BY LenProperties, ElementOfSeq DEF AllPaths
<1>2. \A i \in 1..n : p[i] \in Nat
  BY <1>1
<1>3. q \in Seq(Nat) /\ Len(q) = n /\ \A i \in 1..n : q[i] = p[i]
  <2>1. /\ SubSeq(p, 1, n) \in Seq(Nat)
        /\ Len(SubSeq(p, 1, n)) = IF 1 <= n THEN n - 1 + 1 ELSE 0
        /\ \A i \in 1..n - 1 + 1 : SubSeq(p, 1, n)[i] = p[1 + i - 1]
    BY <1>1, <1>2, SubSeqProperties
  <2>2. QED
    BY <1>1, <2>1
<1>4. n = 0 => q = Root
  BY <1>1, SubSeqEmpty DEF Root
<1>5. ASSUME n # 0
      PROVE  q # Root /\ Last(q) = p[n] /\ Parent(q) = SubSeq(p, 1, n - 1)
  <2>1. q # Root
    BY <1>1, <1>3, <1>5, EmptySeq DEF Root
  <2>2. Last(q) = p[n]
    BY <1>1, <1>3, <1>5 DEF Last
  <2>3. Parent(q) = SubSeq(q, 1, n - 1)
    BY <1>3 DEF Parent
  <2>4. \A i \in 1..n - 1 : q[i] = p[i] /\ p[i] \in Nat
    BY <1>1, <1>3
  <2> DEFINE a == SubSeq(q, 1, n - 1)
             b == SubSeq(p, 1, n - 1)
  <2> HIDE DEF q
  <2>5. a \in Seq(Nat) /\ Len(a) = n - 1 /\ \A i \in 1..n - 1 : a[i] = q[i]
    <3>1. n - 1 \in Int /\ \A i \in 1..n - 1 : q[i] \in Nat
      BY <1>1, <2>4
    <3>2. /\ SubSeq(q, 1, n - 1) \in Seq(Nat)
          /\ Len(SubSeq(q, 1, n - 1)) = IF 1 <= n - 1 THEN n - 1 - 1 + 1 ELSE 0
          /\ \A i \in 1..n - 1 - 1 + 1 : SubSeq(q, 1, n - 1)[i] = q[1 + i - 1]
      BY <3>1, SubSeqProperties
    <3>3. QED
      BY <1>1, <1>5, <3>2
  <2>6. b \in Seq(Nat) /\ Len(b) = n - 1 /\ \A i \in 1..n - 1 : b[i] = p[i]
    <3>1. n - 1 \in Int /\ \A i \in 1..n - 1 : p[i] \in Nat
      BY <1>1, <2>4
    <3>2. /\ SubSeq(p, 1, n - 1) \in Seq(Nat)
          /\ Len(SubSeq(p, 1, n - 1)) = IF 1 <= n - 1 THEN n - 1 - 1 + 1 ELSE 0
          /\ \A i \in 1..n - 1 - 1 + 1 : SubSeq(p, 1, n - 1)[i] = p[1 + i - 1]
      BY <3>1, SubSeqProperties
    <3>3. QED
      BY <1>1, <1>5, <3>2
  <2>7. a = b
    <3> HIDE DEF a, b
    <3>1. Len(a) = Len(b) /\ \A i \in 1..Len(a) : a[i] = b[i]
      BY <2>4, <2>5, <2>6
    <3>2. QED
      BY <2>5, <2>6, <3>1, SeqEqual
  <2>8. QED
    BY <2>1, <2>2, <2>3, <2>7
<1>6. QED
  BY <1>3, <1>4, <1>5 DEF AllPaths

\* A path is its parent and its last name.
LEMMA PathIs ==
    ASSUME NEW p \in AllPaths, p # Root
    PROVE  /\ Len(p) \in Nat /\ Len(p) # 0 /\ Last(p) = p[Len(p)] /\ Last(p) \in Nat
           /\ Parent(p) = SubSeq(p, 1, Len(p) - 1) /\ Parent(p) \in AllPaths
           /\ Len(Parent(p)) = Len(p) - 1 /\ p = SubSeq(p, 1, Len(p))
           /\ \A i \in 1..Len(p) - 1 : Parent(p)[i] = p[i]
<1>1. Len(p) \in Nat /\ Len(p) # 0
  BY EmptySeq, LenProperties DEF AllPaths, Root
<1>2. Last(p) = p[Len(p)] /\ p[Len(p)] \in Nat
  BY <1>1, ElementOfSeq DEF AllPaths, Last
<1>3. Parent(p) = SubSeq(p, 1, Len(p) - 1) /\ Len(p) - 1 \in 0..Len(p)
  BY <1>1 DEF Parent
<1>4. Parent(p) \in AllPaths /\ Len(Parent(p)) = Len(p) - 1
      /\ \A i \in 1..Len(p) - 1 : Parent(p)[i] = p[i]
  BY <1>3, PrefixIs
<1>5. p = SubSeq(p, 1, Len(p))
  BY SubSeqFull DEF AllPaths
<1>6. QED
  BY <1>1, <1>2, <1>3, <1>4, <1>5

LEMMA PathIsItsParts ==
    ASSUME NEW p \in AllPaths, NEW q \in AllPaths, p # Root, q # Root,
           Parent(p) = Parent(q), Last(p) = Last(q)
    PROVE  p = q
<1>1. /\ Len(p) \in Nat /\ Len(p) # 0 /\ Len(q) \in Nat /\ Len(q) # 0
      /\ Len(Parent(p)) = Len(p) - 1 /\ Len(Parent(q)) = Len(q) - 1
      /\ Last(p) = p[Len(p)] /\ Last(q) = q[Len(q)]
      /\ \A i \in 1..Len(p) - 1 : Parent(p)[i] = p[i]
      /\ \A i \in 1..Len(q) - 1 : Parent(q)[i] = q[i]
  BY PathIs
<1>2. Len(p) = Len(q)
  BY <1>1
<1>3. \A i \in 1..Len(p) : i = Len(p) \/ i \in 1..Len(p) - 1
  BY <1>1
<1>4. \A i \in 1..Len(p) : p[i] = q[i]
  BY <1>1, <1>2, <1>3
<1>5. QED
  BY <1>2, <1>4, SeqEqual DEF AllPaths

\* The prefixes of a path: itself and those of its parent.
LEMMA PrefixesAre ==
    ASSUME NEW p \in AllPaths
    PROVE  /\ Prefixes(p) = {SubSeq(p, 1, n) : n \in 0..Len(p)} /\ Prefixes(p) \subseteq AllPaths
           /\ p \in Prefixes(p) /\ Root \in Prefixes(p)
           /\ \A q \in Prefixes(p) : Len(q) \in 0..Len(p) /\ q = SubSeq(p, 1, Len(q))
           /\ \A q \in Prefixes(p) : q # Root => Parent(q) \in Prefixes(p)
           /\ p # Root => Prefixes(p) = Prefixes(Parent(p)) \cup {p} /\ p \notin Prefixes(Parent(p))
<1>1. Len(p) \in Nat
  BY LenProperties DEF AllPaths
<1>2. Prefixes(p) = {SubSeq(p, 1, n) : n \in 0..Len(p)}
  BY DEF Prefixes
<1>3. ASSUME NEW q \in Prefixes(p)
      PROVE  /\ q \in AllPaths /\ Len(q) \in 0..Len(p) /\ q = SubSeq(p, 1, Len(q))
             /\ q # Root => Parent(q) \in Prefixes(p)
  <2>1. PICK n \in 0..Len(p) : q = SubSeq(p, 1, n)
    BY <1>2
  <2>2. /\ q \in AllPaths /\ Len(q) = n /\ (n = 0 => q = Root)
        /\ (n # 0 => Parent(q) = SubSeq(p, 1, n - 1))
    BY <2>1, PrefixIs
  <2>3. n # 0 => n - 1 \in 0..Len(p)
    BY <1>1
  <2>4. QED
    BY <1>2, <2>1, <2>2, <2>3
<1>4. p \in Prefixes(p) /\ Root \in Prefixes(p)
  <2>1. p = SubSeq(p, 1, Len(p)) /\ Len(p) \in 0..Len(p) /\ 0 \in 0..Len(p)
    BY <1>1, SubSeqFull DEF AllPaths
  <2>2. SubSeq(p, 1, 0) = Root
    BY <2>1, PrefixIs
  <2>3. QED
    BY <1>2, <2>1, <2>2
<1>5. ASSUME p # Root
      PROVE  Prefixes(p) = Prefixes(Parent(p)) \cup {p} /\ p \notin Prefixes(Parent(p))
  <2> DEFINE above == Parent(p)
  <2>1. /\ Len(p) # 0 /\ above = SubSeq(p, 1, Len(p) - 1) /\ above \in AllPaths /\ Len(above) = Len(p) - 1
        /\ p = SubSeq(p, 1, Len(p)) /\ \A i \in 1..Len(p) - 1 : above[i] = p[i]
    BY <1>5, PathIs
  <2> HIDE DEF above
  <2>2. Prefixes(above) = {SubSeq(above, 1, n) : n \in 0..Len(above)}
    BY DEF Prefixes
  <2>3. ASSUME NEW n \in 0..Len(p) - 1  PROVE SubSeq(above, 1, n) = SubSeq(p, 1, n)
    <3> DEFINE a == SubSeq(above, 1, n)
               b == SubSeq(p, 1, n)
    <3>0. n \in 0..Len(above) /\ n \in 0..Len(p) /\ \A i \in 1..n : i \in 1..Len(p) - 1
      BY <1>1, <2>1
    <3>1. a \in AllPaths /\ Len(a) = n /\ \A i \in 1..n : a[i] = above[i]
      BY <2>1, <3>0, PrefixIs
    <3>2. b \in AllPaths /\ Len(b) = n /\ \A i \in 1..n : b[i] = p[i]
      BY <3>0, PrefixIs
    <3> HIDE DEF a, b
    <3>3. Len(a) = Len(b) /\ \A i \in 1..Len(a) : a[i] = b[i]
      BY <2>1, <3>0, <3>1, <3>2
    <3>4. a = b
      BY <3>1, <3>2, <3>3, SeqEqual DEF AllPaths
    <3>5. QED
      BY <3>4 DEF a, b
  <2>4. \A n \in 0..Len(p) : n = Len(p) \/ n \in 0..Len(p) - 1
    BY <1>1
  <2>5. Prefixes(p) \subseteq Prefixes(above) \cup {p}
    BY <1>2, <2>1, <2>2, <2>3, <2>4
  <2>6. Prefixes(above) \cup {p} \subseteq Prefixes(p)
    <3>1. \A n \in 0..Len(above) : n \in 0..Len(p) /\ n \in 0..Len(p) - 1
      BY <1>1, <2>1
    <3>2. QED
      BY <1>2, <1>4, <2>2, <2>3, <3>1
  <2>7. p \notin Prefixes(above)
    <3>1. ASSUME NEW n \in 0..Len(above), p = SubSeq(above, 1, n)  PROVE FALSE
      <4>1. Len(SubSeq(above, 1, n)) = n
        BY <2>1, PrefixIs
      <4>2. QED
        BY <1>1, <2>1, <3>1, <4>1
    <3>2. QED
      BY <2>2, <3>1
  <2>8. QED
    BY <2>5, <2>6, <2>7 DEF above
<1>6. QED
  BY <1>2, <1>3, <1>4, <1>5

-----------------------------------------------------------------------------
(* The builder.                                                              *)

\* The allocator: every path it has a fileid for has its own.
IdsOk(table) ==
    /\ IsFiniteSet(DOMAIN table) /\ DOMAIN table \subseteq AllPaths
    /\ Root \in DOMAIN table /\ table[Root] = ROOT_ID
    /\ table = [p \in DOMAIN table |-> table[p]]
    /\ \A p \in DOMAIN table : table[p] \in 1..Cardinality(DOMAIN table)
    /\ \A p, q \in DOMAIN table : table[p] = table[q] => p = q

Grows(table, more) ==
    /\ DOMAIN table \subseteq DOMAIN more
    /\ \A p \in DOMAIN table : more[p] = table[p]

Node == [kind : {"gone", "dir", "file"}, name : Nat, parent : Nat, index : Nat, children : Seq(Nat)]

FilePaths(placed) == {f[1] : f \in placed}

\* The node of a path, in a tree that shows some paths and has files placed at
\* some of them.
NodeShows(inodes, table, shown, placed, p) ==
    LET node == inodes[table[p]]
    IN  /\ p # Root => node.name = Last(p)
        /\ p \in FilePaths(placed) => node.kind = "file" /\ <<p, node.index>> \in placed
        /\ p \notin FilePaths(placed) =>
              node.kind = "dir" /\ (p # Root => node.parent = table[Parent(p)])
        /\ ToSet(node.children) = {table[q] : q \in {q \in shown \ {Root} : Parent(q) = p}}

\* A table of inodes shows these paths, with files at these.
TreeIs(inodes, table, shown, placed) ==
    /\ inodes \in Seq(Node)
    /\ Root \in shown /\ shown \subseteq DOMAIN table
    /\ placed \subseteq (shown \ {Root}) \X (Nat \ {0})
    /\ \A p \in shown : table[p] \in 1..Len(inodes)
    /\ \A p \in shown \ {Root} : Parent(p) \in shown
    /\ \A id \in 1..Len(inodes) :
          IF inodes[id].kind = "gone" THEN inodes[id].children = << >>
          ELSE \E p \in shown : table[p] = id
    /\ \A p \in shown : NodeShows(inodes, table, shown, placed, p)

\* id_for gives a path a fileid of its own and takes none away.
LEMMA IdForIs ==
    ASSUME NEW table, IdsOk(table), NEW path \in AllPaths
    PROVE  LET owned == IdFor(table, path)
               n == Cardinality(DOMAIN table)
           IN  /\ IdsOk(owned) /\ Grows(table, owned) /\ n \in Nat
               /\ DOMAIN owned = DOMAIN table \cup {path} /\ owned[path] \in 1..n + 1
               /\ path \in DOMAIN table => owned = table /\ owned[path] \in 1..n
               /\ path \notin DOMAIN table =>
                    owned[path] = n + 1 /\ Cardinality(DOMAIN owned) = n + 1
<1> DEFINE n == Cardinality(DOMAIN table)
           owned == IdFor(table, path)
<1>1. n \in Nat
  BY FS_CardinalityType DEF IdsOk
<1>2. CASE path \in DOMAIN table
  <2>1. owned = table
    BY <1>2 DEF IdFor
  <2>2. Grows(table, table) /\ table[path] \in 1..n /\ DOMAIN table = DOMAIN table \cup {path}
    BY <1>2 DEF Grows, IdsOk
  <2>3. QED
    BY <1>1, <1>2, <2>1, <2>2
<1>3. CASE path \notin DOMAIN table
  <2>1. owned = [q \in DOMAIN table \cup {path} |-> IF q = path THEN n + 1 ELSE table[q]]
    BY <1>3 DEF IdFor
  <2>2. DOMAIN owned = DOMAIN table \cup {path} /\ owned[path] = n + 1
        /\ \A q \in DOMAIN table : owned[q] = table[q]
    BY <1>3, <2>1
  <2>3. Cardinality(DOMAIN owned) = n + 1 /\ IsFiniteSet(DOMAIN owned)
    <3>1. IsFiniteSet(DOMAIN table)
      BY DEF IdsOk
    <3>2. QED
      BY <1>3, <2>2, <3>1, FS_AddElement
  <2>4. owned = [q \in DOMAIN owned |-> owned[q]]
    BY <2>1
  <2> HIDE DEF owned
  <2>5. \A q \in DOMAIN table : table[q] \in 1..n /\ table[q] \in 1..n + 1 /\ table[q] # n + 1
    BY <1>1 DEF IdsOk
  <2>6. \A p, q \in DOMAIN owned : owned[p] = owned[q] => p = q
    <3>1. \A p, q \in DOMAIN table : table[p] = table[q] => p = q
      BY DEF IdsOk
    <3>2. QED
      BY <2>2, <2>5, <3>1
  <2>7. n + 1 \in 1..n + 1
    BY <1>1
  <2>8. IdsOk(owned)
    BY <1>3, <2>2, <2>3, <2>4, <2>5, <2>6, <2>7 DEF IdsOk
  <2>9. Grows(table, owned)
    BY <2>2 DEF Grows
  <2>10. QED
    BY <1>1, <1>3, <2>2, <2>3, <2>7, <2>8, <2>9 DEF owned
<1>4. QED
  BY <1>2, <1>3

\* A build in progress, begun from some allocator: while nothing was refused, its
\* table shows what was added so far.
Building(b, table, shown, placed) ==
    /\ b = [ids |-> b.ids, nodes |-> b.nodes, ok |-> b.ok] /\ b.ok \in BOOLEAN
    /\ IdsOk(b.ids) /\ Grows(table, b.ids)
    /\ b.ok => /\ TreeIs(b.nodes, b.ids, shown, placed)
               /\ Len(b.nodes) = Cardinality(DOMAIN b.ids)

LEMMA GrowsOn ==
    ASSUME NEW x, NEW y, NEW z, Grows(x, y), Grows(y, z)
    PROVE  Grows(x, z)
BY DEF Grows

\* The table after place, its parent told.
Told(inodes, id, node, above) ==
    LET grown == IF id > Len(inodes) THEN Append(inodes, node) ELSE [inodes EXCEPT ![id] = node]
    IN  [grown EXCEPT ![above].children = Append(@, id)]

\* A node that only has other children.
SameBut(new, old, children) ==
    /\ new.kind = old.kind /\ new.name = old.name
    /\ new.parent = old.parent /\ new.index = old.index
    /\ new.children = children

LEMMA PlacedNodes ==
    ASSUME NEW inodes \in Seq(Node), NEW id \in 1..Len(inodes) + 1, NEW node \in Node,
           NEW above \in 1..Len(inodes), above # id
    PROVE  LET told == Told(inodes, id, node, above)
           IN  /\ told \in Seq(Node)
               /\ Len(told) = IF id > Len(inodes) THEN Len(inodes) + 1 ELSE Len(inodes)
               /\ told[id] = node
               /\ SameBut(told[above], inodes[above], Append(inodes[above].children, id))
               /\ \A j \in 1..Len(inodes) : j # id /\ j # above => told[j] = inodes[j]
<1> DEFINE grown == IF id > Len(inodes) THEN Append(inodes, node) ELSE [inodes EXCEPT ![id] = node]
           told == Told(inodes, id, node, above)
           n == Len(inodes)
<1>1. n \in Nat /\ above \in Nat /\ above <= n
  BY LenProperties
<1>2. /\ grown \in Seq(Node) /\ Len(grown) = (IF id > n THEN n + 1 ELSE n)
      /\ grown[id] = node /\ \A j \in 1..n : j # id => grown[j] = inodes[j]
  <2>1. CASE id > n
    <3>1. id = n + 1 /\ grown = Append(inodes, node)
      BY <1>1, <2>1
    <3>2. QED
      BY <1>1, <2>1, <3>1, AppendProperties
  <2>2. CASE ~(id > n)
    <3>1. id \in 1..n /\ grown = [inodes EXCEPT ![id] = node]
      BY <1>1, <2>2
    <3>2. QED
      BY <2>2, <3>1, ExceptSeq
  <2>3. QED
    BY <2>1, <2>2
<1> HIDE DEF grown
<1> DEFINE parent == [inodes[above] EXCEPT !.children = Append(@, id)]
<1>3. inodes[above] \in Node /\ id \in Nat
  BY <1>1, ElementOfSeq
<1>4. parent \in Node
  <2>1. inodes[above].children \in Seq(Nat)
    BY <1>3 DEF Node
  <2>2. Append(inodes[above].children, id) \in Seq(Nat)
    BY <1>3, <2>1, AppendProperties
  <2>3. QED
    BY <1>3, <2>2 DEF Node
<1>5. above \in 1..Len(grown) /\ grown[above] = inodes[above]
  BY <1>1, <1>2
<1>6. told = [grown EXCEPT ![above] = parent]
  BY <1>5 DEF Told, grown
<1> HIDE DEF told, parent
<1>7. /\ told \in Seq(Node) /\ Len(told) = Len(grown) /\ told[above] = parent
      /\ \A j \in 1..Len(grown) : j # above => told[j] = grown[j]
  BY <1>2, <1>4, <1>5, <1>6, ExceptSeq
<1>8. id \in 1..Len(grown) /\ \A j \in 1..n : j \in 1..Len(grown)
  BY <1>1, <1>2
<1>9. SameBut(parent, inodes[above], Append(inodes[above].children, id))
  BY <1>3 DEF parent, SameBut, Node
<1>10. QED
  BY <1>2, <1>7, <1>8, <1>9 DEF told

LEMMA ToSetAppend ==
    ASSUME NEW S, NEW seq \in Seq(S), NEW x \in S
    PROVE  ToSet(Append(seq, x)) = ToSet(seq) \cup {x}
<1>1. /\ Len(seq) \in Nat /\ Len(Append(seq, x)) = Len(seq) + 1
      /\ \A i \in 1..Len(seq) : Append(seq, x)[i] = seq[i]
      /\ Append(seq, x)[Len(seq) + 1] = x /\ Append(seq, x) \in Seq(S)
  BY AppendProperties, LenProperties
<1>2. PICK more : more = Append(seq, x)
  OBVIOUS
<1>3. DOMAIN seq = 1..Len(seq) /\ DOMAIN more = 1..Len(seq) + 1
  BY <1>1, <1>2, LenProperties
<1>4. \A i \in 1..Len(seq) + 1 : i \in 1..Len(seq) \/ i = Len(seq) + 1
  BY <1>1
<1>5. \A i \in 1..Len(seq) : i \in 1..Len(seq) + 1
  BY <1>1
<1>6. Len(seq) + 1 \in 1..Len(seq) + 1
  BY <1>1
<1>7. ToSet(more) = ToSet(seq) \cup {x}
  BY <1>1, <1>2, <1>3, <1>4, <1>5, <1>6 DEF ToSet
<1>8. QED
  BY <1>2, <1>7

\* The files placed, with one more if this is one.
With(placed, path, node) ==
    placed \cup (IF node.kind = "file" THEN {<<path, node.index>>} ELSE {})

\* place adds one path to what the table shows.
LEMMA PlaceIs ==
    ASSUME NEW b, NEW table, NEW shown, NEW placed, Building(b, table, shown, placed), b.ok,
           NEW path \in AllPaths, path # Root, path \notin shown, Parent(path) \in shown,
           NEW node \in Node, node.name = Last(path), node.children = << >>,
           \/ node.kind = "dir" /\ node.parent = b.ids[Parent(path)]
           \/ node.kind = "file" /\ node.index # 0
    PROVE  LET after == Place(b, path, node)
           IN  /\ Building(after, table, shown \cup {path}, With(placed, path, node))
               /\ after.ok
<1>0. PICK more : /\ more = With(placed, path, node)
                  /\ node.kind = "dir" => more = placed
                  /\ node.kind = "file" => more = placed \cup {<<path, node.index>>}
  BY DEF With
<1> DEFINE owned == IdFor(b.ids, path)
           n == Len(b.nodes)
           above == b.ids[Parent(path)]
           inodes == b.nodes
<1>1. /\ IdsOk(b.ids) /\ TreeIs(b.nodes, b.ids, shown, placed) /\ n = Cardinality(DOMAIN b.ids)
      /\ Grows(table, b.ids) /\ b.nodes \in Seq(Node)
  BY DEF Building, TreeIs
<1>2. /\ IdsOk(owned) /\ Grows(b.ids, owned) /\ n \in Nat
      /\ DOMAIN owned = DOMAIN b.ids \cup {path} /\ owned[path] \in 1..n + 1
      /\ path \in DOMAIN b.ids => owned = b.ids /\ owned[path] \in 1..n
      /\ path \notin DOMAIN b.ids => owned[path] = n + 1 /\ Cardinality(DOMAIN owned) = n + 1
  <2> DEFINE c == Cardinality(DOMAIN b.ids)
  <2>1. /\ IdsOk(owned) /\ Grows(b.ids, owned) /\ c \in Nat
        /\ DOMAIN owned = DOMAIN b.ids \cup {path} /\ owned[path] \in 1..c + 1
        /\ path \in DOMAIN b.ids => owned = b.ids /\ owned[path] \in 1..c
        /\ path \notin DOMAIN b.ids => owned[path] = c + 1 /\ Cardinality(DOMAIN owned) = c + 1
    BY <1>1, IdForIs
  <2>2. n = c
    BY <1>1
  <2> HIDE DEF n, c, owned
  <2>3. QED
    BY <2>1, <2>2
<1> HIDE DEF owned
<1> DEFINE id == owned[path]
<1>3. Parent(path) \in DOMAIN b.ids /\ owned[Parent(path)] = above /\ above \in 1..n
  BY <1>1, <1>2 DEF TreeIs, Grows
<1>4. Parent(path) # path
  <2>1. Len(path) \in Nat /\ Len(Parent(path)) = Len(path) - 1
    BY PathIs
  <2>2. QED
    BY <2>1
<1>5. above # id
  BY <1>2, <1>3, <1>4 DEF IdsOk
<1> DEFINE told == Told(inodes, id, node, above)
<1>6. /\ told \in Seq(Node)
      /\ Len(told) = IF id > n THEN n + 1 ELSE n
      /\ told[id] = node
      /\ SameBut(told[above], inodes[above], Append(inodes[above].children, id))
      /\ \A j \in 1..n : j # id /\ j # above => told[j] = inodes[j]
  <2>1. inodes \in Seq(Node) /\ id \in 1..Len(inodes) + 1 /\ above \in 1..Len(inodes)
        /\ n = Len(inodes)
    BY <1>1, <1>2, <1>3
  <2> HIDE DEF id, above, inodes, n
  <2>2. QED
    BY <1>5, <2>1, PlacedNodes
<1> DEFINE after == Place(b, path, node)
<1>7. after = [b EXCEPT !.ids = owned, !.nodes = told]
  BY <1>3 DEF Place, owned, Told
<1> HIDE DEF told
<1>8. after = [ids |-> owned, nodes |-> told, ok |-> TRUE]
  <2>1. b = [ids |-> b.ids, nodes |-> b.nodes, ok |-> TRUE]
    BY DEF Building
  <2> HIDE DEF after
  <2>2. QED
    BY <1>7, <2>1
<1> HIDE DEF after
<1>9. Len(told) = Cardinality(DOMAIN owned)
  <2>1. CASE path \in DOMAIN b.ids
    BY <1>1, <1>2, <1>6, <2>1
  <2>2. CASE path \notin DOMAIN b.ids
    BY <1>2, <1>6, <2>2
  <2>3. QED
    BY <2>1, <2>2
<1> DEFINE all == shown \cup {path}
<1>10. \A p \in shown : p \in DOMAIN b.ids /\ owned[p] = b.ids[p] /\ owned[p] # id
  BY <1>1, <1>2 DEF TreeIs, Grows, IdsOk
<1>11. \A q \in shown \ {Root} : Parent(q) \in shown /\ Parent(q) # path
  BY <1>1 DEF TreeIs
<1>12. more \subseteq (all \ {Root}) \X (Nat \ {0})
  <2>1. placed \subseteq (shown \ {Root}) \X (Nat \ {0})
    BY <1>1 DEF TreeIs
  <2>2. node.index \in Nat
    BY DEF Node
  <2>3. QED
    BY <1>0, <2>1, <2>2
<1>13. path \notin FilePaths(placed)
       /\ FilePaths(more) = FilePaths(placed) \cup (IF node.kind = "file" THEN {path} ELSE {})
  <2>1. placed \subseteq (shown \ {Root}) \X (Nat \ {0})
    BY <1>1 DEF TreeIs
  <2>2. path \notin FilePaths(placed)
    BY <2>1 DEF FilePaths
  <2>3. CASE node.kind = "dir"
    BY <1>0, <2>3, <2>2
  <2>4. CASE node.kind = "file"
    <3>1. more = placed \cup {<<path, node.index>>}
      BY <1>0, <2>4
    <3>2. <<path, node.index>>[1] = path /\ <<path, node.index>> \in more
      BY <3>1
    <3>3. FilePaths(more) \subseteq FilePaths(placed) \cup {path}
      <4>1. \A f \in more : f \in placed \/ f = <<path, node.index>>
        BY <3>1
      <4>2. QED
        BY <3>2, <4>1 DEF FilePaths
    <3>4. FilePaths(placed) \cup {path} \subseteq FilePaths(more)
      <4>1. placed \subseteq more
        BY <3>1
      <4>2. path \in FilePaths(more)
        BY <3>2 DEF FilePaths
      <4>3. QED
        BY <4>1, <4>2 DEF FilePaths
    <3>5. QED
      BY <2>2, <2>4, <3>3, <3>4
  <2>5. QED
    BY <2>3, <2>4
<1>14. ASSUME NEW p \in shown, p # Parent(path)
       PROVE  NodeShows(told, owned, all, more, p)
  <2>1. b.ids[p] \in 1..n /\ b.ids[p] # above /\ b.ids[p] # id
    BY <1>1, <1>3, <1>10, <1>14 DEF TreeIs, IdsOk
  <2>2. told[owned[p]] = inodes[b.ids[p]]
    BY <1>6, <1>10, <2>1
  <2>3. NodeShows(inodes, b.ids, shown, placed, p)
    BY <1>1 DEF TreeIs
  <2>4. {q \in all \ {Root} : Parent(q) = p} = {q \in shown \ {Root} : Parent(q) = p}
    BY <1>14
  <2>5. {owned[q] : q \in {q \in all \ {Root} : Parent(q) = p}}
            = {b.ids[q] : q \in {q \in shown \ {Root} : Parent(q) = p}}
    BY <1>10, <2>4
  <2>6. p # Root => Parent(p) \in shown /\ owned[Parent(p)] = b.ids[Parent(p)]
    BY <1>10, <1>11
  <2>7. p # path /\ (p \in FilePaths(more) <=> p \in FilePaths(placed))
    BY <1>13
  <2>8. placed \subseteq more
    BY <1>0
  <2> HIDE DEF all
  <2>9. QED
    BY <2>2, <2>3, <2>5, <2>6, <2>7, <2>8 DEF NodeShows
<1>15. NodeShows(told, owned, all, more, Parent(path))
  <2> DEFINE p == Parent(path)
  <2>1. SameBut(told[owned[p]], inodes[above], Append(inodes[above].children, id))
    BY <1>3, <1>6
  <2>2. inodes[above] \in Node
    BY <1>1, <1>3, ElementOfSeq
  <2>3. inodes[above].children \in Seq(Nat) /\ id \in Nat
    BY <1>2, <2>2 DEF Node
  <2>4. PICK new : new = told[owned[p]]
    OBVIOUS
  <2>5. /\ new.kind = inodes[above].kind /\ new.name = inodes[above].name
        /\ new.parent = inodes[above].parent /\ new.index = inodes[above].index
        /\ new.children = Append(inodes[above].children, id)
    BY <2>1, <2>4 DEF SameBut
  <2>6. ToSet(new.children) = ToSet(inodes[above].children) \cup {id}
    <3>1. PICK seq : seq = inodes[above].children
      OBVIOUS
    <3>2. seq \in Seq(Nat) /\ new.children = Append(seq, id)
      BY <2>3, <2>5, <3>1
    <3> HIDE DEF id, above, inodes
    <3>3. ToSet(Append(seq, id)) = ToSet(seq) \cup {id}
      BY <2>3, <3>2, ToSetAppend
    <3>4. QED
      BY <3>1, <3>2, <3>3
  <2>7. NodeShows(inodes, b.ids, shown, placed, p)
    BY <1>1 DEF TreeIs
  <2>8. {owned[q] : q \in {q \in all \ {Root} : Parent(q) = p}}
            = {b.ids[q] : q \in {q \in shown \ {Root} : Parent(q) = p}} \cup {id}
    BY <1>10
  <2>9. p # Root => Parent(p) \in shown /\ owned[Parent(p)] = b.ids[Parent(p)]
    BY <1>10, <1>11
  <2>10. p # path /\ (p \in FilePaths(more) <=> p \in FilePaths(placed))
    BY <1>4, <1>13
  <2>11. placed \subseteq more
    BY <1>0
  <2> HIDE DEF all
  <2>12. QED
    BY <2>4, <2>5, <2>6, <2>7, <2>8, <2>9, <2>10, <2>11 DEF NodeShows
<1>16. NodeShows(told, owned, all, more, path)
  <2>1. told[owned[path]] = node
    BY <1>6
  <2>2. {q \in all \ {Root} : Parent(q) = path} = {}
    BY <1>4, <1>11
  <2>3. ToSet(node.children) = {}
    BY DEF ToSet
  <2>4. path \in FilePaths(more) <=> node.kind = "file"
    BY <1>13
  <2>5. node.kind = "file" => <<path, node.index>> \in more
    BY <1>0
  <2>6. node.kind = "dir" => node.parent = owned[Parent(path)]
    BY <1>3
  <2>7. node.kind = "dir" \/ node.kind = "file"
    OBVIOUS
  <2> HIDE DEF all
  <2>8. QED
    BY <2>1, <2>2, <2>3, <2>4, <2>5, <2>6, <2>7 DEF NodeShows
<1>17. ASSUME NEW j \in 1..Len(told), told[j].kind # "gone"
       PROVE  \E p \in all : owned[p] = j
  <2>1. CASE j = id
    BY <2>1
  <2>2. CASE j = above
    BY <1>3, <2>2
  <2>3. CASE j # id /\ j # above
    <3>1. j \in 1..n
      BY <1>2, <1>6, <2>3
    <3>2. inodes[j].kind # "gone"
      BY <1>6, <1>17, <2>3, <3>1
    <3>3. PICK p \in shown : b.ids[p] = j
      BY <1>1, <3>1, <3>2 DEF TreeIs
    <3>4. QED
      BY <1>10, <3>3
  <2>4. QED
    BY <2>1, <2>2, <2>3
<1>18. ASSUME NEW j \in 1..Len(told), told[j].kind = "gone"
       PROVE  told[j].children = << >>
  <2>1. j # id
    BY <1>6, <1>18
  <2>2. inodes[above].kind # "gone"
    BY <1>1, <1>3 DEF TreeIs, NodeShows
  <2>3. j # above
    BY <1>6, <1>18, <2>2 DEF SameBut
  <2>4. j \in 1..n
    BY <1>2, <1>6, <2>1
  <2>5. told[j] = inodes[j]
    BY <1>6, <2>1, <2>3, <2>4
  <2>6. QED
    BY <1>1, <1>18, <2>4, <2>5 DEF TreeIs
<1>19. TreeIs(told, owned, all, more)
  <2>1. all \subseteq DOMAIN owned /\ Root \in all
    BY <1>1, <1>2 DEF TreeIs
  <2>2. \A p \in all : owned[p] \in 1..Len(told)
    BY <1>2, <1>9, <2>1 DEF IdsOk
  <2>3. \A p \in all \ {Root} : Parent(p) \in all
    BY <1>11
  <2>4. \A p \in all : NodeShows(told, owned, all, more, p)
    BY <1>14, <1>15, <1>16
  <2> HIDE DEF all
  <2>5. QED
    BY <1>6, <1>12, <1>17, <1>18, <2>1, <2>2, <2>3, <2>4 DEF TreeIs
<1>20. Building(after, table, all, more) /\ after.ok
  <2>1. Grows(table, owned)
    BY <1>1, <1>2, GrowsOn
  <2> HIDE DEF all
  <2>2. QED
    BY <1>2, <1>8, <1>9, <1>19, <2>1 DEF Building
<1>21. QED
  BY <1>0, <1>20 DEF after

\* A name is taken below a directory exactly when its path is shown.
LEMMA ChildNamedIs ==
    ASSUME NEW b, NEW table, NEW shown, NEW placed, Building(b, table, shown, placed), b.ok,
           NEW path \in AllPaths, path # Root, Parent(path) \in shown
    PROVE  ChildNamed(b, b.ids[Parent(path)], Last(path)) # {} <=> path \in shown
<1> DEFINE above == b.ids[Parent(path)]
           named == ChildNamed(b, above, Last(path))
<1>1. /\ IdsOk(b.ids) /\ TreeIs(b.nodes, b.ids, shown, placed) /\ shown \subseteq AllPaths
  BY DEF Building, TreeIs, IdsOk
<1>2. ToSet(b.nodes[above].children)
            = {b.ids[q] : q \in {q \in shown \ {Root} : Parent(q) = Parent(path)}}
  BY <1>1 DEF TreeIs, NodeShows
<1>3. \A q \in shown \ {Root} : b.nodes[b.ids[q]].name = Last(q)
  BY <1>1 DEF TreeIs, NodeShows
<1>4. ASSUME path \in shown PROVE named # {}
  <2>1. b.ids[path] \in ToSet(b.nodes[above].children)
    BY <1>2, <1>4
  <2>2. b.nodes[b.ids[path]].name = Last(path)
    BY <1>3, <1>4
  <2>3. QED
    BY <2>1, <2>2 DEF ChildNamed
<1>5. ASSUME NEW c \in named PROVE path \in shown
  <2>1. c \in ToSet(b.nodes[above].children) /\ b.nodes[c].name = Last(path)
    BY <1>5 DEF ChildNamed
  <2>2. PICK q \in shown \ {Root} : Parent(q) = Parent(path) /\ c = b.ids[q]
    BY <1>2, <2>1
  <2>3. Last(q) = Last(path) /\ q \in AllPaths
    BY <1>1, <1>3, <2>1, <2>2
  <2>4. q = path
    BY <2>2, <2>3, PathIsItsParts
  <2>5. QED
    BY <2>2, <2>4
<1>6. QED
  BY <1>4, <1>5

LEMMA IsDirIs ==
    ASSUME NEW b, NEW table, NEW shown, NEW placed, Building(b, table, shown, placed), b.ok,
           NEW path
    PROVE  IsDir(b, path) <=> path \in shown \ FilePaths(placed)
<1>1. /\ IdsOk(b.ids) /\ TreeIs(b.nodes, b.ids, shown, placed)
      /\ Len(b.nodes) = Cardinality(DOMAIN b.ids)
  BY DEF Building
<1>2. ASSUME path \in shown PROVE IsDir(b, path) <=> path \notin FilePaths(placed)
  BY <1>1, <1>2 DEF TreeIs, NodeShows, IsDir
<1>3. ASSUME IsDir(b, path) PROVE path \in shown
  <2>1. path \in DOMAIN b.ids /\ b.nodes[b.ids[path]].kind = "dir"
    BY <1>3 DEF IsDir
  <2>2. b.ids[path] \in 1..Len(b.nodes)
    BY <1>1, <2>1 DEF IdsOk
  <2>3. PICK p \in shown : b.ids[p] = b.ids[path]
    BY <1>1, <2>1, <2>2 DEF TreeIs
  <2>4. p \in DOMAIN b.ids
    BY <1>1 DEF TreeIs
  <2>5. QED
    BY <1>1, <2>1, <2>3, <2>4 DEF IdsOk
<1>4. QED
  BY <1>2, <1>3

\* One prefix: there already, refused under a file, or a new directory.
LEMMA EnsurePrefixIs ==
    ASSUME NEW b, NEW table, NEW shown, NEW placed, Building(b, table, shown, placed),
           NEW path \in AllPaths, path # Root, b.ok => Parent(path) \in shown
    PROVE  LET after == EnsurePrefix(b, path)
           IN  /\ Building(after, table, shown \cup {path}, placed)
               /\ after.ok <=> b.ok /\ path \notin FilePaths(placed)
<1> DEFINE after == EnsurePrefix(b, path)
           above == b.ids[Parent(path)]
           dir == Dir(Last(path), above)
<1>1. CASE ~b.ok
  <2>1. after = b
    BY <1>1 DEF EnsurePrefix
  <2>2. Building(b, table, shown \cup {path}, placed)
    BY <1>1 DEF Building
  <2>3. QED
    BY <1>1, <2>1, <2>2
<1>2. CASE b.ok /\ path \in shown \ FilePaths(placed)
  <2>1. IsDir(b, path)
    BY <1>2, IsDirIs
  <2>2. after = b
    BY <2>1 DEF EnsurePrefix
  <2>3. shown \cup {path} = shown
    BY <1>2
  <2>4. QED
    BY <1>2, <2>2, <2>3
<1>3. CASE b.ok /\ path \in shown /\ path \in FilePaths(placed)
  <2>1. ~IsDir(b, path) /\ ChildNamed(b, above, Last(path)) # {}
    BY <1>3, IsDirIs, ChildNamedIs
  <2>2. after = Refuse(b)
    BY <1>3, <2>1 DEF EnsurePrefix
  <2>3. Building(Refuse(b), table, shown \cup {path}, placed) /\ ~Refuse(b).ok
    <3>1. b = [ids |-> b.ids, nodes |-> b.nodes, ok |-> b.ok] /\ IdsOk(b.ids) /\ Grows(table, b.ids)
      BY DEF Building
    <3>2. PICK no : no = Refuse(b)
      OBVIOUS
    <3>3. no = [ids |-> b.ids, nodes |-> b.nodes, ok |-> FALSE]
      BY <3>1, <3>2 DEF Refuse
    <3>4. Building(no, table, shown \cup {path}, placed) /\ ~no.ok
      BY <3>1, <3>3 DEF Building
    <3>5. QED
      BY <3>2, <3>4
  <2>4. QED
    BY <1>3, <2>2, <2>3
<1>4. CASE b.ok /\ path \notin shown
  <2>1. ~IsDir(b, path) /\ ChildNamed(b, above, Last(path)) = {}
    BY <1>4, IsDirIs, ChildNamedIs
  <2>2. after = Place(b, path, dir)
    BY <1>4, <2>1 DEF EnsurePrefix
  <2>3. Last(path) \in Nat /\ above \in Nat
    <3>1. TreeIs(b.nodes, b.ids, shown, placed)
      BY <1>4 DEF Building
    <3>2. above \in 1..Len(b.nodes)
      BY <1>4, <3>1 DEF TreeIs
    <3>3. QED
      BY <3>2, PathIs
  <2>4. /\ dir \in Node /\ dir.name = Last(path) /\ dir.children = << >>
        /\ dir.kind = "dir" /\ dir.parent = above
    <3>1. << >> \in Seq(Nat)
      OBVIOUS
    <3>2. QED
      BY <2>3, <3>1 DEF Dir, Node
  <2> HIDE DEF dir, after
  <2>5. Building(Place(b, path, dir), table, shown \cup {path}, placed) /\ Place(b, path, dir).ok
    <3>1. Parent(path) \in shown /\ b.ok /\ path \notin shown
      BY <1>4
    <3>2. PICK node : node = dir
      OBVIOUS
    <3>3. /\ node \in Node /\ node.name = Last(path) /\ node.children = << >>
          /\ node.kind = "dir" /\ node.parent = b.ids[Parent(path)]
      BY <2>4, <3>2
    <3>4. Building(Place(b, path, node), table, shown \cup {path}, With(placed, path, node))
          /\ Place(b, path, node).ok
      BY <3>1, <3>3, PlaceIs
    <3>5. With(placed, path, node) = placed
      BY <3>3 DEF With
    <3>6. QED
      BY <3>2, <3>4, <3>5
  <2>6. path \notin FilePaths(placed)
    <3>1. TreeIs(b.nodes, b.ids, shown, placed)
      BY <1>4 DEF Building
    <3>2. placed \subseteq (shown \ {Root}) \X (Nat \ {0})
      BY <3>1 DEF TreeIs
    <3>3. QED
      BY <1>4, <3>2 DEF FilePaths
  <2>7. QED
    BY <1>4, <2>2, <2>5, <2>6 DEF after
<1>5. QED
  BY <1>1, <1>2, <1>3, <1>4

\* A set of naturals with zero and every successor has them all.
LEMMA SetInduction ==
    ASSUME NEW S, 0 \in S, \A n \in Nat : n \in S => n + 1 \in S
    PROVE  Nat \subseteq S
<1> DEFINE others == Nat \ S
<1> SUFFICES ASSUME others # {}  PROVE FALSE
  OBVIOUS
<1>1. PICK n \in others : \A k \in others : n <= k
  BY LeastOfNaturals
<1>2. n \in Nat /\ n # 0 /\ n - 1 \in Nat /\ ~(n <= n - 1) /\ n = (n - 1) + 1
  OBVIOUS
<1>3. n - 1 \in S
  BY <1>1, <1>2
<1>4. QED
  BY <1>2, <1>3

\* ensure_dir takes one prefix after another.
EnsuredUpTo(b, path) ==
    LET upto[k \in 0..Len(path)] ==
            IF k = 0 THEN b ELSE EnsurePrefix(upto[k - 1], SubSeq(path, 1, k))
    IN  upto

LEMMA EnsureDirSteps ==
    ASSUME NEW b, NEW path \in AllPaths
    PROVE  LET upto == EnsuredUpTo(b, path)
           IN  /\ upto[0] = b
               /\ \A k \in 1..Len(path) : upto[k] = EnsurePrefix(upto[k - 1], SubSeq(path, 1, k))
               /\ EnsureDir(b, path) = upto[Len(path)]
<1> DEFINE From(g, n) == g = [k \in 0..n |-> IF k = 0 THEN b
                                             ELSE EnsurePrefix(g[k - 1], SubSeq(path, 1, k))]
           S == {n \in Nat : \E g : From(g, n)}
<1>1. 0 \in S
  <2>1. From([k \in 0..0 |-> b], 0)
    OBVIOUS
  <2>2. QED
    BY <2>1
<1>2. ASSUME NEW n \in Nat, n \in S PROVE n + 1 \in S
  <2>1. PICK g : From(g, n)
    BY <1>2
  <2> DEFINE last == EnsurePrefix(g[n], SubSeq(path, 1, (n + 1)))
             h == [k \in 0..n + 1 |-> IF k = n + 1 THEN last ELSE g[k]]
  <2>2. /\ h = [k \in 0..n + 1 |-> h[k]] /\ h[n + 1] = last
        /\ \A k \in 0..n : h[k] = g[k]
    <3> HIDE DEF last
    <3> QED  OBVIOUS
  <2>3. \A k \in 0..n : g[k] = IF k = 0 THEN b ELSE EnsurePrefix(g[k - 1], SubSeq(path, 1, k))
    BY <2>1
  <2> HIDE DEF h, From
  <2>4. \A k \in 0..n + 1 : h[k] = IF k = 0 THEN b ELSE EnsurePrefix(h[k - 1], SubSeq(path, 1, k))
    <3> TAKE k \in 0..n + 1
    <3>1. CASE k = n + 1
      <4>1. h[k] = last /\ k - 1 = n /\ n \in 0..n /\ k # 0
        BY <2>2, <3>1
      <4>2. h[k - 1] = g[n]
        BY <2>2, <4>1
      <4>3. QED
        BY <3>1, <4>1, <4>2 DEF last
    <3>2. CASE k # n + 1
      <4>1. k \in 0..n /\ (k # 0 => k - 1 \in 0..n)
        BY <3>2
      <4>2. h[k] = g[k] /\ (k # 0 => h[k - 1] = g[k - 1])
        BY <2>2, <4>1
      <4>3. QED
        BY <2>3, <4>1, <4>2
    <3>3. QED
      BY <3>1, <3>2
  <2>5. From(h, n + 1)
    BY <2>2, <2>4 DEF From
  <2>6. QED
    BY <2>5
<1>3. Len(path) \in Nat
  BY LenProperties DEF AllPaths
<1>4. Len(path) \in S
  <2> HIDE DEF S
  <2>1. Nat \subseteq S
    BY <1>1, <1>2, SetInduction
  <2>2. QED
    BY <1>3, <2>1
<1> DEFINE upto == EnsuredUpTo(b, path)
<1>5. upto = CHOOSE g : From(g, Len(path))
  BY DEF EnsuredUpTo
<1>6. From(upto, Len(path))
  BY <1>4, <1>5
<1>7. EnsureDir(b, path) = upto[Len(path)]
  BY DEF EnsureDir, EnsuredUpTo
<1> HIDE DEF upto
<1>8. upto[0] = b
  BY <1>3, <1>6
<1>9. \A k \in 1..Len(path) : upto[k] = EnsurePrefix(upto[k - 1], SubSeq(path, 1, k))
  <2>1. \A k \in 1..Len(path) : k \in 0..Len(path) /\ k # 0
    BY <1>3
  <2>2. QED
    BY <1>6, <2>1
<1>10. QED
  BY <1>7, <1>8, <1>9 DEF upto

\* The root has no other prefix.
LEMMA PrefixesOfRoot == Prefixes(Root) = {Root}
<1>1. Root \in AllPaths /\ Len(Root) = 0
  BY EmptySeq DEF Root, AllPaths
<1>2. Prefixes(Root) = {SubSeq(Root, 1, n) : n \in 0..0}
  BY <1>1, PrefixesAre
<1>3. SubSeq(Root, 1, 0) = Root /\ 0..0 = {0}
  BY <1>1, PrefixIs
<1>4. QED
  BY <1>2, <1>3

LEMMA RootIsNoFile ==
    ASSUME NEW b, NEW table, NEW shown, NEW placed, Building(b, table, shown, placed), b.ok
    PROVE  Root \in shown /\ Root \notin FilePaths(placed)
<1>1. Root \in shown /\ placed \subseteq (shown \ {Root}) \X (Nat \ {0})
  BY DEF Building, TreeIs
<1>2. QED
  BY <1>1 DEF FilePaths

\* ensure_dir shows a path and what is above it, and refuses to go through a file.
LEMMA EnsureDirIs ==
    ASSUME NEW b, NEW table, NEW shown, NEW placed, Building(b, table, shown, placed),
           NEW path \in AllPaths
    PROVE  LET after == EnsureDir(b, path)
           IN  /\ Building(after, table, shown \cup Prefixes(path), placed)
               /\ after.ok <=> b.ok /\ Prefixes(path) \cap FilePaths(placed) = {}
<1> DEFINE N == Len(path)
           at(n) == SubSeq(path, 1, n)
           upto == EnsuredUpTo(b, path)
<1>1. N \in Nat
  BY LenProperties DEF AllPaths
<1>2. /\ upto[0] = b
      /\ \A k \in 1..N : upto[k] = EnsurePrefix(upto[k - 1], at(k))
      /\ EnsureDir(b, path) = upto[N]
  BY EnsureDirSteps
<1> HIDE DEF upto
<1> DEFINE Good(n) == /\ Building(upto[n], table, shown \cup Prefixes(at(n)), placed)
                      /\ upto[n].ok <=> b.ok /\ Prefixes(at(n)) \cap FilePaths(placed) = {}
           S == {n \in Nat : n <= N => Good(n)}
<1>3. Prefixes(Root) = {Root}
  BY PrefixesOfRoot
<1>4. 0 \in S
  <2>1. at(0) = Root
    BY <1>1, PrefixIs
  <2>2. b.ok => Root \in shown /\ Root \notin FilePaths(placed)
    BY RootIsNoFile
  <2>3. Building(b, table, shown \cup {Root}, placed)
    <3>1. CASE b.ok
      <4>1. shown \cup {Root} = shown
        BY <2>2, <3>1
      <4>2. QED
        BY <4>1
    <3>2. CASE ~b.ok
      BY <3>2 DEF Building
    <3>3. QED
      BY <3>1, <3>2
  <2>4. b.ok <=> b.ok /\ {Root} \cap FilePaths(placed) = {}
    BY <2>2
  <2>5. Good(0)
    <3> HIDE DEF at
    <3> QED  BY <1>2, <1>3, <2>1, <2>3, <2>4
  <2>6. QED
    BY <2>5
<1>5. ASSUME NEW n \in Nat, n \in S PROVE n + 1 \in S
  <2>1. SUFFICES ASSUME n + 1 <= N PROVE Good(n + 1)
    OBVIOUS
  <2>2. /\ n \in 0..N /\ n + 1 \in 0..N /\ n + 1 \in 1..N /\ n <= N /\ n + 1 # 0 /\ (n + 1) - 1 = n
    BY <1>1, <2>1
  <2> DEFINE p == at(n)
             q == at(n + 1)
  <2>3. p \in AllPaths /\ q \in AllPaths /\ q # Root /\ Parent(q) = p
    <3>1. SubSeq(path, 1, n) \in AllPaths
      BY <2>2, PrefixIs
    <3>2. /\ SubSeq(path, 1, n + 1) \in AllPaths /\ SubSeq(path, 1, n + 1) # Root
          /\ Parent(SubSeq(path, 1, n + 1)) = SubSeq(path, 1, (n + 1) - 1)
      BY <2>2, PrefixIs
    <3>3. QED
      BY <2>2, <3>1, <3>2
  <2>4. upto[n + 1] = EnsurePrefix(upto[n], q)
    BY <1>2, <2>2
  <2>5. Good(n)
    BY <1>5, <2>2
  <2> HIDE DEF at
  <2>6. Prefixes(q) = Prefixes(p) \cup {q} /\ p \in Prefixes(p)
    BY <2>3, PrefixesAre
  <2> DEFINE seen == shown \cup Prefixes(p)
  <2>7. Parent(q) \in seen
    BY <2>3, <2>6
  <2>8. Building(upto[n], table, seen, placed)
    BY <2>5
  <2> HIDE DEF seen, p, q
  <2>9. /\ Building(EnsurePrefix(upto[n], q), table, seen \cup {q}, placed)
        /\ EnsurePrefix(upto[n], q).ok <=> upto[n].ok /\ q \notin FilePaths(placed)
    BY <2>3, <2>7, <2>8, EnsurePrefixIs
  <2>10. seen \cup {q} = shown \cup Prefixes(q)
    BY <2>6 DEF seen
  <2>11. Building(upto[n + 1], table, shown \cup Prefixes(q), placed)
    BY <2>4, <2>9, <2>10
  <2>12. upto[n + 1].ok <=> b.ok /\ Prefixes(q) \cap FilePaths(placed) = {}
    <3>1. upto[n].ok <=> b.ok /\ Prefixes(p) \cap FilePaths(placed) = {}
      BY <2>5 DEF p
    <3>2. Prefixes(q) \cap FilePaths(placed) = {}
            <=> Prefixes(p) \cap FilePaths(placed) = {} /\ q \notin FilePaths(placed)
      BY <2>6
    <3>3. QED
      BY <2>4, <2>9, <3>1, <3>2
  <2>13. QED
    BY <2>11, <2>12 DEF q
<1>6. N \in S
  <2> HIDE DEF S
  <2>1. Nat \subseteq S
    BY <1>4, <1>5, SetInduction
  <2>2. QED
    BY <1>1, <2>1
<1>7. Good(N)
  BY <1>1, <1>6
<1>8. at(N) = path
  BY SubSeqFull DEF AllPaths
<1>9. QED
  <2> HIDE DEF at
  <2> QED  BY <1>2, <1>7, <1>8

\* A build that was refused shows nothing in particular.
LEMMA RefusedIs ==
    ASSUME NEW b, NEW table, NEW shown, NEW placed, Building(b, table, shown, placed),
           NEW more, NEW others
    PROVE  /\ Building(Refuse(b), table, more, others) /\ ~Refuse(b).ok
           /\ ~b.ok => Building(b, table, more, others)
<1>1. b = [ids |-> b.ids, nodes |-> b.nodes, ok |-> b.ok] /\ IdsOk(b.ids) /\ Grows(table, b.ids)
  BY DEF Building
<1>2. PICK no : no = Refuse(b)
  OBVIOUS
<1>3. no = [ids |-> b.ids, nodes |-> b.nodes, ok |-> FALSE]
  BY <1>1, <1>2 DEF Refuse
<1>4. Building(no, table, more, others) /\ ~no.ok
  BY <1>1, <1>3 DEF Building
<1>5. ~b.ok => Building(b, table, more, others)
  BY DEF Building
<1>6. QED
  BY <1>2, <1>4, <1>5

\* add_dir.
LEMMA AddDirIs ==
    ASSUME NEW b, NEW table, NEW shown, NEW placed, Building(b, table, shown, placed),
           NEW path \in AllPaths
    PROVE  LET after == AddDir(b, path)
           IN  /\ Building(after, table, shown \cup Prefixes(path), placed)
               /\ after.ok <=> b.ok /\ Safe(path) /\ Prefixes(path) \cap FilePaths(placed) = {}
<1> DEFINE after == AddDir(b, path)
<1>1. CASE ~b.ok
  <2>1. after = b
    BY <1>1 DEF AddDir
  <2>2. QED
    BY <1>1, <2>1, RefusedIs
<1>2. CASE b.ok /\ ~Safe(path)
  <2>1. after = Refuse(b)
    BY <1>2 DEF AddDir
  <2>2. QED
    BY <1>2, <2>1, RefusedIs
<1>3. CASE b.ok /\ Safe(path)
  <2>1. after = EnsureDir(b, path)
    BY <1>3 DEF AddDir
  <2>2. QED
    BY <1>3, <2>1, EnsureDirIs
<1>4. QED
  BY <1>1, <1>2, <1>3

Filed(placed, path, index) ==
    IF path = Root THEN placed ELSE placed \cup {<<path, index>>}

\* What a file has to be for add_file to take it.
Fits(path, shown, placed) ==
    path # Root =>
        /\ Safe(path) /\ path \notin shown
        /\ Prefixes(Parent(path)) \cap FilePaths(placed) = {}

\* add_file.
LEMMA AddFileIs ==
    ASSUME NEW b, NEW table, NEW shown, NEW placed, Building(b, table, shown, placed),
           NEW path \in AllPaths, NEW index \in Nat \ {0}
    PROVE  LET after == AddFile(b, path, index)
           IN  /\ Building(after, table, shown \cup Prefixes(path), Filed(placed, path, index))
               /\ after.ok <=> b.ok /\ Fits(path, shown, placed)
<1> DEFINE after == AddFile(b, path, index)
           under == EnsureDir(b, Parent(path))
           seen == shown \cup Prefixes(Parent(path))
           file == File(Last(path), index)
           more == Filed(placed, path, index)
<1>1. CASE ~b.ok
  <2>1. after = b
    BY <1>1 DEF AddFile
  <2>2. QED
    BY <1>1, <2>1, RefusedIs
<1>2. CASE b.ok /\ path = Root
  <2>1. after = b
    BY <1>2 DEF AddFile
  <2>2. Prefixes(Root) \subseteq shown
    <3>1. Root \in shown /\ Prefixes(Root) = {Root}
      BY <1>2, RootIsNoFile, PrefixesOfRoot
    <3>2. QED
      BY <3>1
  <2>3. shown \cup Prefixes(path) = shown /\ more = placed /\ Fits(path, shown, placed)
    BY <1>2, <2>2 DEF Filed, Fits
  <2>4. QED
    BY <1>2, <2>1, <2>3
<1>3. CASE b.ok /\ path # Root /\ ~Safe(path)
  <2>1. after = Refuse(b)
    BY <1>3 DEF AddFile
  <2>2. ~Fits(path, shown, placed)
    BY <1>3 DEF Fits
  <2>3. QED
    BY <1>3, <2>1, <2>2, RefusedIs
<1>4. CASE b.ok /\ path # Root /\ Safe(path)
  <2>0. /\ Parent(path) \in AllPaths /\ Last(path) \in Nat
        /\ Prefixes(path) = Prefixes(Parent(path)) \cup {path} /\ path \notin Prefixes(Parent(path))
        /\ Parent(path) \in Prefixes(Parent(path))
    <3>1. Parent(path) \in AllPaths
      BY <1>4, PathIs
    <3>2. QED
      BY <1>4, <3>1, PathIs, PrefixesAre
  <2>1. /\ Building(under, table, seen, placed)
        /\ under.ok <=> Prefixes(Parent(path)) \cap FilePaths(placed) = {}
    BY <1>4, <2>0, EnsureDirIs
  <2> HIDE DEF under
  <2>2. CASE ~under.ok
    <3>1. after = under
      BY <1>4, <2>2 DEF AddFile, under
    <3>2. Building(under, table, shown \cup Prefixes(path), more)
      BY <2>1, <2>2, RefusedIs
    <3>3. ~Fits(path, shown, placed)
      BY <1>4, <2>1, <2>2 DEF Fits
    <3>4. QED
      BY <2>2, <3>1, <3>2, <3>3
  <2>3. CASE under.ok /\ path \in shown
    <3>1. ChildNamed(under, under.ids[Parent(path)], Last(path)) # {}
      <4>1. path \in seen /\ Parent(path) \in seen
        BY <2>0, <2>3
      <4> HIDE DEF seen
      <4>2. QED
        BY <1>4, <2>1, <2>3, <4>1, ChildNamedIs
    <3>2. after = Refuse(under)
      BY <1>4, <2>3, <3>1 DEF AddFile, under
    <3>3. Building(Refuse(under), table, shown \cup Prefixes(path), more) /\ ~Refuse(under).ok
      BY <2>1, RefusedIs
    <3>4. ~Fits(path, shown, placed)
      BY <1>4, <2>3 DEF Fits
    <3>5. QED
      BY <3>2, <3>3, <3>4
  <2>4. CASE under.ok /\ path \notin shown
    <3>1. path \notin seen /\ Parent(path) \in seen /\ seen \cup {path} = shown \cup Prefixes(path)
      BY <2>0, <2>4
    <3> HIDE DEF seen
    <3>2. ChildNamed(under, under.ids[Parent(path)], Last(path)) = {}
      BY <1>4, <2>1, <2>4, <3>1, ChildNamedIs
    <3>3. after = Place(under, path, file)
      BY <1>4, <2>4, <3>2 DEF AddFile, under
    <3>4. /\ file \in Node /\ file.name = Last(path) /\ file.children = << >>
          /\ file.kind = "file" /\ file.index = index
      <4>1. << >> \in Seq(Nat)
        OBVIOUS
      <4>2. QED
        BY <2>0, <4>1 DEF File, Node
    <3> HIDE DEF file
    <3>5. /\ Building(Place(under, path, file), table, seen \cup {path}, With(placed, path, file))
          /\ Place(under, path, file).ok
      BY <1>4, <2>1, <2>4, <3>1, <3>4, PlaceIs
    <3>6. With(placed, path, file) = more
      BY <1>4, <3>4 DEF With, Filed
    <3>7. Fits(path, shown, placed)
      BY <1>4, <2>1, <2>4 DEF Fits
    <3> HIDE DEF more, after
    <3>8. Building(after, table, shown \cup Prefixes(path), more) /\ after.ok
      BY <3>1, <3>3, <3>5, <3>6
    <3>9. QED
      BY <1>4, <3>7, <3>8 DEF more, after
  <2>5. QED
    BY <2>2, <2>3, <2>4
<1>5. QED
  BY <1>1, <1>2, <1>3, <1>4

\* seq has the nodes of S in the order of their names.
InARow(inodes, S, seq) ==
    /\ seq \in [1..Cardinality(S) -> S]
    /\ \A i, j \in 1..Cardinality(S) : i < j => inodes[seq[i]].name < inodes[seq[j]].name

\* No two nodes of S have one name.
NamesDiffer(inodes, S) ==
    /\ IsFiniteSet(S) /\ \A x \in S : inodes[x].name \in Nat
    /\ \A x, y \in S : inodes[x].name = inodes[y].name => x = y

LEMMA RowsAreThere ==
    ASSUME NEW inodes, NEW S, NamesDiffer(inodes, S)
    PROVE  \E seq : InARow(inodes, S, seq)
<1> DEFINE name(x) == inodes[x].name
           N == {n \in Nat : \A T \in SUBSET S : Cardinality(T) = n => \E seq : InARow(inodes, T, seq)}
<1>0. IsFiniteSet(S) /\ \A x \in S : name(x) \in Nat
  BY DEF NamesDiffer
<1>1. 0 \in N
  <2>1. ASSUME NEW T \in SUBSET S, Cardinality(T) = 0 PROVE InARow(inodes, T, << >>)
    <3>1. T = {} /\ 1..0 = {}
      BY <1>0, <2>1, FS_Subset, FS_EmptySet
    <3>2. << >> \in [1..0 -> T]
      BY <3>1
    <3>3. QED
      BY <2>1, <3>1, <3>2 DEF InARow
  <2>2. QED
    BY <2>1
<1>2. ASSUME NEW n \in Nat, n \in N PROVE n + 1 \in N
  <2>1. ASSUME NEW T \in SUBSET S, Cardinality(T) = n + 1 PROVE \E seq : InARow(inodes, T, seq)
    <3>1. IsFiniteSet(T) /\ T # {}
      BY <1>0, <2>1, FS_Subset, FS_EmptySet
    <3>2. PICK first \in T : \A y \in T : name(first) <= name(y)
      <4> DEFINE names == {name(x) : x \in T}
      <4>1. names \subseteq Nat /\ names # {}
        BY <1>0, <3>1
      <4>2. PICK least \in names : \A k \in names : least <= k
        <5> HIDE DEF names
        <5> QED  BY <4>1, LeastOfNaturals
      <4>3. QED
        BY <4>2
    <3> DEFINE R == T \ {first}
    <3>3. R \in SUBSET S /\ Cardinality(R) = n
      <4>1. Cardinality(R) = Cardinality(T) - 1
        BY <3>1, <3>2, FS_RemoveElement
      <4>2. QED
        BY <2>1, <4>1
    <3>4. PICK seq : InARow(inodes, R, seq)
      BY <1>2, <3>3
    <3>5. seq \in [1..n -> R] /\ \A i, j \in 1..n : i < j => name(seq[i]) < name(seq[j])
      BY <3>3, <3>4 DEF InARow
    <3>6. \A y \in R : name(first) < name(y)
      BY <1>0, <3>2 DEF NamesDiffer
    <3> DEFINE more == [i \in 1..n + 1 |-> IF i = 1 THEN first ELSE seq[i - 1]]
    <3>7. \A i \in 1..n + 1 : i = 1 \/ i - 1 \in 1..n
      OBVIOUS
    <3>8. 1 \in 1..n + 1 /\ more[1] = first
          /\ \A i \in 1..n + 1 : i # 1 => i - 1 \in 1..n /\ more[i] = seq[i - 1] /\ seq[i - 1] \in R
      BY <3>5, <3>7
    <3>9. more \in [1..n + 1 -> T]
      BY <3>2, <3>5, <3>7
    <3> HIDE DEF more, R
    <3>10. ASSUME NEW i \in 1..n + 1, NEW j \in 1..n + 1, i < j
           PROVE  name(more[i]) < name(more[j])
      <4>1. j # 1 /\ more[j] = seq[j - 1] /\ seq[j - 1] \in R /\ j - 1 \in 1..n
        BY <3>8, <3>10
      <4>2. CASE i = 1
        BY <3>6, <3>8, <4>1, <4>2
      <4>3. CASE i # 1
        <5>1. more[i] = seq[i - 1] /\ i - 1 \in 1..n /\ i - 1 < j - 1
          BY <3>8, <3>10, <4>3
        <5>2. QED
          BY <3>5, <4>1, <5>1
      <4>4. QED
        BY <4>2, <4>3
    <3>11. InARow(inodes, T, more)
      BY <2>1, <3>9, <3>10 DEF InARow
    <3>12. QED
      BY <3>11
  <2>2. QED
    BY <2>1
<1>3. Nat \subseteq N
  <2> HIDE DEF N
  <2>1. QED
    BY <1>1, <1>2, SetInduction
<1>4. Cardinality(S) \in Nat
  BY <1>0, FS_CardinalityType
<1>5. QED
  BY <1>3, <1>4

\* sort_by: every node once, in the order of their names.
LEMMA ByNameIs ==
    ASSUME NEW inodes, NEW S, NamesDiffer(inodes, S)
    PROVE  LET seq == ByName(inodes, S)
           IN  /\ seq \in Seq(S) /\ ToSet(seq) = S
               /\ \A i, j \in 1..Len(seq) : i < j => inodes[seq[i]].name < inodes[seq[j]].name
<1> DEFINE n == Cardinality(S)
<1>1. PICK seq : seq = ByName(inodes, S)
  OBVIOUS
<1>2. \E s : InARow(inodes, S, s)
  BY RowsAreThere
<1>3. InARow(inodes, S, seq)
  BY <1>1, <1>2 DEF InARow, ByName
<1>4. n \in Nat /\ \A x \in S : inodes[x].name \in Nat
  BY FS_CardinalityType DEF NamesDiffer
<1>5. /\ seq \in [1..n -> S]
      /\ \A i, j \in 1..n : i < j => inodes[seq[i]].name < inodes[seq[j]].name
  BY <1>3 DEF InARow
<1>6. seq \in Seq(S) /\ Len(seq) = n /\ DOMAIN seq = 1..n
  BY <1>4, <1>5
<1>7. \A i, j \in 1..n : seq[i] = seq[j] => i = j
  <2>1. ASSUME NEW i \in 1..n, NEW j \in 1..n, i < j PROVE seq[i] # seq[j]
    <3>1. inodes[seq[i]].name < inodes[seq[j]].name /\ seq[i] \in S /\ seq[j] \in S
      BY <1>5, <2>1
    <3>2. inodes[seq[i]].name \in Nat
      BY <1>4, <3>1
    <3>3. QED
      BY <3>1, <3>2
  <2>2. \A i, j \in 1..n : i < j \/ j < i \/ i = j
    BY <1>4
  <2>3. QED
    BY <2>1, <2>2
<1>8. ToSet(seq) = S
  <2> DEFINE image == {seq[i] : i \in 1..n}
  <2>1. image \subseteq S /\ ToSet(seq) = image
    BY <1>5, <1>6 DEF ToSet
  <2>2. seq \in Bijection(1..n, image)
    BY <1>5, <1>7 DEF Bijection, Injection, Surjection, IsInjective
  <2>3. IsFiniteSet(1..n) /\ Cardinality(1..n) = n
    BY <1>4, FS_Interval
  <2>4. IsFiniteSet(image) /\ Cardinality(image) = n
    <3>1. ExistsBijection(1..n, image)
      BY <2>2 DEF ExistsBijection
    <3> HIDE DEF image
    <3>2. QED
      BY <2>3, <3>1, FS_Bijection
  <2>5. image = S
    <3>1. IsFiniteSet(S)
      BY DEF NamesDiffer
    <3>2. QED
      BY <2>1, <2>4, <3>1, FS_Subset
  <2>6. QED
    BY <2>1, <2>5
<1>9. QED
  BY <1>1, <1>5, <1>6, <1>8

\* Every node has its children in the order of their names.
InNameOrder(inodes) ==
    \A id \in 1..Len(inodes) :
        LET children == inodes[id].children
        IN  \A i, j \in 1..Len(children) :
                i < j => inodes[children[i]].name < inodes[children[j]].name

\* The children of a node have different names.
LEMMA ChildrenDiffer ==
    ASSUME NEW inodes, NEW table, NEW shown, NEW placed,
           TreeIs(inodes, table, shown, placed), IdsOk(table), NEW id \in 1..Len(inodes)
    PROVE  /\ NamesDiffer(inodes, ToSet(inodes[id].children))
           /\ ToSet(inodes[id].children) \subseteq 1..Len(inodes)
<1> DEFINE S == ToSet(inodes[id].children)
<1>1. inodes \in Seq(Node) /\ shown \subseteq AllPaths /\ Len(inodes) \in Nat
  BY LenProperties DEF TreeIs, IdsOk
<1>2. CASE inodes[id].kind = "gone"
  <2>1. inodes[id].children = << >>
    BY <1>2 DEF TreeIs
  <2>2. S = {}
    BY <2>1 DEF ToSet
  <2>3. QED
    BY <2>2, FS_EmptySet DEF NamesDiffer
<1>3. CASE inodes[id].kind # "gone"
  <2>1. PICK p \in shown : table[p] = id
    BY <1>3 DEF TreeIs
  <2>2. S = {table[q] : q \in {q \in shown \ {Root} : Parent(q) = p}}
    BY <2>1 DEF TreeIs, NodeShows
  <2>3. \A q \in shown \ {Root} : /\ table[q] \in 1..Len(inodes) /\ q \in AllPaths /\ Last(q) \in Nat
                                  /\ inodes[table[q]].name = Last(q)
    <3>1. \A q \in shown \ {Root} : q \in AllPaths /\ Last(q) \in Nat
      BY <1>1, PathIs
    <3>2. QED
      BY <3>1 DEF TreeIs, NodeShows
  <2>4. S \subseteq 1..Len(inodes)
    BY <2>2, <2>3
  <2>5. IsFiniteSet(S)
    <3>1. IsFiniteSet(1..Len(inodes))
      BY <1>1, FS_Interval
    <3>2. QED
      BY <2>4, <3>1, FS_Subset
  <2>6. \A x \in S : inodes[x].name \in Nat
    BY <2>2, <2>3
  <2>7. ASSUME NEW x \in S, NEW y \in S, inodes[x].name = inodes[y].name  PROVE x = y
    <3>1. PICK q \in shown \ {Root} : Parent(q) = p /\ x = table[q]
      BY <2>2
    <3>2. PICK r \in shown \ {Root} : Parent(r) = p /\ y = table[r]
      BY <2>2
    <3>3. Last(q) = Last(r) /\ q \in AllPaths /\ r \in AllPaths /\ q # Root /\ r # Root
      BY <2>3, <2>7, <3>1, <3>2
    <3>4. q = r
      BY <3>1, <3>2, <3>3, PathIsItsParts
    <3>5. QED
      BY <3>1, <3>2, <3>4
  <2>8. QED
    BY <2>4, <2>5, <2>6, <2>7 DEF NamesDiffer
<1>4. QED
  BY <1>2, <1>3

\* sort_children changes the order of the children and nothing else.
LEMMA SortChildrenIs ==
    ASSUME NEW inodes, NEW table, NEW shown, NEW placed,
           TreeIs(inodes, table, shown, placed), IdsOk(table)
    PROVE  LET sorted == SortChildren(inodes)
           IN  /\ TreeIs(sorted, table, shown, placed) /\ InNameOrder(sorted)
               /\ Len(sorted) = Len(inodes)
<1> DEFINE sorted == SortChildren(inodes)
           row(id) == ByName(inodes, ToSet(inodes[id].children))
           n == Len(inodes)
<1>1. inodes \in Seq(Node) /\ n \in Nat /\ DOMAIN inodes = 1..n
      /\ \A id \in 1..n : inodes[id] \in Node
  BY LenProperties, ElementOfSeq DEF TreeIs
<1>2. \A id \in 1..n : /\ row(id) \in Seq(1..n) /\ ToSet(row(id)) = ToSet(inodes[id].children)
                       /\ \A i, j \in 1..Len(row(id)) :
                              i < j => inodes[row(id)[i]].name < inodes[row(id)[j]].name
  <2> TAKE id \in 1..n
  <2> DEFINE S == ToSet(inodes[id].children)
  <2>1. NamesDiffer(inodes, S) /\ S \subseteq 1..n
    BY ChildrenDiffer
  <2> HIDE DEF S
  <2>2. /\ ByName(inodes, S) \in Seq(S) /\ ToSet(ByName(inodes, S)) = S
        /\ \A i, j \in 1..Len(ByName(inodes, S)) :
               i < j => inodes[ByName(inodes, S)[i]].name < inodes[ByName(inodes, S)[j]].name
    BY <2>1, ByNameIs
  <2>3. ByName(inodes, S) \in Seq(1..n)
    BY <2>1, <2>2, SeqMonotonic
  <2>4. QED
    BY <2>2, <2>3 DEF S
<1>3. /\ DOMAIN sorted = 1..n
      /\ \A id \in 1..n : sorted[id] = [inodes[id] EXCEPT !.children = row(id)]
  BY <1>1 DEF SortChildren
<1>4. sorted = [id \in 1..n |-> sorted[id]]
  BY <1>1 DEF SortChildren
<1> HIDE DEF sorted, row
<1>5. \A id \in 1..n : SameBut(sorted[id], inodes[id], row(id)) /\ sorted[id] \in Node
  <2> TAKE id \in 1..n
  <2>1. row(id) \in Seq(Nat)
    <3>1. 1..n \subseteq Nat
      OBVIOUS
    <3>2. QED
      BY <1>2, <3>1, SeqMonotonic
  <2>2. PICK old : old = inodes[id]
    OBVIOUS
  <2>3. PICK new : new = sorted[id]
    OBVIOUS
  <2>4. old \in Node /\ new = [old EXCEPT !.children = row(id)]
    BY <1>1, <1>3, <2>2, <2>3
  <2>5. SameBut(new, old, row(id)) /\ new \in Node
    BY <2>1, <2>4 DEF SameBut, Node
  <2>6. QED
    BY <2>2, <2>3, <2>5
<1>6. sorted \in Seq(Node) /\ Len(sorted) = n
  BY <1>1, <1>4, <1>5
<1>7. ASSUME NEW p \in shown PROVE NodeShows(sorted, table, shown, placed, p)
  <2>1. NodeShows(inodes, table, shown, placed, p) /\ table[p] \in 1..n
    BY DEF TreeIs
  <2>2. ToSet(row(table[p])) = ToSet(inodes[table[p]].children)
        /\ SameBut(sorted[table[p]], inodes[table[p]], row(table[p]))
    BY <1>2, <1>5, <2>1
  <2>3. QED
    BY <2>1, <2>2 DEF NodeShows, SameBut
<1>8. TreeIs(sorted, table, shown, placed)
  <2>1. \A id \in 1..n : sorted[id].kind = inodes[id].kind
    BY <1>5 DEF SameBut
  <2>2. ASSUME NEW id \in 1..n, inodes[id].kind = "gone"  PROVE sorted[id].children = << >>
    <3>1. inodes[id].children = << >>
      BY <2>2 DEF TreeIs
    <3>2. ToSet(inodes[id].children) = {}
      BY <3>1 DEF ToSet
    <3>3. row(id) \in Seq(1..n) /\ ToSet(row(id)) = {}
      BY <1>2, <3>2
    <3>4. row(id) = << >>
      <4>1. Len(row(id)) \in Nat /\ DOMAIN row(id) = 1..Len(row(id))
        BY <3>3, LenProperties
      <4>2. ~(1 \in 1..Len(row(id)))
        BY <3>3, <4>1 DEF ToSet
      <4>3. Len(row(id)) = 0
        BY <4>1, <4>2
      <4>4. QED
        BY <3>3, <4>3, EmptySeq
    <3>5. QED
      BY <1>5, <3>4 DEF SameBut
  <2>3. QED
    BY <1>6, <1>7, <2>1, <2>2 DEF TreeIs
<1>9. InNameOrder(sorted)
  <2> SUFFICES ASSUME NEW id \in 1..n, NEW i \in 1..Len(sorted[id].children),
                      NEW j \in 1..Len(sorted[id].children), i < j
               PROVE  sorted[sorted[id].children[i]].name < sorted[sorted[id].children[j]].name
    BY <1>6 DEF InNameOrder
  <2>1. sorted[id].children = row(id) /\ row(id) \in Seq(1..n)
    BY <1>2, <1>5 DEF SameBut
  <2>2. inodes[row(id)[i]].name < inodes[row(id)[j]].name
    BY <1>2, <2>1
  <2>3. row(id)[i] \in 1..n /\ row(id)[j] \in 1..n
    BY <2>1, ElementOfSeq
  <2>4. sorted[row(id)[i]].name = inodes[row(id)[i]].name
        /\ sorted[row(id)[j]].name = inodes[row(id)[j]].name
    BY <1>5, <2>3 DEF SameBut
  <2>5. QED
    BY <2>1, <2>2, <2>4
<1>10. QED
  BY <1>6, <1>8, <1>9 DEF sorted

-----------------------------------------------------------------------------
(* A whole build.                                                            *)

PathLists == [dirs : Seq(AllPaths), files : Seq(AllPaths), index_of : Seq(AllPaths)]

\* What the first i directories and the first j files of a manifest show, and
\* the files among them.
Seen(m, i, j) ==
    {Root} \cup (UNION {Prefixes(m.dirs[k]) : k \in 1..i})
           \cup (UNION {Prefixes(m.files[k]) : k \in 1..j})
FiledTo(m, j) == {<<m.files[k], k>> : k \in {k \in 1..j : m.files[k] # Root}}

\* A manifest the builder takes.
FileFits(m, k) == Fits(m.files[k], Seen(m, Len(m.dirs), k - 1), FiledTo(m, k - 1))
Buildable(m) ==
    /\ \A k \in 1..Len(m.dirs) : Safe(m.dirs[k])
    /\ \A k \in 1..Len(m.files) : FileFits(m, k)

\* TreeBuilder::new.
LEMMA StartIs ==
    ASSUME NEW table, IdsOk(table)
    PROVE  Building(Start(table), table, {Root}, {}) /\ Start(table).ok
<1> DEFINE c == Cardinality(DOMAIN table)
           inodes == [id \in 1..c |-> IF id = ROOT_ID THEN Dir(0, ROOT_ID) ELSE Gone]
<1>1. c \in Nat /\ table[Root] = 1 /\ 1 \in 1..c
  <2>1. c \in Nat /\ table[Root] = 1 /\ table[Root] \in 1..c
    BY FS_CardinalityType DEF IdsOk, ROOT_ID
  <2>2. QED
    BY <2>1
<1>2. Dir(0, ROOT_ID) \in Node /\ Gone \in Node
  <2>1. << >> \in Seq(Nat)
    OBVIOUS
  <2>2. QED
    BY <2>1 DEF Dir, Gone, Node, ROOT_ID
<1>3. /\ inodes \in Seq(Node) /\ Len(inodes) = c
      /\ inodes[1] = Dir(0, ROOT_ID) /\ \A id \in 1..c : id # 1 => inodes[id] = Gone
  BY <1>1, <1>2 DEF ROOT_ID
<1>4. Start(table) = [ids |-> table, nodes |-> inodes, ok |-> TRUE]
  BY DEF Start
<1> HIDE DEF inodes, c
<1>5. NodeShows(inodes, table, {Root}, {}, Root)
  <2>1. inodes[1].kind = "dir" /\ inodes[1].children = << >>
    BY <1>3 DEF Dir
  <2>2. ToSet(<< >>) = {}
    BY DEF ToSet
  <2>3. QED
    BY <1>1, <2>1, <2>2 DEF NodeShows, FilePaths
<1>6. TreeIs(inodes, table, {Root}, {})
  <2>1. \A id \in 1..c : id # 1 => inodes[id].kind = "gone" /\ inodes[id].children = << >>
    BY <1>3 DEF Gone
  <2>2. inodes[1].kind = "dir"
    BY <1>3 DEF Dir
  <2>3. Root \in DOMAIN table
    BY DEF IdsOk
  <2>4. QED
    BY <1>1, <1>3, <1>5, <2>1, <2>2, <2>3 DEF TreeIs
<1>7. Grows(table, table)
  BY DEF Grows
<1>8. PICK b : b = Start(table)
  OBVIOUS
<1>9. /\ b = [ids |-> b.ids, nodes |-> b.nodes, ok |-> b.ok] /\ b.ids = table
      /\ b.nodes = inodes /\ b.ok = TRUE
  BY <1>4, <1>8
<1>10. Building(b, table, {Root}, {}) /\ b.ok
  BY <1>3, <1>6, <1>7, <1>9 DEF Building, c
<1>11. QED
  BY <1>8, <1>10

\* The directories are added one after another.
DirsUpTo(table, m) ==
    LET upto[k \in 0..Len(m.dirs)] ==
            IF k = 0 THEN Start(table) ELSE AddDir(upto[k - 1], m.dirs[k])
    IN  upto

LEMMA DirsSteps ==
    ASSUME NEW table, NEW m \in PathLists
    PROVE  LET upto == DirsUpTo(table, m)
           IN  /\ upto[0] = Start(table)
               /\ \A k \in 1..Len(m.dirs) : upto[k] = AddDir(upto[k - 1], m.dirs[k])
<1> DEFINE From(g, n) == g = [k \in 0..n |-> IF k = 0 THEN Start(table)
                                             ELSE AddDir(g[k - 1], m.dirs[k])]
           S == {n \in Nat : \E g : From(g, n)}
<1>1. 0 \in S
  <2>1. From([k \in 0..0 |-> Start(table)], 0)
    OBVIOUS
  <2>2. QED
    BY <2>1
<1>2. ASSUME NEW n \in Nat, n \in S PROVE n + 1 \in S
  <2>1. PICK g : From(g, n)
    BY <1>2
  <2> DEFINE last == AddDir(g[n], m.dirs[(n + 1)])
             h == [k \in 0..n + 1 |-> IF k = n + 1 THEN last ELSE g[k]]
  <2>2. /\ h = [k \in 0..n + 1 |-> h[k]] /\ h[n + 1] = last
        /\ \A k \in 0..n : h[k] = g[k]
    <3> HIDE DEF last
    <3> QED  OBVIOUS
  <2>3. \A k \in 0..n : g[k] = IF k = 0 THEN Start(table) ELSE AddDir(g[k - 1], m.dirs[k])
    BY <2>1
  <2> HIDE DEF h, From
  <2>4. \A k \in 0..n + 1 : h[k] = IF k = 0 THEN Start(table) ELSE AddDir(h[k - 1], m.dirs[k])
    <3> TAKE k \in 0..n + 1
    <3>1. CASE k = n + 1
      <4>1. h[k] = last /\ k - 1 = n /\ n \in 0..n /\ k # 0
        BY <2>2, <3>1
      <4>2. h[k - 1] = g[n]
        BY <2>2, <4>1
      <4>3. QED
        BY <3>1, <4>1, <4>2 DEF last
    <3>2. CASE k # n + 1
      <4>1. k \in 0..n /\ (k # 0 => k - 1 \in 0..n)
        BY <3>2
      <4>2. h[k] = g[k] /\ (k # 0 => h[k - 1] = g[k - 1])
        BY <2>2, <4>1
      <4>3. QED
        BY <2>3, <4>1, <4>2
    <3>3. QED
      BY <3>1, <3>2
  <2>5. From(h, n + 1)
    BY <2>2, <2>4 DEF From
  <2>6. QED
    BY <2>5
<1>3. Len(m.dirs) \in Nat
  BY LenProperties DEF PathLists
<1>4. Len(m.dirs) \in S
  <2> HIDE DEF S
  <2>1. Nat \subseteq S
    BY <1>1, <1>2, SetInduction
  <2>2. QED
    BY <1>3, <2>1
<1> DEFINE upto == DirsUpTo(table, m)
<1>5. upto = CHOOSE g : From(g, Len(m.dirs))
  BY DEF DirsUpTo
<1>6. From(upto, Len(m.dirs))
  BY <1>4, <1>5
<1> HIDE DEF upto
<1>8. upto[0] = Start(table)
  BY <1>3, <1>6
<1>9. \A k \in 1..Len(m.dirs) : upto[k] = AddDir(upto[k - 1], m.dirs[k])
  <2>1. \A k \in 1..Len(m.dirs) : k \in 0..Len(m.dirs) /\ k # 0
    BY <1>3
  <2>2. QED
    BY <1>6, <2>1
<1>10. QED
  BY <1>8, <1>9 DEF upto

\* ... and the files after them, each at its position.
FilesUpTo(table, m) ==
    LET upto[k \in 0..Len(m.files)] ==
            IF k = 0 THEN DirsUpTo(table, m)[Len(m.dirs)] ELSE AddFile(upto[k - 1], m.files[k], k)
    IN  upto

LEMMA FilesSteps ==
    ASSUME NEW table, NEW m \in PathLists
    PROVE  LET upto == FilesUpTo(table, m)
           IN  /\ upto[0] = DirsUpTo(table, m)[Len(m.dirs)]
               /\ \A k \in 1..Len(m.files) : upto[k] = AddFile(upto[k - 1], m.files[k], k)
               /\ BuildTree(table, m) =
                    LET b == upto[Len(m.files)]
                    IN  IF b.ok THEN [b EXCEPT !.nodes = SortChildren(@)] ELSE b
<1> DEFINE From(g, n) == g = [k \in 0..n |-> IF k = 0 THEN DirsUpTo(table, m)[Len(m.dirs)]
                                             ELSE AddFile(g[k - 1], m.files[k], k)]
           S == {n \in Nat : \E g : From(g, n)}
<1>1. 0 \in S
  <2>1. From([k \in 0..0 |-> DirsUpTo(table, m)[Len(m.dirs)]], 0)
    OBVIOUS
  <2>2. QED
    BY <2>1
<1>2. ASSUME NEW n \in Nat, n \in S PROVE n + 1 \in S
  <2>1. PICK g : From(g, n)
    BY <1>2
  <2> DEFINE last == AddFile(g[n], m.files[(n + 1)], (n + 1))
             h == [k \in 0..n + 1 |-> IF k = n + 1 THEN last ELSE g[k]]
  <2>2. /\ h = [k \in 0..n + 1 |-> h[k]] /\ h[n + 1] = last
        /\ \A k \in 0..n : h[k] = g[k]
    <3> HIDE DEF last
    <3> QED  OBVIOUS
  <2>3. \A k \in 0..n : g[k] = IF k = 0 THEN DirsUpTo(table, m)[Len(m.dirs)] ELSE AddFile(g[k - 1], m.files[k], k)
    BY <2>1
  <2> HIDE DEF h, From
  <2>4. \A k \in 0..n + 1 : h[k] = IF k = 0 THEN DirsUpTo(table, m)[Len(m.dirs)] ELSE AddFile(h[k - 1], m.files[k], k)
    <3> TAKE k \in 0..n + 1
    <3>1. CASE k = n + 1
      <4>1. h[k] = last /\ k - 1 = n /\ n \in 0..n /\ k # 0
        BY <2>2, <3>1
      <4>2. h[k - 1] = g[n]
        BY <2>2, <4>1
      <4>3. QED
        BY <3>1, <4>1, <4>2 DEF last
    <3>2. CASE k # n + 1
      <4>1. k \in 0..n /\ (k # 0 => k - 1 \in 0..n)
        BY <3>2
      <4>2. h[k] = g[k] /\ (k # 0 => h[k - 1] = g[k - 1])
        BY <2>2, <4>1
      <4>3. QED
        BY <2>3, <4>1, <4>2
    <3>3. QED
      BY <3>1, <3>2
  <2>5. From(h, n + 1)
    BY <2>2, <2>4 DEF From
  <2>6. QED
    BY <2>5
<1>3. Len(m.files) \in Nat
  BY LenProperties DEF PathLists
<1>4. Len(m.files) \in S
  <2> HIDE DEF S
  <2>1. Nat \subseteq S
    BY <1>1, <1>2, SetInduction
  <2>2. QED
    BY <1>3, <2>1
<1> DEFINE upto == FilesUpTo(table, m)
<1>5. upto = CHOOSE g : From(g, Len(m.files))
  BY DEF FilesUpTo
<1>6. From(upto, Len(m.files))
  BY <1>4, <1>5
<1>7. BuildTree(table, m) = LET b == upto[Len(m.files)] IN IF b.ok THEN [b EXCEPT !.nodes = SortChildren(@)] ELSE b
  BY DEF BuildTree, DirsUpTo, FilesUpTo
<1> HIDE DEF upto
<1>8. upto[0] = DirsUpTo(table, m)[Len(m.dirs)]
  BY <1>3, <1>6
<1>9. \A k \in 1..Len(m.files) : upto[k] = AddFile(upto[k - 1], m.files[k], k)
  <2>1. \A k \in 1..Len(m.files) : k \in 0..Len(m.files) /\ k # 0
    BY <1>3
  <2>2. QED
    BY <1>6, <2>1
<1>10. QED
  BY <1>7, <1>8, <1>9 DEF upto

LEMMA DirsSeen ==
    ASSUME NEW m, NEW i \in Nat
    PROVE  /\ Seen(m, 0, 0) = {Root}
           /\ Seen(m, i + 1, 0) = Seen(m, i, 0) \cup Prefixes(m.dirs[i + 1])
<1>1. 1..0 = {} /\ 1..i + 1 = (1..i) \cup {i + 1}
  OBVIOUS
<1>2. QED
  BY <1>1 DEF Seen

LEMMA FilesSeen ==
    ASSUME NEW m, NEW j \in Nat, NEW i
    PROVE  Seen(m, i, j + 1) = Seen(m, i, j) \cup Prefixes(m.files[j + 1])
<1>1. 1..j + 1 = (1..j) \cup {j + 1}
  OBVIOUS
<1>2. QED
  BY <1>1 DEF Seen

LEMMA FiledGrows ==
    ASSUME NEW m, NEW j \in Nat
    PROVE  /\ FiledTo(m, 0) = {}
           /\ FiledTo(m, j + 1) = Filed(FiledTo(m, j), m.files[j + 1], j + 1)
<1> DEFINE live(n) == {k \in 1..n : m.files[k] # Root}
<1>1. 1..0 = {} /\ 1..j + 1 = (1..j) \cup {j + 1}
  OBVIOUS
<1>2. FiledTo(m, 0) = {}
  BY <1>1 DEF FiledTo
<1>3. CASE m.files[j + 1] = Root
  <2>1. live(j + 1) = live(j)
    BY <1>1, <1>3
  <2>2. FiledTo(m, j + 1) = FiledTo(m, j)
    BY <2>1 DEF FiledTo
  <2>3. QED
    BY <1>2, <1>3, <2>2 DEF Filed
<1>4. CASE m.files[j + 1] # Root
  <2>1. live(j + 1) = live(j) \cup {j + 1}
    BY <1>1, <1>4
  <2>2. FiledTo(m, j + 1) = FiledTo(m, j) \cup {<<m.files[j + 1], j + 1>>}
    BY <2>1 DEF FiledTo
  <2>3. QED
    BY <1>2, <1>4, <2>2 DEF Filed
<1>5. QED
  BY <1>3, <1>4

LEMMA DirsIs ==
    ASSUME NEW table, IdsOk(table), NEW m \in PathLists
    PROVE  LET b == DirsUpTo(table, m)[Len(m.dirs)]
           IN  /\ Building(b, table, Seen(m, Len(m.dirs), 0), {})
               /\ b.ok <=> \A k \in 1..Len(m.dirs) : Safe(m.dirs[k])
<1> DEFINE N == Len(m.dirs)
           upto == DirsUpTo(table, m)
<1>1. N \in Nat /\ \A k \in 1..N : m.dirs[k] \in AllPaths
  BY LenProperties, ElementOfSeq DEF PathLists
<1>2. /\ upto[0] = Start(table)
      /\ \A k \in 1..N : upto[k] = AddDir(upto[k - 1], m.dirs[k])
  BY DirsSteps
<1> HIDE DEF upto
<1> DEFINE Good(n) == /\ Building(upto[n], table, Seen(m, n, 0), {})
                      /\ upto[n].ok <=> \A k \in 1..n : Safe(m.dirs[k])
           S == {n \in Nat : n <= N => Good(n)}
<1>3. 0 \in S
  <2>1. Building(upto[0], table, Seen(m, 0, 0), {}) /\ upto[0].ok
    BY <1>2, StartIs, DirsSeen
  <2>2. \A k \in 1..0 : FALSE
    OBVIOUS
  <2>3. QED
    BY <2>1, <2>2
<1>4. ASSUME NEW n \in Nat, n \in S PROVE n + 1 \in S
  <2>1. SUFFICES ASSUME n + 1 <= N PROVE Good(n + 1)
    OBVIOUS
  <2>2. n + 1 \in 1..N /\ (n + 1) - 1 = n /\ Good(n) /\ m.dirs[n + 1] \in AllPaths
    BY <1>1, <1>4, <2>1
  <2>3. upto[n + 1] = AddDir(upto[n], m.dirs[n + 1])
    BY <1>2, <2>2
  <2>4. /\ Building(upto[n + 1], table, Seen(m, n, 0) \cup Prefixes(m.dirs[n + 1]), {})
        /\ upto[n + 1].ok <=>
              upto[n].ok /\ Safe(m.dirs[n + 1]) /\ Prefixes(m.dirs[n + 1]) \cap FilePaths({}) = {}
    <3>1. PICK b, path, seen : b = upto[n] /\ path = m.dirs[n + 1] /\ seen = Seen(m, n, 0)
      OBVIOUS
    <3>2. Building(b, table, seen, {}) /\ path \in AllPaths
      BY <2>2, <3>1
    <3>3. /\ Building(AddDir(b, path), table, seen \cup Prefixes(path), {})
          /\ AddDir(b, path).ok <=> b.ok /\ Safe(path) /\ Prefixes(path) \cap FilePaths({}) = {}
      BY ONLY <3>2, AddDirIs
    <3>4. QED
      BY <2>3, <3>1, <3>3
  <2>5. FilePaths({}) = {}
    BY DEF FilePaths
  <2>6. Building(upto[n + 1], table, Seen(m, n + 1, 0), {})
    BY <2>4, DirsSeen
  <2>7. (\A k \in 1..n + 1 : Safe(m.dirs[k]))
            <=> (\A k \in 1..n : Safe(m.dirs[k])) /\ Safe(m.dirs[n + 1])
    <3>1. 1..n + 1 = (1..n) \cup {n + 1}
      OBVIOUS
    <3>2. QED
      BY <3>1
  <2>8. upto[n + 1].ok <=> \A k \in 1..n + 1 : Safe(m.dirs[k])
    BY <2>2, <2>4, <2>5, <2>7
  <2>9. QED
    BY <2>6, <2>8
<1>5. N \in S
  <2> HIDE DEF S
  <2>1. Nat \subseteq S
    BY <1>3, <1>4, SetInduction
  <2>2. QED
    BY <1>1, <2>1
<1>6. QED
  BY <1>1, <1>5 DEF upto

LEMMA FilesAre ==
    ASSUME NEW table, IdsOk(table), NEW m \in PathLists
    PROVE  LET b == FilesUpTo(table, m)[Len(m.files)]
           IN  /\ Building(b, table, Seen(m, Len(m.dirs), Len(m.files)), FiledTo(m, Len(m.files)))
               /\ b.ok <=> Buildable(m)
<1> DEFINE N == Len(m.files)
           D == Len(m.dirs)
           upto == FilesUpTo(table, m)
           dirsOk == \A k \in 1..D : Safe(m.dirs[k])
<1>1. N \in Nat /\ (\A k \in 1..N : m.files[k] \in AllPaths) /\ D \in Nat
  BY LenProperties, ElementOfSeq DEF PathLists
<1>2. /\ upto[0] = DirsUpTo(table, m)[D]
      /\ \A k \in 1..N : upto[k] = AddFile(upto[k - 1], m.files[k], k)
  BY FilesSteps
<1> HIDE DEF upto
<1> DEFINE Good(n) == /\ Building(upto[n], table, Seen(m, D, n), FiledTo(m, n))
                      /\ upto[n].ok <=> dirsOk /\ \A k \in 1..n : FileFits(m, k)
           S == {n \in Nat : n <= N => Good(n)}
<1>3. 0 \in S
  <2>1. Building(upto[0], table, Seen(m, D, 0), FiledTo(m, 0)) /\ (upto[0].ok <=> dirsOk)
    <3>1. FiledTo(m, 0) = {}
      BY FiledGrows
    <3>2. Building(upto[0], table, Seen(m, D, 0), {}) /\ (upto[0].ok <=> dirsOk)
      BY <1>2, DirsIs
    <3>3. QED
      BY <3>1, <3>2
  <2>2. \A k \in 1..0 : FALSE
    OBVIOUS
  <2> HIDE DEF dirsOk
  <2>3. QED
    BY <2>1, <2>2
<1>4. ASSUME NEW n \in Nat, n \in S PROVE n + 1 \in S
  <2>1. SUFFICES ASSUME n + 1 <= N PROVE Good(n + 1)
    OBVIOUS
  <2>2. /\ n + 1 \in 1..N /\ (n + 1) - 1 = n /\ Good(n) /\ m.files[n + 1] \in AllPaths
        /\ n + 1 \in Nat \ {0}
    BY <1>1, <1>4, <2>1
  <2> HIDE DEF dirsOk
  <2>3. upto[n + 1] = AddFile(upto[n], m.files[n + 1], n + 1)
    BY <1>2, <2>2
  <2>4. /\ Building(upto[n + 1], table, Seen(m, D, n) \cup Prefixes(m.files[n + 1]),
                    Filed(FiledTo(m, n), m.files[n + 1], n + 1))
        /\ upto[n + 1].ok <=> upto[n].ok /\ Fits(m.files[n + 1], Seen(m, D, n), FiledTo(m, n))
    BY <2>2, <2>3, AddFileIs
  <2>5. FileFits(m, n + 1) <=> Fits(m.files[n + 1], Seen(m, D, n), FiledTo(m, n))
    BY <2>2 DEF FileFits
  <2>6. Building(upto[n + 1], table, Seen(m, D, n + 1), FiledTo(m, n + 1))
    <3>1. Seen(m, D, n + 1) = Seen(m, D, n) \cup Prefixes(m.files[n + 1])
          /\ FiledTo(m, n + 1) = Filed(FiledTo(m, n), m.files[n + 1], n + 1)
      <4>1. Seen(m, D, n + 1) = Seen(m, D, n) \cup Prefixes(m.files[n + 1])
        BY FilesSeen
      <4>2. FiledTo(m, n + 1) = Filed(FiledTo(m, n), m.files[n + 1], n + 1)
        BY FiledGrows
      <4>3. QED
        BY <4>1, <4>2
    <3>2. QED
      BY <2>4, <3>1
  <2>7. (\A k \in 1..n + 1 : FileFits(m, k)) <=> (\A k \in 1..n : FileFits(m, k)) /\ FileFits(m, n + 1)
    <3>1. 1..n + 1 = (1..n) \cup {n + 1}
      OBVIOUS
    <3>2. QED
      BY <3>1
  <2>8. upto[n + 1].ok <=> dirsOk /\ \A k \in 1..n + 1 : FileFits(m, k)
    BY <2>2, <2>4, <2>5, <2>7
  <2>9. QED
    BY <2>6, <2>8
<1>5. N \in S
  <2> HIDE DEF S
  <2>1. Nat \subseteq S
    BY <1>3, <1>4, SetInduction
  <2>2. QED
    BY <1>1, <2>1
<1>6. QED
  BY <1>1, <1>5 DEF upto, Buildable

\* build_tree: it succeeds exactly on a manifest that lists no path twice and no
\* file above another entry, and its table then shows every path of it.
LEMMA BuildTreeIs ==
    ASSUME NEW table, IdsOk(table), NEW m \in PathLists
    PROVE  LET b == BuildTree(table, m)
           IN  /\ IdsOk(b.ids) /\ Grows(table, b.ids)
               /\ b.ok <=> Buildable(m)
               /\ b.ok => /\ TreeIs(b.nodes, b.ids, Seen(m, Len(m.dirs), Len(m.files)),
                                    FiledTo(m, Len(m.files)))
                          /\ InNameOrder(b.nodes)
                          /\ Len(b.nodes) = Cardinality(DOMAIN b.ids)
<1>1. PICK b : b = FilesUpTo(table, m)[Len(m.files)]
  OBVIOUS
<1> DEFINE shown == Seen(m, Len(m.dirs), Len(m.files))
           placed == FiledTo(m, Len(m.files))
<1>2. Building(b, table, shown, placed) /\ (b.ok <=> Buildable(m))
  BY <1>1, FilesAre
<1>3. PICK r : r = BuildTree(table, m)
  OBVIOUS
<1>4. r = IF b.ok THEN [b EXCEPT !.nodes = SortChildren(@)] ELSE b
  BY <1>1, <1>3, FilesSteps
<1> HIDE DEF shown, placed
<1>5. /\ b = [ids |-> b.ids, nodes |-> b.nodes, ok |-> b.ok] /\ IdsOk(b.ids) /\ Grows(table, b.ids)
      /\ b.ok => TreeIs(b.nodes, b.ids, shown, placed) /\ Len(b.nodes) = Cardinality(DOMAIN b.ids)
  BY <1>2 DEF Building
<1>6. CASE ~b.ok
  <2>1. r = b
    BY <1>4, <1>6
  <2>2. QED
    BY <1>2, <1>3, <1>5, <1>6, <2>1
<1>7. CASE b.ok
  <2>1. r.ids = b.ids /\ r.nodes = SortChildren(b.nodes) /\ r.ok = b.ok
    BY <1>4, <1>5, <1>7
  <2>2. /\ TreeIs(SortChildren(b.nodes), b.ids, shown, placed) /\ InNameOrder(SortChildren(b.nodes))
        /\ Len(SortChildren(b.nodes)) = Len(b.nodes)
    BY <1>5, <1>7, SortChildrenIs
  <2>3. QED
    BY <1>2, <1>3, <1>5, <1>7, <2>1, <2>2 DEF shown, placed
<1>8. QED
  BY <1>6, <1>7

-----------------------------------------------------------------------------
(* Names found again.                                                        *)

\* The spans of a binary search.
Spans(inodes, children, name) ==
    LET upto[k \in 0..Len(children)] ==
            IF k = 0 THEN [lo |-> 1, hi |-> Len(children)] ELSE Probe(inodes, children, name, upto[k - 1])
    IN  upto

LEMMA FindSteps ==
    ASSUME NEW inodes, NEW children \in Seq(Nat), NEW name
    PROVE  LET upto == Spans(inodes, children, name)
           IN  /\ upto[0] = [lo |-> 1, hi |-> Len(children)]
               /\ \A k \in 1..Len(children) : upto[k] = Probe(inodes, children, name, upto[k - 1])
               /\ Find(inodes, children, name) =
                    LET last == upto[Len(children)]
                    IN  IF last.lo > last.hi THEN 0 ELSE children[last.lo]
<1> DEFINE From(g, n) == g = [k \in 0..n |-> IF k = 0 THEN [lo |-> 1, hi |-> Len(children)]
                                             ELSE Probe(inodes, children, name, g[k - 1])]
           S == {n \in Nat : \E g : From(g, n)}
<1>1. 0 \in S
  <2>1. From([k \in 0..0 |-> [lo |-> 1, hi |-> Len(children)]], 0)
    OBVIOUS
  <2>2. QED
    BY <2>1
<1>2. ASSUME NEW n \in Nat, n \in S PROVE n + 1 \in S
  <2>1. PICK g : From(g, n)
    BY <1>2
  <2> DEFINE last == Probe(inodes, children, name, g[n])
             h == [k \in 0..n + 1 |-> IF k = n + 1 THEN last ELSE g[k]]
  <2>2. /\ h = [k \in 0..n + 1 |-> h[k]] /\ h[n + 1] = last
        /\ \A k \in 0..n : h[k] = g[k]
    <3> HIDE DEF last
    <3> QED  OBVIOUS
  <2>3. \A k \in 0..n : g[k] = IF k = 0 THEN [lo |-> 1, hi |-> Len(children)] ELSE Probe(inodes, children, name, g[k - 1])
    BY <2>1
  <2> HIDE DEF h, From
  <2>4. \A k \in 0..n + 1 : h[k] = IF k = 0 THEN [lo |-> 1, hi |-> Len(children)] ELSE Probe(inodes, children, name, h[k - 1])
    <3> TAKE k \in 0..n + 1
    <3>1. CASE k = n + 1
      <4>1. h[k] = last /\ k - 1 = n /\ n \in 0..n /\ k # 0
        BY <2>2, <3>1
      <4>2. h[k - 1] = g[n]
        BY <2>2, <4>1
      <4>3. QED
        BY <3>1, <4>1, <4>2 DEF last
    <3>2. CASE k # n + 1
      <4>1. k \in 0..n /\ (k # 0 => k - 1 \in 0..n)
        BY <3>2
      <4>2. h[k] = g[k] /\ (k # 0 => h[k - 1] = g[k - 1])
        BY <2>2, <4>1
      <4>3. QED
        BY <2>3, <4>1, <4>2
    <3>3. QED
      BY <3>1, <3>2
  <2>5. From(h, n + 1)
    BY <2>2, <2>4 DEF From
  <2>6. QED
    BY <2>5
<1>3. Len(children) \in Nat
  BY LenProperties
<1>4. Len(children) \in S
  <2> HIDE DEF S
  <2>1. Nat \subseteq S
    BY <1>1, <1>2, SetInduction
  <2>2. QED
    BY <1>3, <2>1
<1> DEFINE upto == Spans(inodes, children, name)
<1>5. upto = CHOOSE g : From(g, Len(children))
  BY DEF Spans
<1>6. From(upto, Len(children))
  BY <1>4, <1>5
<1>7. Find(inodes, children, name) = LET last == upto[Len(children)] IN IF last.lo > last.hi THEN 0 ELSE children[last.lo]
  BY DEF Find, Spans
<1> HIDE DEF upto
<1>8. upto[0] = [lo |-> 1, hi |-> Len(children)]
  BY <1>3, <1>6
<1>9. \A k \in 1..Len(children) : upto[k] = Probe(inodes, children, name, upto[k - 1])
  <2>1. \A k \in 1..Len(children) : k \in 0..Len(children) /\ k # 0
    BY <1>3
  <2>2. QED
    BY <1>6, <2>1
<1>10. QED
  BY <1>7, <1>8, <1>9 DEF upto

\* Children in the order of their names.
Ordered(inodes, children) ==
    /\ \A i \in 1..Len(children) : inodes[children[i]].name \in Nat
    /\ \A i, j \in 1..Len(children) :
          i < j => inodes[children[i]].name < inodes[children[j]].name

\* A span has the name in it, when it is there at all.
SpanIs(span, inodes, children, name) ==
    /\ span = [lo |-> span.lo, hi |-> span.hi]
    /\ span.lo \in 1..Len(children) + 1 /\ span.hi \in 0..Len(children)
    /\ \A i \in 1..Len(children) :
          inodes[children[i]].name = name => span.lo <= i /\ i <= span.hi

\* It is empty, or the name itself.
Settled(span, inodes, children, name) ==
    \/ span.lo > span.hi
    \/ span.lo = span.hi /\ inodes[children[span.lo]].name = name

\* A probe loses no name and settles the search or shortens the span.
LEMMA ProbeIs ==
    ASSUME NEW inodes, NEW children \in Seq(Nat), Ordered(inodes, children), NEW name \in Nat,
           NEW span, SpanIs(span, inodes, children, name)
    PROVE  LET next == Probe(inodes, children, name, span)
           IN  /\ SpanIs(next, inodes, children, name)
               /\ Settled(span, inodes, children, name) => Settled(next, inodes, children, name)
               /\ \/ Settled(next, inodes, children, name)
                  \/ next.hi - next.lo < span.hi - span.lo
<1> DEFINE named(i) == inodes[children[i]].name
           L == Len(children)
           lo == span.lo
           hi == span.hi
           mid == (lo + hi) \div 2
           next == Probe(inodes, children, name, span)
<1>1. L \in Nat
  BY LenProperties
<1>2. lo \in 1..L + 1 /\ hi \in 0..L /\ \A i \in 1..L : named(i) = name => lo <= i /\ i <= hi
  BY DEF SpanIs
<1>3. \A i \in 1..L : named(i) \in Nat
  BY DEF Ordered
<1>4. \A i, j \in 1..L : i < j => named(i) < named(j)
  BY DEF Ordered
<1>5. CASE lo > hi
  <2>1. next = span
    BY <1>5 DEF Probe
  <2>2. QED
    BY <1>5, <2>1 DEF Settled
<1>6. CASE ~(lo > hi)
  <2>1. mid \in 1..L /\ lo <= mid /\ mid <= hi
    BY <1>1, <1>2, <1>6
  <2> HIDE DEF mid
  <2>2. CASE named(mid) = name
    <3>1. next = [lo |-> mid, hi |-> mid]
      BY <1>6, <2>2 DEF Probe, mid
    <3>2. \A i \in 1..L : named(i) = name => i = mid
      <4> HIDE DEF named
      <4> QED  BY <1>1, <1>3, <1>4, <2>1, <2>2
    <3>3. mid \in 1..L + 1 /\ mid \in 0..L
      BY <1>1, <2>1
    <3> HIDE DEF next
    <3>4. next.lo = mid /\ next.hi = mid
      BY <3>1
    <3>5. SpanIs(next, inodes, children, name)
      BY <1>1, <2>1, <3>1, <3>2, <3>3, <3>4 DEF SpanIs
    <3>6. Settled(next, inodes, children, name)
      BY <2>2, <3>4 DEF Settled
    <3>7. QED
      BY <3>5, <3>6 DEF next
  <2>3. CASE named(mid) < name
    <3>1. named(mid) # name
      BY <1>3, <2>1, <2>3
    <3>2. span = [lo |-> lo, hi |-> hi]
      BY DEF SpanIs
    <3>3. next = [span EXCEPT !.lo = mid + 1]
      BY <1>6, <2>3, <3>1 DEF Probe, mid
    <3>4. next = [lo |-> mid + 1, hi |-> hi]
      BY <3>2, <3>3
    <3>5. \A i \in 1..L : named(i) = name => mid + 1 <= i
      <4>1. ASSUME NEW i \in 1..L, named(i) = name, i <= mid  PROVE FALSE
        <5>1. i = mid \/ named(i) < named(mid)
          BY <1>1, <1>4, <2>1, <4>1
        <5>2. named(i) \in Nat /\ named(mid) \in Nat
          BY <1>3, <2>1
        <5> HIDE DEF named
        <5>3. QED
          BY <2>3, <4>1, <5>1, <5>2
      <4>2. QED
        BY <1>1, <2>1, <4>1
    <3>6. mid + 1 \in 1..L + 1
      BY <1>1, <2>1
    <3> HIDE DEF next
    <3>7. next.lo = mid + 1 /\ next.hi = hi
      BY <3>4
    <3>8. SpanIs(next, inodes, children, name)
      BY <1>2, <3>4, <3>5, <3>6, <3>7 DEF SpanIs
    <3>9. next.hi - next.lo < hi - lo
      BY <1>1, <1>2, <2>1, <3>7
    <3>10. ~Settled(span, inodes, children, name)
      <4>1. ASSUME lo = hi PROVE named(lo) # name
        <5>1. mid = lo
          BY <1>1, <1>2, <2>1, <4>1
        <5>2. QED
          BY <3>1, <5>1
      <4>2. QED
        BY <1>6, <4>1 DEF Settled
    <3>11. QED
      BY <3>8, <3>9, <3>10 DEF next
  <2>4. CASE ~(named(mid) < name) /\ named(mid) # name
    <3>1. span = [lo |-> lo, hi |-> hi]
      BY DEF SpanIs
    <3>2. next = [span EXCEPT !.hi = mid - 1]
      BY <1>6, <2>4 DEF Probe, mid
    <3>3. next = [lo |-> lo, hi |-> mid - 1]
      BY <3>1, <3>2
    <3>4. \A i \in 1..L : named(i) = name => i <= mid - 1
      <4>1. ASSUME NEW i \in 1..L, named(i) = name, mid <= i  PROVE FALSE
        <5>1. i = mid \/ named(mid) < named(i)
          BY <1>1, <1>4, <2>1, <4>1
        <5>2. named(i) \in Nat /\ named(mid) \in Nat
          BY <1>3, <2>1
        <5> HIDE DEF named
        <5>3. QED
          BY <2>4, <4>1, <5>1, <5>2
      <4>2. QED
        BY <1>1, <2>1, <4>1
    <3>5. mid - 1 \in 0..L
      BY <1>1, <2>1
    <3> HIDE DEF next
    <3>6. next.lo = lo /\ next.hi = mid - 1
      BY <3>3
    <3>7. SpanIs(next, inodes, children, name)
      BY <1>2, <3>3, <3>4, <3>5, <3>6 DEF SpanIs
    <3>8. next.hi - next.lo < hi - lo
      BY <1>1, <1>2, <2>1, <3>6
    <3>9. ~Settled(span, inodes, children, name)
      <4>1. ASSUME lo = hi PROVE named(lo) # name
        <5>1. mid = lo
          BY <1>1, <1>2, <2>1, <4>1
        <5>2. QED
          BY <2>4, <5>1
      <4>2. QED
        BY <1>6, <4>1 DEF Settled
    <3>10. QED
      BY <3>7, <3>8, <3>9 DEF next
  <2>5. QED
    BY <2>2, <2>3, <2>4
<1>7. QED
  BY <1>5, <1>6

\* The search finds the child of a name, and 0 only when there is none.
LEMMA FindIs ==
    ASSUME NEW inodes, NEW children \in Seq(Nat), Ordered(inodes, children), NEW name \in Nat
    PROVE  LET found == Find(inodes, children, name)
           IN  \/ found = 0 /\ \A i \in 1..Len(children) : inodes[children[i]].name # name
               \/ found \in ToSet(children) /\ inodes[found].name = name
<1> DEFINE L == Len(children)
           upto == Spans(inodes, children, name)
           found == Find(inodes, children, name)
<1>1. L \in Nat /\ DOMAIN children = 1..L
  BY LenProperties
<1>2. /\ upto[0] = [lo |-> 1, hi |-> L]
      /\ \A k \in 1..L : upto[k] = Probe(inodes, children, name, upto[k - 1])
      /\ found = LET last == upto[L] IN IF last.lo > last.hi THEN 0 ELSE children[last.lo]
  BY FindSteps
<1> HIDE DEF upto, found
<1> DEFINE Short(n) == upto[n].hi - upto[n].lo < L - n
           Good(n) == /\ SpanIs(upto[n], inodes, children, name)
                      /\ Settled(upto[n], inodes, children, name) \/ Short(n)
           S == {n \in Nat : n <= L => Good(n)}
<1>3. 0 \in S
  <2>1. upto[0].lo = 1 /\ upto[0].hi = L
    BY <1>2
  <2>2. SpanIs(upto[0], inodes, children, name)
    BY <1>1, <1>2, <2>1 DEF SpanIs
  <2>3. Short(0)
    BY <1>1, <2>1
  <2>4. QED
    BY <2>2, <2>3
<1>4. ASSUME NEW n \in Nat, n \in S PROVE n + 1 \in S
  <2>1. SUFFICES ASSUME n + 1 <= L PROVE Good(n + 1)
    OBVIOUS
  <2>2. n + 1 \in 1..L /\ (n + 1) - 1 = n /\ Good(n)
    BY <1>1, <1>4, <2>1
  <2>3. upto[n + 1] = Probe(inodes, children, name, upto[n])
    BY <1>2, <2>2
  <2>4. PICK span : span = upto[n]
    OBVIOUS
  <2>5. PICK next : next = upto[n + 1]
    OBVIOUS
  <2>6. /\ SpanIs(span, inodes, children, name) /\ next = Probe(inodes, children, name, span)
        /\ Settled(span, inodes, children, name) \/ span.hi - span.lo < L - n
    BY <2>2, <2>3, <2>4, <2>5
  <2>7. /\ SpanIs(next, inodes, children, name)
        /\ Settled(span, inodes, children, name) => Settled(next, inodes, children, name)
        /\ Settled(next, inodes, children, name) \/ next.hi - next.lo < span.hi - span.lo
    BY <2>6, ProbeIs
  <2>8. Settled(next, inodes, children, name) \/ next.hi - next.lo < L - (n + 1)
    <3>1. span.lo \in Int /\ span.hi \in Int /\ next.lo \in Int /\ next.hi \in Int
      BY <1>1, <2>6, <2>7 DEF SpanIs
    <3>2. QED
      BY <1>1, <2>6, <2>7, <3>1
  <2>9. QED
    BY <2>5, <2>7, <2>8
<1>5. L \in S
  <2> HIDE DEF S
  <2>1. Nat \subseteq S
    BY <1>3, <1>4, SetInduction
  <2>2. QED
    BY <1>1, <2>1
<1>6. PICK last : last = upto[L]
  OBVIOUS
<1>7. /\ SpanIs(last, inodes, children, name)
      /\ Settled(last, inodes, children, name) \/ last.hi - last.lo < L - L
      /\ found = IF last.lo > last.hi THEN 0 ELSE children[last.lo]
  BY <1>1, <1>2, <1>5, <1>6
<1>8. last.lo \in 1..L + 1 /\ last.hi \in 0..L
  BY <1>7 DEF SpanIs
<1>9. CASE last.lo > last.hi
  <2>1. found = 0
    BY <1>7, <1>9
  <2>2. \A i \in 1..L : inodes[children[i]].name # name
    BY <1>1, <1>7, <1>8, <1>9 DEF SpanIs
  <2>3. QED
    BY <2>1, <2>2 DEF found
<1>10. CASE ~(last.lo > last.hi)
  <2>1. last.lo = last.hi /\ inodes[children[last.lo]].name = name
    BY <1>1, <1>7, <1>8, <1>10 DEF Settled
  <2>2. last.lo \in 1..L /\ found = children[last.lo]
    BY <1>1, <1>7, <1>8, <1>10, <2>1
  <2>3. found \in ToSet(children)
    BY <1>1, <2>2 DEF ToSet
  <2>4. QED
    BY <2>1, <2>2, <2>3 DEF found
<1>11. QED
  BY <1>9, <1>10

\* Nothing is shown below a file.
FilesAreLeaves(shown, placed) == \A p \in shown \ {Root} : Parent(p) \notin FilePaths(placed)

\* What a request is told of a path that is shown.
LEMMA StatusIs ==
    ASSUME NEW inodes, NEW table, NEW shown, NEW placed, TreeIs(inodes, table, shown, placed),
           NEW p \in shown
    PROVE  /\ StatusOf(inodes, table[p]) = "OK" /\ table[p] \in DOMAIN inodes
           /\ p \in FilePaths(placed) => /\ ReadStatus(inodes, table[p]) = "OK"
                                         /\ DirStatus(inodes, table[p]) # "OK"
           /\ p \notin FilePaths(placed) => /\ DirStatus(inodes, table[p]) = "OK"
                                            /\ ReadStatus(inodes, table[p]) # "OK"
<1>1. inodes \in Seq(Node) /\ table[p] \in 1..Len(inodes) /\ Len(inodes) \in Nat
  BY LenProperties DEF TreeIs
<1>2. table[p] \in DOMAIN inodes /\ table[p] # 0
  BY <1>1, LenProperties
<1>3. inodes[table[p]].kind = IF p \in FilePaths(placed) THEN "file" ELSE "dir"
  BY DEF TreeIs, NodeShows
<1>4. StatusOf(inodes, table[p]) = "OK"
  BY <1>2, <1>3 DEF StatusOf, NodeAt
<1>5. QED
  BY <1>2, <1>3, <1>4 DEF DirStatus, ReadStatus

\* LOOKUP of a name in the directory that holds it.
LEMMA LookupIs ==
    ASSUME NEW inodes, NEW table, NEW shown, NEW placed,
           TreeIs(inodes, table, shown, placed), InNameOrder(inodes), IdsOk(table),
           FilesAreLeaves(shown, placed), NEW p \in shown, p # Root
    PROVE  Lookup(inodes, table[Parent(p)], Last(p)).id = table[p]
<1> DEFINE above == table[Parent(p)]
           children == inodes[above].children
           found == Find(inodes, children, Last(p))
<1>1. /\ inodes \in Seq(Node) /\ shown \subseteq AllPaths /\ Len(inodes) \in Nat
      /\ Parent(p) \in shown /\ above \in 1..Len(inodes)
  BY LenProperties DEF TreeIs, IdsOk
<1>2. p \in AllPaths /\ Last(p) \in Nat
  BY <1>1, PathIs
<1>3. DirStatus(inodes, above) = "OK"
  BY <1>1, StatusIs DEF FilesAreLeaves
<1>4. children \in Seq(Nat)
  <2>1. inodes[above] \in Node
    <3> HIDE DEF above
    <3>1. QED
      BY <1>1, ElementOfSeq
  <2>2. QED
    BY <2>1 DEF Node
<1>5. ToSet(children) = {table[q] : q \in {q \in shown \ {Root} : Parent(q) = Parent(p)}}
  BY <1>1 DEF TreeIs, NodeShows
<1>6. Ordered(inodes, children)
  <2>1. NamesDiffer(inodes, ToSet(children))
    BY <1>1, ChildrenDiffer
  <2>2. DOMAIN children = 1..Len(children)
    BY <1>4, LenProperties
  <2>3. \A i \in 1..Len(children) : children[i] \in ToSet(children)
    BY <2>2 DEF ToSet
  <2>4. \A i, j \in 1..Len(children) :
            i < j => inodes[children[i]].name < inodes[children[j]].name
    BY <1>1 DEF InNameOrder
  <2> HIDE DEF children
  <2>5. QED
    BY <2>1, <2>3, <2>4 DEF Ordered, NamesDiffer
<1> HIDE DEF children
<1>7. \/ found = 0 /\ \A i \in 1..Len(children) : inodes[children[i]].name # Last(p)
      \/ found \in ToSet(children) /\ inodes[found].name = Last(p)
  BY <1>2, <1>4, <1>6, FindIs
<1> HIDE DEF found
<1>8. \A q \in shown \ {Root} : inodes[table[q]].name = Last(q) /\ table[q] \in 1..Len(inodes)
  BY DEF TreeIs, NodeShows
<1>9. found # 0
  <2>1. table[p] \in ToSet(children)
    BY <1>5
  <2>2. DOMAIN children = 1..Len(children)
    BY <1>4, LenProperties
  <2>3. PICK i \in 1..Len(children) : children[i] = table[p]
    BY <2>1, <2>2 DEF ToSet
  <2>4. inodes[children[i]].name = Last(p)
    BY <1>8, <2>3
  <2>5. ASSUME found = 0 PROVE FALSE
    <3>1. ~(found \in ToSet(children) /\ inodes[found].name = Last(p))
      <4>1. 0 \notin ToSet(children)
        BY <1>1, <1>5, <1>8
      <4>2. QED
        BY <2>5, <4>1
    <3>2. QED
      BY <1>7, <2>4, <3>1
  <2>6. QED
    BY <2>5
<1>10. found = table[p]
  <2>1. found \in ToSet(children) /\ inodes[found].name = Last(p)
    BY <1>7, <1>9
  <2>2. PICK q \in shown \ {Root} : Parent(q) = Parent(p) /\ found = table[q]
    BY <1>5, <2>1
  <2>3. Last(q) = Last(p) /\ q \in AllPaths
    BY <1>1, <1>8, <2>1, <2>2
  <2>4. q = p
    BY <1>2, <2>2, <2>3, PathIsItsParts
  <2>5. QED
    BY <2>2, <2>4
<1>11. QED
  BY <1>3, <1>9, <1>10 DEF Lookup, found, children

\* With a path, what is above it is shown.
LEMMA PrefixesShown ==
    ASSUME NEW shown, shown \subseteq AllPaths, \A p \in shown \ {Root} : Parent(p) \in shown
    PROVE  \A p \in shown : Prefixes(p) \subseteq shown
<1> DEFINE S == {n \in Nat : \A p \in shown : Len(p) = n => Prefixes(p) \subseteq shown}
<1>1. 0 \in S
  <2>1. ASSUME NEW p \in shown, Len(p) = 0 PROVE Prefixes(p) \subseteq shown
    <3>1. p = Root
      BY <2>1, EmptySeq DEF AllPaths, Root
    <3>2. QED
      BY <3>1, PrefixesOfRoot
  <2>2. QED
    BY <2>1
<1>2. ASSUME NEW n \in Nat, n \in S PROVE n + 1 \in S
  <2>1. ASSUME NEW p \in shown, Len(p) = n + 1 PROVE Prefixes(p) \subseteq shown
    <3>1. p \in AllPaths /\ p # Root
      <4>1. Len(Root) = 0
        BY EmptySeq DEF Root
      <4>2. QED
        BY <2>1, <4>1
    <3>2. Parent(p) \in shown /\ Len(Parent(p)) = n
      BY <2>1, <3>1, PathIs
    <3>3. Prefixes(Parent(p)) \subseteq shown
      BY <1>2, <3>2
    <3>4. Prefixes(p) = Prefixes(Parent(p)) \cup {p}
      BY <3>1, PrefixesAre
    <3>5. QED
      BY <3>3, <3>4
  <2>2. QED
    BY <2>1
<1>3. Nat \subseteq S
  <2> HIDE DEF S
  <2> QED  BY <1>1, <1>2, SetInduction
<1>4. \A p \in shown : Len(p) \in Nat
  BY LenProperties DEF AllPaths
<1>5. QED
  BY <1>3, <1>4

\* A walk takes one name after another.
Reached(path) ==
    LET upto[k \in 0..Len(path)] ==
            IF k = 0 THEN ROOT_ID ELSE Lookup(nodes, upto[k - 1], path[k]).id
    IN  upto

LEMMA WalkSteps ==
    ASSUME NEW path \in AllPaths
    PROVE  LET upto == Reached(path)
           IN  /\ upto[0] = ROOT_ID
               /\ \A k \in 1..Len(path) : upto[k] = Lookup(nodes, upto[k - 1], path[k]).id
               /\ Walk(path) = upto[Len(path)]
<1> DEFINE From(g, n) == g = [k \in 0..n |-> IF k = 0 THEN ROOT_ID
                                             ELSE Lookup(nodes, g[k - 1], path[k]).id]
           S == {n \in Nat : \E g : From(g, n)}
<1>1. 0 \in S
  <2>1. From([k \in 0..0 |-> ROOT_ID], 0)
    OBVIOUS
  <2>2. QED
    BY <2>1
<1>2. ASSUME NEW n \in Nat, n \in S PROVE n + 1 \in S
  <2>1. PICK g : From(g, n)
    BY <1>2
  <2> DEFINE last == Lookup(nodes, g[n], path[(n + 1)]).id
             h == [k \in 0..n + 1 |-> IF k = n + 1 THEN last ELSE g[k]]
  <2>2. /\ h = [k \in 0..n + 1 |-> h[k]] /\ h[n + 1] = last
        /\ \A k \in 0..n : h[k] = g[k]
    <3> HIDE DEF last
    <3> QED  OBVIOUS
  <2>3. \A k \in 0..n : g[k] = IF k = 0 THEN ROOT_ID ELSE Lookup(nodes, g[k - 1], path[k]).id
    BY <2>1
  <2> HIDE DEF h, From
  <2>4. \A k \in 0..n + 1 : h[k] = IF k = 0 THEN ROOT_ID ELSE Lookup(nodes, h[k - 1], path[k]).id
    <3> TAKE k \in 0..n + 1
    <3>1. CASE k = n + 1
      <4>1. h[k] = last /\ k - 1 = n /\ n \in 0..n /\ k # 0
        BY <2>2, <3>1
      <4>2. h[k - 1] = g[n]
        BY <2>2, <4>1
      <4>3. QED
        BY <3>1, <4>1, <4>2 DEF last
    <3>2. CASE k # n + 1
      <4>1. k \in 0..n /\ (k # 0 => k - 1 \in 0..n)
        BY <3>2
      <4>2. h[k] = g[k] /\ (k # 0 => h[k - 1] = g[k - 1])
        BY <2>2, <4>1
      <4>3. QED
        BY <2>3, <4>1, <4>2
    <3>3. QED
      BY <3>1, <3>2
  <2>5. From(h, n + 1)
    BY <2>2, <2>4 DEF From
  <2>6. QED
    BY <2>5
<1>3. Len(path) \in Nat
  BY LenProperties DEF AllPaths
<1>4. Len(path) \in S
  <2> HIDE DEF S
  <2>1. Nat \subseteq S
    BY <1>1, <1>2, SetInduction
  <2>2. QED
    BY <1>3, <2>1
<1> DEFINE upto == Reached(path)
<1>5. upto = CHOOSE g : From(g, Len(path))
  BY DEF Reached
<1>6. From(upto, Len(path))
  BY <1>4, <1>5
<1>7. Walk(path) = upto[Len(path)]
  BY DEF Walk, Reached
<1> HIDE DEF upto
<1>8. upto[0] = ROOT_ID
  BY <1>3, <1>6
<1>9. \A k \in 1..Len(path) : upto[k] = Lookup(nodes, upto[k - 1], path[k]).id
  <2>1. \A k \in 1..Len(path) : k \in 0..Len(path) /\ k # 0
    BY <1>3
  <2>2. QED
    BY <1>6, <2>1
<1>10. QED
  BY <1>7, <1>8, <1>9 DEF upto

\* A walk by name ends at the path's own fileid.
LEMMA WalkIs ==
    ASSUME NEW shown, NEW placed, TreeIs(nodes, ids, shown, placed), InNameOrder(nodes),
           IdsOk(ids), FilesAreLeaves(shown, placed), NEW p \in shown
    PROVE  Walk(p) = ids[p]
<1>0. \A q \in shown : q # Root => Lookup(nodes, ids[Parent(q)], Last(q)).id = ids[q]
  BY LookupIs
<1> DEFINE N == Len(p)
           at(n) == SubSeq(p, 1, n)
           upto == Reached(p)
<1>1. p \in AllPaths /\ shown \subseteq AllPaths
  BY DEF TreeIs, IdsOk
<1>2. N \in Nat /\ SubSeq(p, 1, N) = p
  BY <1>1, LenProperties, SubSeqFull DEF AllPaths
<1>3. /\ upto[0] = ROOT_ID /\ Walk(p) = upto[N]
      /\ \A k \in 1..N : upto[k] = Lookup(nodes, upto[k - 1], p[k]).id
  BY <1>1, WalkSteps
<1> HIDE DEF upto
<1>4. \A n \in 0..N : at(n) \in shown
  <2>1. Prefixes(p) \subseteq shown
    <3>1. \A q \in shown \ {Root} : Parent(q) \in shown
      BY DEF TreeIs
    <3>2. QED
      BY <1>1, <3>1, PrefixesShown
  <2>2. \A n \in 0..Len(p) : SubSeq(p, 1, n) \in Prefixes(p)
    <3>1. Prefixes(p) = {SubSeq(p, 1, n) : n \in 0..Len(p)}
      BY <1>1, PrefixesAre
    <3>2. QED
      BY ONLY <3>1
  <2>3. QED
    BY <2>1, <2>2
<1> DEFINE S == {n \in Nat : n <= N => upto[n] = ids[at(n)]}
<1>5. 0 \in S
  <2>1. at(0) = Root
    BY <1>1, <1>2, PrefixIs
  <2>2. ids[Root] = ROOT_ID
    BY DEF IdsOk
  <2> HIDE DEF at
  <2>3. upto[0] = ids[at(0)]
    BY <1>3, <2>1, <2>2
  <2>4. QED
    BY <2>3
<1>6. ASSUME NEW n \in Nat, n \in S PROVE n + 1 \in S
  <2>1. SUFFICES ASSUME n + 1 <= N PROVE upto[n + 1] = ids[at(n + 1)]
    OBVIOUS
  <2>2. /\ n \in 0..N /\ n + 1 \in 0..N /\ n + 1 \in 1..N /\ n <= N /\ n + 1 # 0 /\ (n + 1) - 1 = n
    BY <1>2, <2>1
  <2>3. PICK q : q = SubSeq(p, 1, n + 1)
    OBVIOUS
  <2>4. q # Root /\ Last(q) = p[n + 1] /\ Parent(q) = SubSeq(p, 1, (n + 1) - 1) /\ q \in shown
    BY <1>1, <1>4, <2>2, <2>3, PrefixIs
  <2>5. upto[n] = ids[Parent(q)]
    BY <1>6, <2>2, <2>4
  <2>6. upto[n + 1] = Lookup(nodes, ids[Parent(q)], Last(q)).id
    BY <1>3, <2>2, <2>4, <2>5
  <2>7. Lookup(nodes, ids[Parent(q)], Last(q)).id = ids[q]
    BY <1>0, <2>4
  <2>8. QED
    BY <2>3, <2>6, <2>7
<1>7. N \in S
  <2> HIDE DEF S
  <2>1. Nat \subseteq S
    BY <1>5, <1>6, SetInduction
  <2>2. QED
    BY <1>2, <2>1
<1>8. upto[N] = ids[at(N)]
  BY <1>2, <1>7
<1>9. QED
  BY <1>2, <1>3, <1>8

-----------------------------------------------------------------------------
(* The mounted share.                                                        *)

Entries(m) == LiveFiles(m) \cup ToSet(m.dirs)

\* A manifest of the producer's: every slot has its own path or is retired, and
\* a file is neither a directory nor above another entry.
Whole(m) ==
    /\ m \in PathLists /\ Len(m.index_of) = Len(m.files)
    /\ \A i, j \in 1..Len(m.files) : m.index_of[i] = m.index_of[j] => i = j
    /\ \A i \in 1..Len(m.files) : m.files[i] \in {m.index_of[i], Root} /\ Safe(m.index_of[i])
    /\ \A k \in 1..Len(m.dirs) : Safe(m.dirs[k])
    /\ \A f \in LiveFiles(m) : f \notin ToSet(m.dirs)
    /\ \A f \in LiveFiles(m), e \in Entries(m) : f \in Prefixes(e) => e = f

Placed(m) == FiledTo(m, Len(m.files))

\* The table shows the manifest held, and the allocator knows every path.
TreeInv ==
    /\ Whole(held) /\ IdsOk(ids)
    /\ TreeIs(nodes, ids, Shown(held), Placed(held)) /\ InNameOrder(nodes)

\* A fileid handed out is its path's, and in the table.
HandlesInv ==
    \A h \in handles :
        h.path \in DOMAIN ids /\ h.id = ids[h.path] /\ h.id \in 1..Len(nodes)

\* The slot being read has been its path's since the path was first seen.
ReadingInv ==
    reading.phase = "reading" =>
        /\ reading.path \in DOMAIN ids
        /\ reading.index \in 1..Len(held.files) /\ held.index_of[reading.index] = reading.path

\* One fileid is of a path whose name sorts before another one's.
Before(table, x, y) ==
    \E p, q \in DOMAIN table \ {Root} : table[p] = x /\ table[q] = y /\ Last(p) < Last(q)

\* What was listed so far is in the order of the names, the cookie is the last
\* of it, and whatever was there throughout is listed or sorts after it.
ListedSoFar(list, table) ==
    /\ list.got \in Seq(Nat \ {0})
    /\ list.after = IF list.got = << >> THEN 0 ELSE list.got[Len(list.got)]
    /\ \A i, j \in 1..Len(list.got) : i < j => Before(table, list.got[i], list.got[j])
    /\ list.got # << >> =>
          \A s \in list.steady : s \in ToSet(list.got) \/ Before(table, list.after, s)
    /\ list.phase = "listed" => list.steady \subseteq ToSet(list.got)
ListingInv ==
    /\ listing = [phase |-> listing.phase, dir |-> listing.dir, after |-> listing.after,
                  got |-> listing.got, steady |-> listing.steady]
    /\ listing.phase \in {"idle", "paging", "listed", "refused"}
    /\ listing.phase \in {"paging", "listed"} => ListedSoFar(listing, ids)
    /\ \/ listing.steady = {}
       \/ /\ DirStatus(nodes, listing.dir) = "OK"
          /\ listing.steady \subseteq ToSet(nodes[listing.dir].children)

ViewInv == TreeInv /\ HandlesInv /\ ReadingInv /\ ListingInv

LEMMA ToSetIs ==
    ASSUME NEW S, NEW seq \in Seq(S)
    PROVE  ToSet(seq) = {seq[i] : i \in 1..Len(seq)} /\ Len(seq) \in Nat /\ ToSet(seq) \subseteq S
<1>1. DOMAIN seq = 1..Len(seq) /\ Len(seq) \in Nat /\ \A i \in 1..Len(seq) : seq[i] \in S
  BY LenProperties, ElementOfSeq
<1>2. QED
  BY <1>1 DEF ToSet

\* What a manifest shows is its entries and what is above them.
LEMMA ShownIs ==
    ASSUME NEW m \in PathLists
    PROVE  /\ Shown(m) = Seen(m, Len(m.dirs), Len(m.files))
           /\ FilePaths(Placed(m)) = LiveFiles(m)
           /\ Entries(m) \subseteq AllPaths /\ Shown(m) \subseteq AllPaths
           /\ \A p \in Shown(m) : p = Root \/ \E e \in Entries(m) : p \in Prefixes(e)
           /\ \A e \in Entries(m) : Prefixes(e) \subseteq Shown(m)
<1> DEFINE D == 1..Len(m.dirs)
           F == 1..Len(m.files)
<1>1. /\ m.dirs \in Seq(AllPaths) /\ m.files \in Seq(AllPaths)
  BY DEF PathLists
<1>2. /\ ToSet(m.dirs) = {m.dirs[k] : k \in D} /\ ToSet(m.dirs) \subseteq AllPaths
      /\ ToSet(m.files) = {m.files[k] : k \in F} /\ ToSet(m.files) \subseteq AllPaths
  BY <1>1, ToSetIs
<1>3. Entries(m) = LiveFiles(m) \cup ToSet(m.dirs) /\ LiveFiles(m) = ToSet(m.files) \ {Root}
  BY DEF Entries, LiveFiles
<1>4. Shown(m) = {Root} \cup UNION {Prefixes(p) : p \in Entries(m)}
  BY DEF Shown, Entries
<1>5. Seen(m, Len(m.dirs), Len(m.files))
          = {Root} \cup (UNION {Prefixes(m.dirs[k]) : k \in D})
                   \cup (UNION {Prefixes(m.files[k]) : k \in F})
  BY DEF Seen
<1>6. Shown(m) \subseteq Seen(m, Len(m.dirs), Len(m.files))
  <2> SUFFICES ASSUME NEW p \in Shown(m), p # Root
               PROVE  p \in Seen(m, Len(m.dirs), Len(m.files))
    BY <1>5
  <2>1. PICK e \in Entries(m) : p \in Prefixes(e)
    BY <1>4
  <2>2. (\E k \in D : e = m.dirs[k]) \/ (\E k \in F : e = m.files[k])
    BY <1>2, <1>3
  <2>3. QED
    BY <1>5, <2>1, <2>2
<1>7. Seen(m, Len(m.dirs), Len(m.files)) \subseteq Shown(m)
  <2> SUFFICES ASSUME NEW p \in Seen(m, Len(m.dirs), Len(m.files)), p # Root
               PROVE  p \in Shown(m)
    BY <1>4
  <2>1. PICK e \in ToSet(m.dirs) \cup ToSet(m.files) : p \in Prefixes(e)
    BY <1>2, <1>5
  <2>2. e # Root
    BY <2>1, PrefixesOfRoot
  <2>3. e \in Entries(m)
    BY <1>3, <2>2
  <2>4. QED
    BY <1>4, <2>1, <2>3
<1>8. FilePaths(Placed(m)) = LiveFiles(m)
  <2>1. Placed(m) = {<<m.files[k], k>> : k \in {k \in F : m.files[k] # Root}}
    BY DEF Placed, FiledTo
  <2>2. FilePaths(Placed(m)) = {m.files[k] : k \in {k \in F : m.files[k] # Root}}
    <3>1. \A x \in Placed(m) : \E k \in F : m.files[k] # Root /\ x[1] = m.files[k]
      BY <2>1
    <3>2. \A k \in F : m.files[k] # Root => <<m.files[k], k>> \in Placed(m)
      BY <2>1
    <3>3. \A k \in F : m.files[k] # Root => \E x \in Placed(m) : x[1] = m.files[k]
      BY <3>2
    <3>4. QED
      BY <3>1, <3>3 DEF FilePaths
  <2>3. QED
    BY <1>2, <1>3, <2>2
<1>9. Entries(m) \subseteq AllPaths
  BY <1>2, <1>3
<1>10. Shown(m) \subseteq AllPaths
  <2>1. Root \in AllPaths
    BY EmptySeq DEF Root, AllPaths
  <2>2. \A e \in Entries(m) : Prefixes(e) \subseteq AllPaths
    BY <1>9, PrefixesAre
  <2>3. QED
    BY <1>4, <2>1, <2>2
<1>11. QED
  BY <1>4, <1>6, <1>7, <1>8, <1>9, <1>10

\* A whole manifest builds, and nothing it shows is below a file of it.
LEMMA WholeBuilds ==
    ASSUME NEW m, Whole(m)
    PROVE  Buildable(m) /\ FilesAreLeaves(Shown(m), Placed(m))
<1>1. m \in PathLists
  BY DEF Whole
<1>2. /\ m.dirs \in Seq(AllPaths) /\ m.files \in Seq(AllPaths)
  BY <1>1 DEF PathLists
<1>3. /\ ToSet(m.dirs) = {m.dirs[k] : k \in 1..Len(m.dirs)}
      /\ ToSet(m.files) = {m.files[k] : k \in 1..Len(m.files)} /\ Len(m.files) \in Nat
  BY <1>2, ToSetIs
<1>4. Entries(m) = LiveFiles(m) \cup ToSet(m.dirs) /\ LiveFiles(m) = ToSet(m.files) \ {Root}
  BY DEF Entries, LiveFiles
<1>5. ASSUME NEW k \in 1..Len(m.files) PROVE FileFits(m, k)
  <2>1. SUFFICES ASSUME m.files[k] # Root
                 PROVE  /\ Safe(m.files[k])
                        /\ m.files[k] \notin Seen(m, Len(m.dirs), k - 1)
                        /\ Prefixes(Parent(m.files[k])) \cap FilePaths(FiledTo(m, k - 1)) = {}
    BY DEF FileFits, Fits
  <2>2. PICK f : f = m.files[k]
    OBVIOUS
  <2>3. f \in LiveFiles(m) /\ f # Root /\ f \in AllPaths
    BY <1>1, <1>3, <1>4, <2>1, <2>2, ShownIs
  <2>4. f = m.index_of[k] /\ Safe(f)
    BY <2>1, <2>2 DEF Whole
  <2>5. \A e \in Entries(m) : f \in Prefixes(e) => e = f
    BY <2>3 DEF Whole
  <2>6. \A j \in 1..k - 1 : j \in 1..Len(m.files) /\ j # k
    BY <1>3
  <2>7. \A j \in 1..k - 1 : m.files[j] # f
    BY <2>3, <2>4, <2>6 DEF Whole
  <2>8. f \notin Seen(m, Len(m.dirs), k - 1)
    <3>1. ASSUME NEW j \in 1..Len(m.dirs) PROVE f \notin Prefixes(m.dirs[j])
      <4>1. m.dirs[j] \in ToSet(m.dirs) /\ m.dirs[j] \in Entries(m)
        BY <1>3, <1>4
      <4>2. f \notin ToSet(m.dirs)
        BY <2>3 DEF Whole
      <4>3. QED
        BY <2>5, <4>1, <4>2
    <3>2. ASSUME NEW j \in 1..k - 1 PROVE f \notin Prefixes(m.files[j])
      <4>1. ASSUME f \in Prefixes(m.files[j]) PROVE FALSE
        <5>1. m.files[j] # Root
          BY <2>3, <4>1, PrefixesOfRoot
        <5>2. m.files[j] \in Entries(m)
          BY <1>3, <1>4, <2>6, <5>1
        <5>3. QED
          BY <2>5, <2>7, <4>1, <5>2
      <4>2. QED
        BY <4>1
    <3>3. QED
      BY <2>3, <3>1, <3>2 DEF Seen
  <2>9. Prefixes(Parent(f)) \cap FilePaths(FiledTo(m, k - 1)) = {}
    <3>1. FilePaths(FiledTo(m, k - 1)) \subseteq {m.files[j] : j \in 1..k - 1} \ {Root}
      BY DEF FilePaths, FiledTo
    <3>2. FilePaths(FiledTo(m, k - 1)) \subseteq LiveFiles(m)
      BY <1>3, <1>4, <2>6, <3>1
    <3>3. /\ Prefixes(f) = Prefixes(Parent(f)) \cup {f}
          /\ f \notin Prefixes(Parent(f))
      BY <2>3, PrefixesAre
    <3>4. \A g \in LiveFiles(m) : g \in Prefixes(f) => f = g
      BY <1>4, <2>3 DEF Whole
    <3>5. QED
      BY <3>2, <3>3, <3>4
  <2>10. QED
    BY <2>2, <2>4, <2>8, <2>9
<1>6. Buildable(m)
  BY <1>5 DEF Buildable, Whole
<1>7. FilesAreLeaves(Shown(m), Placed(m))
  <2> SUFFICES ASSUME NEW p \in Shown(m) \ {Root}, Parent(p) \in LiveFiles(m) PROVE FALSE
    BY <1>1, ShownIs DEF FilesAreLeaves
  <2>1. PICK e \in Entries(m) : p \in Prefixes(e)
    BY <1>1, ShownIs
  <2>2. e \in AllPaths /\ p \in AllPaths /\ p # Root
    BY <1>1, ShownIs
  <2>3. Parent(p) \in Prefixes(e)
    BY <2>1, <2>2, PrefixesAre
  <2>4. e = Parent(p)
    BY <2>3 DEF Whole
  <2>5. p \notin Prefixes(Parent(p))
    BY <2>2, PrefixesAre
  <2>6. QED
    BY <2>1, <2>4, <2>5
<1>8. QED
  BY <1>6, <1>7

\* A file put first, under the path of another entry, leaves nothing to build.
LEMMA FileFirstFails ==
    ASSUME NEW m, Whole(m), NEW path \in AllPaths, path # Root,
           ~Safe(path) \/ \E f \in LiveFiles(m) : f \in Prefixes(path)
    PROVE  FileFirst(m, path) \in PathLists /\ ~Buildable(FileFirst(m, path))
<1> DEFINE n == FileFirst(m, path)
<1>1. m \in PathLists /\ m.files \in Seq(AllPaths) /\ Len(m.files) \in Nat
  BY LenProperties DEF Whole, PathLists
<1>2. n.files = <<path>> \o m.files /\ n.dirs = m.dirs /\ n \in PathLists
  <2>1. <<path>> \in Seq(AllPaths)
    OBVIOUS
  <2>2. <<path>> \o m.files \in Seq(AllPaths)
    BY <1>1, <2>1, ConcatProperties
  <2>3. QED
    BY <1>1, <2>2 DEF FileFirst, PathLists
<1>3. /\ Len(n.files) = 1 + Len(m.files) /\ n.files[1] = path
      /\ \A i \in 1..Len(m.files) : n.files[i + 1] = m.files[i]
  <2>1. <<path>> \in Seq(AllPaths) /\ Len(<<path>>) = 1 /\ <<path>>[1] = path
    OBVIOUS
  <2>2. Len(<<path>> \o m.files) = 1 + Len(m.files)
    BY <1>1, <2>1, ConcatProperties
  <2>3. \A i \in 1..1 + Len(m.files) :
            (<<path>> \o m.files)[i] = IF i <= 1 THEN <<path>>[i] ELSE m.files[i - 1]
    BY <1>1, <2>1, ConcatProperties
  <2>4. \A i \in 1..Len(m.files) :
            i + 1 \in 1..1 + Len(m.files) /\ ~(i + 1 <= 1) /\ (i + 1) - 1 = i
    BY <1>1
  <2>5. 1 \in 1..1 + Len(m.files)
    BY <1>1
  <2>6. QED
    BY <1>2, <2>1, <2>2, <2>3, <2>4, <2>5
<1> HIDE DEF n
<1>4. CASE ~Safe(path)
  <2>1. 1 \in 1..Len(n.files)
    BY <1>1, <1>3
  <2>2. ~FileFits(n, 1)
    BY <1>3, <1>4 DEF FileFits, Fits
  <2>3. ~Buildable(n)
    BY <2>1, <2>2 DEF Buildable
  <2>4. QED
    BY <1>2, <2>3 DEF n
<1>5. CASE \E f \in LiveFiles(m) : f \in Prefixes(path)
  <2>1. PICK f \in LiveFiles(m) : f \in Prefixes(path)
    BY <1>5
  <2>2. PICK i \in 1..Len(m.files) : f = m.files[i] /\ f # Root
    BY <1>1, ToSetIs DEF LiveFiles
  <2>3. i + 1 \in 1..Len(n.files) /\ (i + 1) - 1 = i /\ n.files[i + 1] = f /\ 1 \in 1..i
    BY <1>1, <1>3, <2>2
  <2>4. f \in Seen(n, Len(n.dirs), i)
    BY <1>3, <2>1, <2>3 DEF Seen
  <2>5. ~FileFits(n, i + 1)
    BY <2>2, <2>3, <2>4 DEF FileFits, Fits
  <2>6. ~Buildable(n)
    BY <2>3, <2>5 DEF Buildable
  <2>7. QED
    BY <1>2, <2>6 DEF n
<1>6. QED
  BY <1>4, <1>5

LEMMA PathExtended ==
    ASSUME NEW p \in AllPaths, NEW name \in Nat
    PROVE  /\ p \o <<name>> \in AllPaths /\ p \o <<name>> # Root /\ p \in Prefixes(p \o <<name>>)
           /\ name = 0 => ~Safe(p \o <<name>>)
<1> DEFINE q == p \o <<name>>
<1>1. p \in Seq(Nat) /\ Len(p) \in Nat /\ <<name>> \in Seq(Nat) /\ Len(<<name>>) = 1
      /\ <<name>>[1] = name
  BY LenProperties DEF AllPaths
<1>2. q \in Seq(Nat) /\ Len(q) = Len(p) + 1
  BY <1>1, ConcatProperties
<1>3. \A i \in 1..Len(p) + 1 : q[i] = IF i <= Len(p) THEN p[i] ELSE <<name>>[i - Len(p)]
  BY <1>1, ConcatProperties
<1>4. q[Len(p) + 1] = name
  <2>1. Len(p) + 1 \in 1..Len(p) + 1 /\ ~(Len(p) + 1 <= Len(p)) /\ (Len(p) + 1) - Len(p) = 1
    BY <1>1
  <2>2. QED
    BY <1>1, <1>3, <2>1
<1>5. q # Root
  <2>1. Len(Root) = 0
    BY EmptySeq DEF Root
  <2>2. QED
    BY <1>1, <1>2, <2>1
<1> HIDE DEF q
<1>6. p \in Prefixes(q)
  <2>1. Len(p) \in 0..Len(q) /\ q \in AllPaths
    BY <1>1, <1>2 DEF AllPaths
  <2>2. PICK r : r = SubSeq(q, 1, Len(p))
    OBVIOUS
  <2>3. r \in AllPaths /\ Len(r) = Len(p) /\ \A i \in 1..Len(p) : r[i] = q[i]
    BY <2>1, <2>2, PrefixIs
  <2>4. \A i \in 1..Len(p) : r[i] = p[i]
    BY <1>1, <1>3, <2>3
  <2>5. r = p
    BY <1>1, <2>3, <2>4, SeqEqual DEF AllPaths
  <2>6. Prefixes(q) = {SubSeq(q, 1, n) : n \in 0..Len(q)}
    BY <2>1, PrefixesAre
  <2>7. QED
    BY <2>1, <2>2, <2>5, <2>6
<1>7. name = 0 => ~Safe(q)
  <2>1. Len(p) + 1 \in DOMAIN q
    BY <1>1, <1>2, LenProperties
  <2>2. QED
    BY <1>4, <2>1 DEF Safe
<1>8. QED
  BY <1>2, <1>5, <1>6, <1>7 DEF q, AllPaths

\* A frame whose tree cannot be built is not built.
LEMMA UnbuildableIs ==
    ASSUME NEW m, Whole(m), NEW n \in Unbuildable(m)
    PROVE  n \in PathLists /\ ~Buildable(n)
<1>1. Paths \subseteq AllPaths
  BY MountedAssumption DEF AllPaths
<1>2. LiveFiles(m) \subseteq AllPaths /\ Root \notin LiveFiles(m)
  BY ShownIs DEF Whole, Entries, LiveFiles
<1>3. CASE \E p \in Paths : n = FileFirst(m, p \o <<0>>)
  <2>1. PICK p \in Paths : n = FileFirst(m, p \o <<0>>)
    BY <1>3
  <2>2. PICK path : path = p \o <<0>>
    OBVIOUS
  <2>3. path \in AllPaths /\ path # Root /\ ~Safe(path)
    BY <1>1, <2>2, PathExtended
  <2>4. QED
    BY <2>1, <2>2, <2>3, FileFirstFails
<1>4. CASE \E p \in LiveFiles(m) : n = FileFirst(m, p)
  <2>1. PICK p \in LiveFiles(m) : n = FileFirst(m, p)
    BY <1>4
  <2>2. p \in AllPaths /\ p # Root /\ p \in Prefixes(p)
    BY <1>2, PrefixesAre
  <2>3. QED
    BY <2>1, <2>2, FileFirstFails
<1>5. CASE \E p \in LiveFiles(m) : n = FileFirst(m, p \o <<1>>)
  <2>1. PICK p \in LiveFiles(m) : n = FileFirst(m, p \o <<1>>)
    BY <1>5
  <2>2. PICK path : path = p \o <<1>>
    OBVIOUS
  <2>3. path \in AllPaths /\ path # Root /\ p \in Prefixes(path)
    BY <1>2, <2>2, PathExtended
  <2>4. QED
    BY <2>1, <2>2, <2>3, FileFirstFails
<1>6. QED
  BY <1>3, <1>4, <1>5 DEF Unbuildable

\* A slot stays its path's: the paths the producer numbered are numbered for good.
SlotsKept(m, n) ==
    /\ Len(m.files) \in Nat /\ Len(n.files) \in Nat /\ Len(m.files) <= Len(n.files)
    /\ \A i \in 1..Len(m.files) : n.index_of[i] = m.index_of[i]

LEMMA SlotBySlot ==
    ASSUME NEW S, NEW s \in Seq(S), NEW t, t = [i \in DOMAIN s |-> t[i]],
           \A i \in 1..Len(s) : t[i] \in S
    PROVE  t \in Seq(S) /\ Len(t) = Len(s) /\ DOMAIN t = DOMAIN s
<1>1. DOMAIN s = 1..Len(s) /\ Len(s) \in Nat
  BY LenProperties
<1>2. t \in [1..Len(s) -> S]
  BY <1>1
<1>3. QED
  BY <1>1, <1>2, LenProperties, SeqDef

\* What a whole manifest is made of.
LEMMA WholeParts ==
    ASSUME NEW m, Whole(m)
    PROVE  /\ m = [dirs |-> m.dirs, files |-> m.files, index_of |-> m.index_of]
           /\ m.dirs \in Seq(AllPaths) /\ m.files \in Seq(AllPaths) /\ m.index_of \in Seq(AllPaths)
           /\ Len(m.files) \in Nat /\ Len(m.index_of) = Len(m.files)
           /\ DOMAIN m.files = 1..Len(m.files)
           /\ ToSet(m.files) = {m.files[i] : i \in 1..Len(m.files)}
           /\ ToSet(m.index_of) = {m.index_of[i] : i \in 1..Len(m.files)}
           /\ ToSet(m.dirs) \subseteq AllPaths
           /\ LiveFiles(m) = ToSet(m.files) \ {Root} /\ LiveFiles(m) \subseteq AllPaths
           /\ \A f \in LiveFiles(m) : Safe(f)
           /\ \A d \in ToSet(m.dirs) : Safe(d)
<1>1. m \in PathLists
  BY DEF Whole
<1>2. /\ m = [dirs |-> m.dirs, files |-> m.files, index_of |-> m.index_of]
      /\ m.dirs \in Seq(AllPaths) /\ m.files \in Seq(AllPaths) /\ m.index_of \in Seq(AllPaths)
  BY <1>1 DEF PathLists
<1>3. Len(m.files) \in Nat /\ DOMAIN m.files = 1..Len(m.files) /\ Len(m.index_of) = Len(m.files)
  BY <1>2, LenProperties DEF Whole
<1>4. /\ ToSet(m.files) = {m.files[i] : i \in 1..Len(m.files)} /\ ToSet(m.files) \subseteq AllPaths
      /\ ToSet(m.dirs) = {m.dirs[i] : i \in 1..Len(m.dirs)} /\ ToSet(m.dirs) \subseteq AllPaths
      /\ ToSet(m.index_of) = {m.index_of[i] : i \in 1..Len(m.files)}
  <2>1. ToSet(m.index_of) = {m.index_of[i] : i \in 1..Len(m.index_of)}
    BY <1>2, ToSetIs
  <2>2. QED
    BY <1>2, <1>3, <2>1, ToSetIs
<1>5. LiveFiles(m) = ToSet(m.files) \ {Root}
  BY DEF LiveFiles
<1>6. \A f \in LiveFiles(m) : Safe(f)
  <2> SUFFICES ASSUME NEW f \in LiveFiles(m) PROVE Safe(f)
    OBVIOUS
  <2>1. PICK i \in 1..Len(m.files) : f = m.files[i] /\ f # Root
    BY <1>4, <1>5
  <2>2. f = m.index_of[i]
    BY <2>1 DEF Whole
  <2>3. QED
    BY <2>2 DEF Whole
<1>7. \A d \in ToSet(m.dirs) : Safe(d)
  BY <1>4 DEF Whole
<1>8. QED
  BY <1>2, <1>3, <1>4, <1>5, <1>6, <1>7

\* A file that goes leaves a tombstone.
LEMMA FileRemovedIs ==
    ASSUME NEW m, Whole(m), NEW p \in LiveFiles(m)
    PROVE  LET n == FileRemoved(m, p)
           IN  /\ Whole(n) /\ SlotsKept(m, n) /\ LiveFiles(n) = LiveFiles(m) \ {p}
               /\ n.dirs = m.dirs /\ n.index_of = m.index_of /\ Len(n.files) = Len(m.files)
<1> DEFINE n == FileRemoved(m, p)
           N == Len(m.files)
<1>1. /\ m = [dirs |-> m.dirs, files |-> m.files, index_of |-> m.index_of]
      /\ m.dirs \in Seq(AllPaths) /\ m.files \in Seq(AllPaths) /\ m.index_of \in Seq(AllPaths)
      /\ N \in Nat /\ DOMAIN m.files = 1..N /\ Len(m.index_of) = N
      /\ LiveFiles(m) = {m.files[i] : i \in 1..N} \ {Root}
  BY WholeParts
<1>2. /\ n = [dirs |-> m.dirs, files |-> n.files, index_of |-> m.index_of]
      /\ n.files = [i \in DOMAIN m.files |-> IF m.files[i] = p THEN Root ELSE m.files[i]]
  <2>1. PICK fewer : fewer = [i \in DOMAIN m.files |-> IF m.files[i] = p THEN Root ELSE m.files[i]]
    OBVIOUS
  <2>2. n = [m EXCEPT !.files = fewer]
    BY <2>1 DEF FileRemoved
  <2> HIDE DEF n
  <2>3. n = [dirs |-> m.dirs, files |-> fewer, index_of |-> m.index_of]
    BY <1>1, <2>2
  <2>4. n.files = fewer
    BY <2>3
  <2>5. QED
    BY <2>1, <2>3, <2>4
<1>3. \A i \in 1..N : n.files[i] = IF m.files[i] = p THEN Root ELSE m.files[i]
  BY <1>1, <1>2
<1>4. Root \in AllPaths
  BY EmptySeq DEF Root, AllPaths
<1>5. n.files \in Seq(AllPaths) /\ Len(n.files) = N
  <2>1. \A i \in 1..N : n.files[i] \in AllPaths
    BY <1>1, <1>3, <1>4, ElementOfSeq
  <2>2. PICK t : t = n.files
    OBVIOUS
  <2>3. t = [i \in DOMAIN m.files |-> t[i]]
    BY <1>2, <2>2
  <2>4. QED
    BY <1>1, <2>1, <2>2, <2>3, SlotBySlot
<1>6. n.dirs = m.dirs /\ n.index_of = m.index_of
  BY <1>2
<1> HIDE DEF n
<1>7. n \in PathLists
  <2>1. PICK fewer : fewer = n.files
    OBVIOUS
  <2>2. n = [dirs |-> m.dirs, files |-> fewer, index_of |-> m.index_of]
    BY <1>2, <2>1
  <2>3. fewer \in Seq(AllPaths)
    BY <1>5, <2>1
  <2>4. QED
    BY <1>1, <2>2, <2>3 DEF PathLists
<1>8. LiveFiles(n) = LiveFiles(m) \ {p}
  <2>1. LiveFiles(n) = {n.files[i] : i \in 1..N} \ {Root}
    BY <1>5, ToSetIs DEF LiveFiles
  <2>2. QED
    BY <1>1, <1>3, <2>1
<1>9. Entries(n) \subseteq Entries(m)
  BY <1>6, <1>8 DEF Entries
<1>10. Whole(n)
  <2>1. /\ \A i, j \in 1..Len(n.files) : n.index_of[i] = n.index_of[j] => i = j
        /\ \A i \in 1..Len(n.files) :
              n.files[i] \in {n.index_of[i], Root} /\ Safe(n.index_of[i])
    BY <1>3, <1>5, <1>6 DEF Whole
  <2>2. /\ \A f \in LiveFiles(n) : f \notin ToSet(n.dirs)
        /\ \A f \in LiveFiles(n), e \in Entries(n) : f \in Prefixes(e) => e = f
    BY <1>6, <1>8, <1>9 DEF Whole
  <2>3. (\A k \in 1..Len(n.dirs) : Safe(n.dirs[k])) /\ Len(n.index_of) = Len(n.files)
    BY <1>1, <1>5, <1>6 DEF Whole
  <2>4. QED
    BY <1>7, <2>1, <2>2, <2>3 DEF Whole
<1>11. SlotsKept(m, n)
  BY <1>1, <1>5, <1>6 DEF SlotsKept
<1>12. QED
  BY <1>5, <1>6, <1>8, <1>10, <1>11 DEF n

\* A directory that is not below a file.
LEMMA DirAddedIs ==
    ASSUME NEW m, Whole(m), NEW p \in AllPaths, Safe(p),
           \A f \in LiveFiles(m) : f \notin Prefixes(p)
    PROVE  LET n == DirAdded(m, p)
           IN  /\ Whole(n)
               /\ n.files = m.files /\ n.index_of = m.index_of
<1> DEFINE n == DirAdded(m, p)
<1>1. /\ m = [dirs |-> m.dirs, files |-> m.files, index_of |-> m.index_of]
      /\ m.dirs \in Seq(AllPaths) /\ m.files \in Seq(AllPaths) /\ m.index_of \in Seq(AllPaths)
  BY WholeParts
<1>2. n = [dirs |-> Append(m.dirs, p), files |-> m.files, index_of |-> m.index_of]
  <2>1. PICK more : more = Append(m.dirs, p)
    OBVIOUS
  <2>2. n = [m EXCEPT !.dirs = more]
    BY <2>1 DEF DirAdded
  <2>3. n = [dirs |-> more, files |-> m.files, index_of |-> m.index_of]
    BY <1>1, <2>2
  <2>4. QED
    BY <2>1, <2>3
<1>3. /\ n.dirs = Append(m.dirs, p) /\ n.dirs \in Seq(AllPaths)
      /\ n.files = m.files /\ n.index_of = m.index_of
  BY <1>1, <1>2, AppendProperties
<1>4. n \in PathLists
  BY <1>1, <1>2, <1>3 DEF PathLists
<1> HIDE DEF n
<1>5. ToSet(n.dirs) = ToSet(m.dirs) \cup {p}
  BY <1>1, <1>3, ToSetAppend
<1>6. LiveFiles(n) = LiveFiles(m) /\ Entries(n) = Entries(m) \cup {p}
  BY <1>3, <1>5 DEF LiveFiles, Entries
<1>7. p \in Prefixes(p)
  BY PrefixesAre
<1>8. \A k \in 1..Len(n.dirs) : Safe(n.dirs[k])
  <2>1. \A d \in ToSet(n.dirs) : Safe(d)
    BY <1>5, WholeParts
  <2>2. \A k \in 1..Len(n.dirs) : n.dirs[k] \in ToSet(n.dirs)
    <3>1. n.dirs \in Seq(AllPaths)
      BY <1>3
    <3>2. QED
      BY ONLY <3>1, ToSetIs
  <2>3. QED
    BY <2>1, <2>2
<1>9. Whole(n)
  <2>1. /\ \A f \in LiveFiles(n) : f \notin ToSet(n.dirs)
        /\ \A f \in LiveFiles(n), e \in Entries(n) : f \in Prefixes(e) => e = f
    BY <1>5, <1>6, <1>7 DEF Whole
  <2>2. QED
    BY <1>3, <1>4, <1>8, <2>1 DEF Whole
<1>10. QED
  BY <1>3, <1>9 DEF n

LEMMA RemoveAtIs ==
    ASSUME NEW S, NEW seq \in Seq(S), NEW i \in 1..Len(seq)
    PROVE  RemoveAt(seq, i) \in Seq(S) /\ ToSet(RemoveAt(seq, i)) \subseteq ToSet(seq)
<1>1. Len(seq) \in Nat /\ i \in Nat /\ 1 <= i /\ i <= Len(seq)
  BY LenProperties
<1>2. \A j \in 1..Len(seq) : seq[j] \in ToSet(seq)
  BY ToSetIs
<1>3. SubSeq(seq, 1, i - 1) \in Seq(ToSet(seq))
  <2>1. \A j \in 1..i - 1 : seq[j] \in ToSet(seq)
    BY <1>1, <1>2
  <2>2. 1 \in Int /\ i - 1 \in Int
    BY <1>1
  <2>3. QED
    BY <2>1, <2>2, SubSeqProperties
<1>4. SubSeq(seq, i + 1, Len(seq)) \in Seq(ToSet(seq))
  <2>1. \A j \in i + 1..Len(seq) : seq[j] \in ToSet(seq)
    BY <1>1, <1>2
  <2>2. i + 1 \in Int /\ Len(seq) \in Int
    BY <1>1
  <2>3. QED
    BY <2>1, <2>2, SubSeqProperties
<1>5. RemoveAt(seq, i) \in Seq(ToSet(seq))
  BY <1>3, <1>4, ConcatProperties DEF RemoveAt
<1>6. ToSet(RemoveAt(seq, i)) \subseteq ToSet(seq)
  BY <1>5, ToSetIs
<1>7. RemoveAt(seq, i) \in Seq(S)
  <2>1. ToSet(seq) \subseteq S
    BY ToSetIs
  <2>2. QED
    BY <1>5, <2>1, SeqMonotonic
<1>8. QED
  BY <1>6, <1>7

\* A directory that goes.
LEMMA DirRemovedIs ==
    ASSUME NEW m, Whole(m), NEW i \in DOMAIN m.dirs
    PROVE  LET n == [m EXCEPT !.dirs = RemoveAt(@, i)]
           IN  /\ Whole(n) /\ n.files = m.files /\ n.index_of = m.index_of
<1> DEFINE n == [m EXCEPT !.dirs = RemoveAt(@, i)]
<1>1. /\ m = [dirs |-> m.dirs, files |-> m.files, index_of |-> m.index_of]
      /\ m.dirs \in Seq(AllPaths) /\ m.files \in Seq(AllPaths) /\ m.index_of \in Seq(AllPaths)
  BY WholeParts
<1>2. i \in 1..Len(m.dirs)
  BY <1>1, LenProperties
<1>3. n = [dirs |-> RemoveAt(m.dirs, i), files |-> m.files, index_of |-> m.index_of]
  BY <1>1
<1>4. /\ n.dirs = RemoveAt(m.dirs, i) /\ n.dirs \in Seq(AllPaths)
      /\ ToSet(n.dirs) \subseteq ToSet(m.dirs)
      /\ n.files = m.files /\ n.index_of = m.index_of
  BY <1>1, <1>2, <1>3, RemoveAtIs
<1>5. n \in PathLists
  BY <1>1, <1>3, <1>4 DEF PathLists
<1> HIDE DEF n
<1>6. LiveFiles(n) = LiveFiles(m) /\ Entries(n) \subseteq Entries(m)
  BY <1>4 DEF LiveFiles, Entries
<1>7. \A k \in 1..Len(n.dirs) : Safe(n.dirs[k])
  <2>1. \A d \in ToSet(n.dirs) : Safe(d)
    BY <1>4, WholeParts
  <2>2. \A k \in 1..Len(n.dirs) : n.dirs[k] \in ToSet(n.dirs)
    BY <1>4, ToSetIs
  <2>3. QED
    BY <2>1, <2>2
<1>8. Whole(n)
  <2>1. /\ \A f \in LiveFiles(n) : f \notin ToSet(n.dirs)
        /\ \A f \in LiveFiles(n), e \in Entries(n) : f \in Prefixes(e) => e = f
    BY <1>4, <1>6 DEF Whole
  <2>2. QED
    BY <1>4, <1>5, <1>7, <2>1 DEF Whole
<1>9. QED
  BY <1>4, <1>8 DEF n

\* Where a file may be added: nothing is below it, and no file above.
LEMMA ClearIs ==
    ASSUME NEW m, Whole(m), NEW p \in AllPaths, Clear(m, p)
    PROVE  /\ \A e \in Entries(m) : p \notin Prefixes(e)
           /\ \A f \in LiveFiles(m) : f \notin Prefixes(p)
<1>1. m \in PathLists
  BY DEF Whole
<1>2. ASSUME NEW e \in Entries(m), p \in Prefixes(e) PROVE FALSE
  <2>1. e \in AllPaths /\ e \in Prefixes(e)
    BY <1>1, ShownIs, PrefixesAre
  <2>2. e \in Shown(m)
    BY <1>1, <2>1, ShownIs
  <2>3. Len(p) \in 0..Len(e) /\ p = SubSeq(e, 1, Len(p))
    BY <1>2, <2>1, PrefixesAre
  <2>4. SubSeq(p, 1, Len(p)) = p
    BY SubSeqFull DEF AllPaths
  <2>5. Len(p) <= Len(e)
    BY <2>1, <2>3, LenProperties DEF AllPaths
  <2>6. IsPrefix(p, e)
    BY <2>3, <2>4, <2>5 DEF IsPrefix
  <2>7. QED
    BY <2>2, <2>6 DEF Clear
<1>3. QED
  BY <1>2 DEF Clear

\* One more file, in a slot of its own.
LEMMA OneFileMore ==
    ASSUME NEW m, Whole(m), NEW p \in AllPaths, Safe(p), Clear(m, p),
           NEW n, n \in PathLists, Len(n.index_of) = Len(n.files),
           \A i, j \in 1..Len(n.files) : n.index_of[i] = n.index_of[j] => i = j,
           \A i \in 1..Len(n.files) : n.files[i] \in {n.index_of[i], Root} /\ Safe(n.index_of[i]),
           n.dirs = m.dirs, LiveFiles(n) = LiveFiles(m) \cup {p}
    PROVE  Whole(n)
<1>1. Entries(n) = Entries(m) \cup {p}
  BY DEF Entries
<1>2. p \in Prefixes(p) /\ \A e \in Entries(m) : e \in Prefixes(e)
  BY PrefixesAre, ShownIs DEF Whole
<1>3. p \notin Entries(m)
  BY <1>2, ClearIs
<1>4. \A f \in LiveFiles(n) : f \notin ToSet(n.dirs)
  BY <1>3 DEF Whole, Entries
<1>5. ASSUME NEW f \in LiveFiles(n), NEW e \in Entries(n), f \in Prefixes(e) PROVE e = f
  <2>1. CASE f = p
    BY <1>1, <1>5, <2>1, ClearIs
  <2>2. CASE f \in LiveFiles(m) /\ e = p
    BY <1>5, <2>2, ClearIs
  <2>3. CASE f \in LiveFiles(m) /\ e \in Entries(m)
    BY <1>5, <2>3 DEF Whole
  <2>4. QED
    BY <1>1, <2>1, <2>2, <2>3
<1>6. \A k \in 1..Len(n.dirs) : Safe(n.dirs[k])
  BY DEF Whole
<1>7. QED
  BY <1>4, <1>5, <1>6 DEF Whole

\* A file that comes takes the slot it had, or a new one.
LEMMA FileAddedIs ==
    ASSUME NEW m, Whole(m), NEW p \in AllPaths, Safe(p), Clear(m, p)
    PROVE  Whole(FileAdded(m, p)) /\ SlotsKept(m, FileAdded(m, p))
<1> DEFINE n == FileAdded(m, p)
           N == Len(m.files)
<1>1. /\ m = [dirs |-> m.dirs, files |-> m.files, index_of |-> m.index_of]
      /\ m.dirs \in Seq(AllPaths) /\ m.files \in Seq(AllPaths) /\ m.index_of \in Seq(AllPaths)
      /\ N \in Nat /\ DOMAIN m.files = 1..N /\ Len(m.index_of) = N
      /\ ToSet(m.index_of) = {m.index_of[i] : i \in 1..N}
      /\ LiveFiles(m) = {m.files[i] : i \in 1..N} \ {Root}
  BY WholeParts
<1>2. p # Root
  BY DEF Safe
<1>3. CASE p \in ToSet(m.index_of)
  <2>1. PICK back : back = [i \in DOMAIN m.files |-> IF m.index_of[i] = p THEN p ELSE m.files[i]]
    OBVIOUS
  <2>2. n = [m EXCEPT !.files = back]
    BY <1>3, <2>1 DEF FileAdded
  <2> HIDE DEF n
  <2>3. n = [dirs |-> m.dirs, files |-> back, index_of |-> m.index_of]
    BY <1>1, <2>2
  <2>4. n.files = back /\ n.dirs = m.dirs /\ n.index_of = m.index_of
    BY <2>3
  <2>5. \A i \in 1..N : back[i] = IF m.index_of[i] = p THEN p ELSE m.files[i]
    BY <1>1, <2>1
  <2>6. back \in Seq(AllPaths) /\ Len(back) = N
    <3>1. \A i \in 1..N : back[i] \in AllPaths
      BY <1>1, <2>5, ElementOfSeq
    <3>2. back = [i \in DOMAIN m.files |-> back[i]]
      BY <2>1
    <3>3. QED
      BY <1>1, <3>1, <3>2, SlotBySlot
  <2>7. n \in PathLists
    BY <1>1, <2>3, <2>6 DEF PathLists
  <2>8. LiveFiles(n) = LiveFiles(m) \cup {p}
    <3>1. LiveFiles(n) = {back[i] : i \in 1..N} \ {Root}
      BY <2>4, <2>6, ToSetIs DEF LiveFiles
    <3>2. PICK k \in 1..N : m.index_of[k] = p
      BY <1>1, <1>3
    <3>3. back[k] = p
      BY <2>5, <3>2
    <3>4. \A i \in 1..N : m.index_of[i] = p => m.files[i] \in {p, Root}
      BY DEF Whole
    <3>5. {back[i] : i \in 1..N} \subseteq {m.files[i] : i \in 1..N} \cup {p}
      BY <2>5
    <3>6. \A i \in 1..N : m.files[i] # Root => m.files[i] \in {back[j] : j \in 1..N}
      BY <2>5, <3>3, <3>4
    <3>7. p \in {back[i] : i \in 1..N}
      BY <3>3
    <3>8. QED
      BY <1>1, <1>2, <3>1, <3>5, <3>6, <3>7
  <2>9. /\ \A i, j \in 1..Len(n.files) : n.index_of[i] = n.index_of[j] => i = j
        /\ \A i \in 1..Len(n.files) : n.files[i] \in {n.index_of[i], Root} /\ Safe(n.index_of[i])
    BY <2>4, <2>5, <2>6 DEF Whole
  <2>10. Len(n.index_of) = Len(n.files)
    BY <1>1, <2>4, <2>6
  <2>11. Whole(n)
    BY <2>4, <2>7, <2>8, <2>9, <2>10, OneFileMore
  <2>12. SlotsKept(m, n)
    BY <1>1, <2>4, <2>6 DEF SlotsKept
  <2>13. QED
    BY <2>11, <2>12 DEF n
<1>4. CASE p \notin ToSet(m.index_of)
  <2>1. PICK more, paths : more = Append(m.files, p) /\ paths = Append(m.index_of, p)
    OBVIOUS
  <2>2. n = [m EXCEPT !.files = more, !.index_of = paths]
    BY <1>4, <2>1 DEF FileAdded
  <2> HIDE DEF n
  <2>3. n = [dirs |-> m.dirs, files |-> more, index_of |-> paths]
    BY <1>1, <2>2
  <2>4. n.files = more /\ n.dirs = m.dirs /\ n.index_of = paths
    BY <2>3
  <2>5. /\ more \in Seq(AllPaths) /\ Len(more) = N + 1 /\ more[N + 1] = p
        /\ \A i \in 1..N : more[i] = m.files[i]
    BY <1>1, <2>1, AppendProperties
  <2>6. /\ paths \in Seq(AllPaths) /\ Len(paths) = N + 1 /\ paths[N + 1] = p
        /\ \A i \in 1..N : paths[i] = m.index_of[i]
    BY <1>1, <2>1, AppendProperties
  <2>7. n \in PathLists
    BY <1>1, <2>3, <2>5, <2>6 DEF PathLists
  <2>8. LiveFiles(n) = LiveFiles(m) \cup {p}
    <3>1. ToSet(more) = ToSet(m.files) \cup {p}
      BY <1>1, <2>1, ToSetAppend
    <3>2. QED
      BY <1>2, <2>4, <3>1 DEF LiveFiles
  <2>9. \A i \in 1..N + 1 : i \in 1..N \/ i = N + 1
    BY <1>1
  <2>10. \A i \in 1..N : m.index_of[i] # p
    BY <1>1, <1>4
  <2>11. \A i, j \in 1..N + 1 : paths[i] = paths[j] => i = j
    BY <2>6, <2>9, <2>10 DEF Whole
  <2>12. \A i \in 1..N + 1 : more[i] \in {paths[i], Root} /\ Safe(paths[i])
    BY <2>5, <2>6, <2>9 DEF Whole
  <2>13. Whole(n)
    BY <2>4, <2>5, <2>6, <2>7, <2>8, <2>11, <2>12, OneFileMore
  <2>14. SlotsKept(m, n)
    BY <1>1, <2>4, <2>5, <2>6 DEF SlotsKept
  <2>15. QED
    BY <2>13, <2>14 DEF n
<1>5. QED
  BY <1>3, <1>4

\* Every change of the served directory leaves a manifest whole, and every slot
\* with its path.
LEMMA EditedIsWhole ==
    ASSUME NEW m, Whole(m), NEW n \in Edited(m)
    PROVE  Whole(n) /\ SlotsKept(m, n)
<1>1. \A k : k.files = m.files /\ k.index_of = m.index_of => SlotsKept(m, k)
  BY WholeParts DEF SlotsKept
<1>2. ASSUME NEW p \in Paths, Clear(m, p), n = FileAdded(m, p) PROVE Whole(n) /\ SlotsKept(m, n)
  <2>1. p \in AllPaths /\ Safe(p)
    BY MountedAssumption DEF AllPaths
  <2>2. QED
    BY <1>2, <2>1, FileAddedIs
<1>3. ASSUME NEW p \in LiveFiles(m), n = FileRemoved(m, p) PROVE Whole(n) /\ SlotsKept(m, n)
  BY <1>3, FileRemovedIs
<1>4. ASSUME NEW p \in LiveFiles(m), n = DirAdded(FileRemoved(m, p), p)
      PROVE  Whole(n) /\ SlotsKept(m, n)
  <2>1. PICK k : k = FileRemoved(m, p)
    OBVIOUS
  <2>2. /\ Whole(k) /\ SlotsKept(m, k) /\ LiveFiles(k) = LiveFiles(m) \ {p}
        /\ k.index_of = m.index_of /\ Len(k.files) = Len(m.files)
    BY <2>1, FileRemovedIs
  <2>3. p \in AllPaths /\ Safe(p) /\ p \in Entries(m)
    BY WholeParts DEF Entries
  <2>4. \A f \in LiveFiles(k) : f \notin Prefixes(p)
    BY <2>2, <2>3 DEF Whole
  <2>5. Whole(n) /\ n.files = k.files /\ n.index_of = k.index_of
    BY <1>4, <2>1, <2>2, <2>3, <2>4, DirAddedIs
  <2>6. SlotsKept(m, n)
    BY <2>2, <2>5 DEF SlotsKept
  <2>7. QED
    BY <2>5, <2>6
<1>5. ASSUME NEW i \in DOMAIN m.dirs, n = [m EXCEPT !.dirs = RemoveAt(@, i)]
      PROVE  Whole(n) /\ SlotsKept(m, n)
  BY <1>1, <1>5, DirRemovedIs
<1>6. \/ \E p \in Paths : Clear(m, p) /\ n = FileAdded(m, p)
      \/ \E p \in LiveFiles(m) : n = FileRemoved(m, p)
      \/ \E p \in LiveFiles(m) : n = DirAdded(FileRemoved(m, p), p)
      \/ \E i \in DOMAIN m.dirs : n = [m EXCEPT !.dirs = RemoveAt(@, i)]
  BY DEF Edited
<1>7. QED
  BY <1>2, <1>3, <1>4, <1>5, <1>6

\* A table stays true of an allocator that grew.
LEMMA TreeKept ==
    ASSUME NEW inodes, NEW table, NEW more, NEW shown, NEW placed,
           TreeIs(inodes, table, shown, placed), Grows(table, more)
    PROVE  TreeIs(inodes, more, shown, placed)
<1>1. /\ shown \subseteq DOMAIN more /\ \A p \in shown : more[p] = table[p]
      /\ \A p \in shown \ {Root} : Parent(p) \in shown
  BY DEF TreeIs, Grows
<1>2. \A p \in shown : NodeShows(inodes, more, shown, placed, p)
  <2> SUFFICES ASSUME NEW p \in shown PROVE NodeShows(inodes, more, shown, placed, p)
    OBVIOUS
  <2>1. NodeShows(inodes, table, shown, placed, p)
    BY DEF TreeIs
  <2>2. more[p] = table[p] /\ (p # Root => more[Parent(p)] = table[Parent(p)])
    BY <1>1
  <2>3. {more[q] : q \in {q \in shown \ {Root} : Parent(q) = p}}
            = {table[q] : q \in {q \in shown \ {Root} : Parent(q) = p}}
    BY <1>1
  <2>4. QED
    BY <2>1, <2>2, <2>3 DEF NodeShows
<1>3. QED
  BY <1>1, <1>2 DEF TreeIs

\* Every fileid of a build is its path's, and in the table.
LEMMA HandedIs ==
    ASSUME NEW b, IdsOk(b.ids), Len(b.nodes) = Cardinality(DOMAIN b.ids), NEW h \in Handed(b)
    PROVE  h.path \in DOMAIN b.ids /\ h.id = b.ids[h.path] /\ h.id \in 1..Len(b.nodes)
<1>1. PICK p \in DOMAIN b.ids : h = [id |-> b.ids[p], path |-> p]
  BY DEF Handed
<1>2. b.ids[p] \in 1..Len(b.nodes)
  BY DEF IdsOk
<1>3. QED
  BY <1>1, <1>2

LEMMA BeforeGrows ==
    ASSUME NEW table, NEW more, Grows(table, more), NEW x, NEW y, Before(table, x, y)
    PROVE  Before(more, x, y)
BY DEF Grows, Before

\* What is listed stays in order, and no more is asked of the listing, when the
\* table is replaced.
LEMMA ListingKept ==
    ASSUME ListingInv, Grows(ids, ids'),
           listing' = [listing EXCEPT !.steady =
                IF DirStatus(nodes', listing.dir) # "OK" THEN {}
                ELSE @ \cap ToSet(nodes'[listing.dir].children)]
    PROVE  ListingInv'
<1> DEFINE fewer == IF DirStatus(nodes', listing.dir) # "OK" THEN {}
                    ELSE listing.steady \cap ToSet(nodes'[listing.dir].children)
<1>1. listing = [phase |-> listing.phase, dir |-> listing.dir, after |-> listing.after,
                 got |-> listing.got, steady |-> listing.steady]
  BY DEF ListingInv
<1>2. PICK left : left = fewer
  OBVIOUS
<1>3. listing' = [listing EXCEPT !.steady = left]
  BY <1>2
<1>4. listing' = [phase |-> listing.phase, dir |-> listing.dir, after |-> listing.after,
                  got |-> listing.got, steady |-> left]
  BY <1>1, <1>3
<1>5. /\ listing'.phase = listing.phase /\ listing'.dir = listing.dir
      /\ listing'.after = listing.after /\ listing'.got = listing.got /\ listing'.steady = left
  BY <1>4
<1>6. left \subseteq listing.steady
  BY <1>2
<1>7. \/ left = {}
      \/ DirStatus(nodes', listing.dir) = "OK" /\ left \subseteq ToSet(nodes'[listing.dir].children)
  BY <1>2
<1>8. ASSUME listing.phase \in {"paging", "listed"} PROVE ListedSoFar(listing', ids')
  <2>1. ListedSoFar(listing, ids)
    BY <1>8 DEF ListingInv
  <2>2. \A x, y : Before(ids, x, y) => Before(ids', x, y)
    BY BeforeGrows
  <2>3. QED
    BY <1>5, <1>6, <2>1, <2>2 DEF ListedSoFar
<1>9. listing' = [phase |-> listing'.phase, dir |-> listing'.dir, after |-> listing'.after,
                  got |-> listing'.got, steady |-> listing'.steady]
  BY <1>4, <1>5
<1>10. QED
  BY <1>5, <1>7, <1>8, <1>9 DEF ListingInv

\* A frame of the producer's own tree.
LEMMA FrameStep ==
    ASSUME ViewInv, NEW m \in Edited(held), held' = m, Apply(m), reading' = reading
    PROVE  ViewInv'
<1> DEFINE build == BuildTree(ids, m)
<1>1. Whole(m) /\ SlotsKept(held, m) /\ IdsOk(ids) /\ m \in PathLists
  BY EditedIsWhole DEF ViewInv, TreeInv, Whole
<1>2. Buildable(m)
  BY <1>1, WholeBuilds
<1>3. /\ IdsOk(build.ids) /\ Grows(ids, build.ids) /\ build.ok
      /\ TreeIs(build.nodes, build.ids, Seen(m, Len(m.dirs), Len(m.files)), FiledTo(m, Len(m.files)))
      /\ InNameOrder(build.nodes) /\ Len(build.nodes) = Cardinality(DOMAIN build.ids)
  BY <1>1, <1>2, BuildTreeIs
<1>4. /\ ids' = build.ids /\ nodes' = build.nodes /\ handles' = handles \cup Handed(build)
      /\ listing' = [listing EXCEPT !.steady =
                IF DirStatus(nodes', listing.dir) # "OK" THEN {}
                ELSE @ \cap ToSet(nodes'[listing.dir].children)]
  BY <1>3 DEF Apply
<1> HIDE DEF build
<1>5. TreeInv'
  <2>1. TreeIs(nodes', ids', Shown(m), Placed(m))
    BY <1>1, <1>3, <1>4, ShownIs DEF Placed
  <2>2. QED
    BY <1>1, <1>3, <1>4, <2>1 DEF TreeInv
<1>6. HandlesInv'
  <2> SUFFICES ASSUME NEW h \in handles'
               PROVE  h.path \in DOMAIN ids' /\ h.id = ids'[h.path] /\ h.id \in 1..Len(nodes')
    BY DEF HandlesInv
  <2>1. CASE h \in Handed(build)
    BY <1>3, <1>4, <2>1, HandedIs
  <2>2. CASE h \in handles
    <3>1. h.path \in DOMAIN ids /\ h.id = ids[h.path]
      BY <2>2 DEF ViewInv, HandlesInv
    <3>2. h.path \in DOMAIN ids' /\ h.id = ids'[h.path]
      BY <1>3, <1>4, <3>1 DEF Grows
    <3>3. QED
      BY <1>3, <1>4, <3>2 DEF IdsOk
  <2>3. QED
    BY <1>4, <2>1, <2>2
<1>7. ReadingInv'
  <2> SUFFICES ASSUME reading.phase = "reading"
               PROVE  /\ reading.path \in DOMAIN ids'
                      /\ reading.index \in 1..Len(m.files)
                      /\ m.index_of[reading.index] = reading.path
    BY DEF ReadingInv
  <2>1. /\ reading.path \in DOMAIN ids /\ reading.index \in 1..Len(held.files)
        /\ held.index_of[reading.index] = reading.path
    BY DEF ViewInv, ReadingInv
  <2>2. QED
    BY <1>1, <1>3, <1>4, <2>1 DEF Grows, SlotsKept
<1>8. ListingInv'
  BY <1>3, <1>4, ListingKept DEF ViewInv
<1>9. QED
  BY <1>5, <1>6, <1>7, <1>8 DEF ViewInv

\* A frame that cannot be built: the allocator may have grown, the table stays.
LEMMA BadFrameStep ==
    ASSUME ViewInv, NEW m \in Unbuildable(held), held' = held, Apply(m), reading' = reading
    PROVE  ViewInv'
<1> DEFINE build == BuildTree(ids, m)
<1>1. Whole(held) /\ IdsOk(ids) /\ m \in PathLists /\ ~Buildable(m)
  BY UnbuildableIs DEF ViewInv, TreeInv
<1>2. IdsOk(build.ids) /\ Grows(ids, build.ids) /\ ~build.ok
  BY <1>1, BuildTreeIs
<1>3. /\ ids' = build.ids /\ nodes' = nodes /\ handles' = handles
      /\ listing' = [listing EXCEPT !.steady =
                IF DirStatus(nodes', listing.dir) # "OK" THEN {}
                ELSE @ \cap ToSet(nodes'[listing.dir].children)]
  BY <1>2 DEF Apply
<1> HIDE DEF build
<1>4. TreeInv'
  <2>1. TreeIs(nodes, ids, Shown(held), Placed(held)) /\ InNameOrder(nodes)
    BY DEF ViewInv, TreeInv
  <2>2. TreeIs(nodes, ids', Shown(held), Placed(held))
    BY <1>2, <1>3, <2>1, TreeKept
  <2>3. QED
    BY <1>1, <1>2, <1>3, <2>1, <2>2 DEF TreeInv
<1>5. HandlesInv' /\ ReadingInv'
  BY <1>2, <1>3 DEF ViewInv, HandlesInv, ReadingInv, Grows
<1>6. ListingInv'
  BY <1>2, <1>3, ListingKept DEF ViewInv
<1>7. QED
  BY <1>4, <1>5, <1>6 DEF ViewInv

-----------------------------------------------------------------------------
(* The listing loop.                                                         *)

\* Names are in one order.
LEMMA BeforeIsAnOrder ==
    ASSUME NEW table, IdsOk(table)
    PROVE  /\ \A x, y, z : Before(table, x, y) /\ Before(table, y, z) => Before(table, x, z)
           /\ \A x, y : Before(table, x, y) => x # y /\ ~Before(table, y, x)
<1>1. \A p, q \in DOMAIN table : table[p] = table[q] => p = q
  BY DEF IdsOk
<1>2. \A p \in DOMAIN table \ {Root} : Last(p) \in Nat
  <2> SUFFICES ASSUME NEW p \in DOMAIN table \ {Root} PROVE Last(p) \in Nat
    OBVIOUS
  <2>1. p \in AllPaths /\ p # Root
    BY DEF IdsOk
  <2>2. QED
    BY <2>1, PathIs
<1>3. ASSUME NEW x, NEW y, NEW z, Before(table, x, y), Before(table, y, z)
      PROVE  Before(table, x, z)
  <2>1. PICK p, q \in DOMAIN table \ {Root} : table[p] = x /\ table[q] = y /\ Last(p) < Last(q)
    BY <1>3 DEF Before
  <2>2. PICK r, s \in DOMAIN table \ {Root} : table[r] = y /\ table[s] = z /\ Last(r) < Last(s)
    BY <1>3 DEF Before
  <2>3. q = r
    BY <1>1, <2>1, <2>2
  <2>4. Last(p) < Last(s)
    BY <1>2, <2>1, <2>2, <2>3
  <2>5. QED
    BY <2>1, <2>2, <2>4 DEF Before
<1>4. ASSUME NEW x, NEW y, Before(table, x, y) PROVE x # y /\ ~Before(table, y, x)
  <2>1. PICK p, q \in DOMAIN table \ {Root} : table[p] = x /\ table[q] = y /\ Last(p) < Last(q)
    BY <1>4 DEF Before
  <2>2. ASSUME NEW r \in DOMAIN table \ {Root}, NEW s \in DOMAIN table \ {Root},
               table[r] = y, table[s] = x
        PROVE  ~(Last(r) < Last(s))
    <3>1. q = r /\ p = s
      BY <1>1, <2>1, <2>2
    <3>2. QED
      BY <1>2, <2>1, <3>1
  <2>3. x # y
    <3>1. Last(p) # Last(q)
      BY <1>2, <2>1
    <3>2. QED
      BY <1>1, <2>1, <3>1
  <2>4. QED
    BY <2>2, <2>3 DEF Before
<1>5. QED
  BY <1>3, <1>4

\* The children of a node are in the order of their names.
LEMMA ChildrenInOrder ==
    ASSUME NEW inodes, NEW table, NEW shown, NEW placed, TreeIs(inodes, table, shown, placed),
           InNameOrder(inodes), IdsOk(table), NEW id \in 1..Len(inodes)
    PROVE  LET children == inodes[id].children
           IN  /\ children \in Seq(Nat \ {0}) /\ Len(children) \in Nat
               /\ DOMAIN children = 1..Len(children)
               /\ \A i, j \in 1..Len(children) : i < j => Before(table, children[i], children[j])
<1> DEFINE children == inodes[id].children
<1>1. inodes[id] \in Node
  BY ElementOfSeq DEF TreeIs
<1>2. children \in Seq(Nat) /\ Len(children) \in Nat /\ DOMAIN children = 1..Len(children)
  BY <1>1, LenProperties DEF Node
<1>3. \A i \in 1..Len(children) : children[i] \in ToSet(children)
  BY <1>2 DEF ToSet
<1>4. \A i, j \in 1..Len(children) :
          i < j => inodes[children[i]].name < inodes[children[j]].name
  BY DEF InNameOrder
<1>5. ASSUME NEW i \in 1..Len(children)
      PROVE  \E p \in DOMAIN table \ {Root} :
                 table[p] = children[i] /\ inodes[children[i]].name = Last(p)
  <2>1. inodes[id].kind # "gone"
    <3>1. ASSUME inodes[id].kind = "gone" PROVE FALSE
      <4>1. children = << >>
        BY <3>1 DEF TreeIs
      <4>2. Len(children) = 0
        BY <4>1, EmptySeq
      <4>3. QED
        BY <4>2
    <3>2. QED
      BY <3>1
  <2>2. PICK d \in shown : table[d] = id
    BY <2>1 DEF TreeIs
  <2>3. NodeShows(inodes, table, shown, placed, d)
    BY DEF TreeIs
  <2>4. ToSet(children) = {table[q] : q \in {q \in shown \ {Root} : Parent(q) = d}}
    BY <2>2, <2>3 DEF NodeShows
  <2>5. children[i] \in ToSet(children)
    BY <1>3
  <2>6. PICK q \in shown \ {Root} : children[i] = table[q]
    BY <2>4, <2>5
  <2>7. NodeShows(inodes, table, shown, placed, q) /\ q \in DOMAIN table
    BY DEF TreeIs
  <2>8. QED
    BY <2>6, <2>7 DEF NodeShows
<1>6. \A i \in 1..Len(children) : children[i] \in Nat \ {0}
  <2> SUFFICES ASSUME NEW i \in 1..Len(children) PROVE children[i] \in Nat \ {0}
    OBVIOUS
  <2>1. PICK p \in DOMAIN table : table[p] = children[i]
    BY <1>5
  <2>2. table[p] \in 1..Cardinality(DOMAIN table)
    BY DEF IdsOk
  <2>3. QED
    BY <2>1, <2>2
<1> HIDE DEF children
<1>7. children \in Seq(Nat \ {0})
  <2>1. PICK L \in Nat : L = Len(children)
    BY <1>2
  <2>2. children \in [1..L -> Nat \ {0}]
    <3>1. children = [i \in DOMAIN children |-> children[i]]
      BY <1>2, LenProperties
    <3>2. QED
      BY <1>2, <1>6, <2>1, <3>1
  <2>3. QED
    BY <2>1, <2>2, SeqDef
<1>8. ASSUME NEW i \in 1..Len(children), NEW j \in 1..Len(children), i < j
      PROVE  Before(table, children[i], children[j])
  <2>1. PICK p \in DOMAIN table \ {Root} :
            table[p] = children[i] /\ inodes[children[i]].name = Last(p)
    BY <1>5
  <2>2. PICK q \in DOMAIN table \ {Root} :
            table[q] = children[j] /\ inodes[children[j]].name = Last(q)
    BY <1>5
  <2>3. Last(p) < Last(q)
    BY <1>4, <1>8, <2>1, <2>2
  <2>4. QED
    BY <2>1, <2>2, <2>3 DEF Before
<1>9. QED
  BY <1>2, <1>7, <1>8 DEF children

LEMMA ReadDirIs ==
    ASSUME NEW inodes, NEW dirid, NEW after, NEW L \in Nat,
           ReadDir(inodes, dirid, after, PageSize).status = "OK",
           inodes[dirid].children \in Seq(Nat \ {0}), L = Len(inodes[dirid].children)
    PROVE  LET children == inodes[dirid].children
               answer == ReadDir(inodes, dirid, after, PageSize)
           IN  /\ DirStatus(inodes, dirid) = "OK"
               /\ \E start \in 0..L : \E last \in start..L :
                     /\ IF after = 0 THEN start = 0 ELSE start # 0 /\ children[start] = after
                     /\ last = L \/ last = start + PageSize
                     /\ answer.entries = SubSeq(children, start + 1, last)
                     /\ answer.end => last = L
<1> DEFINE children == inodes[dirid].children
           start == IF after \notin ToSet(children) THEN 0
                    ELSE CHOOSE i \in DOMAIN children : children[i] = after
           last == IF start + PageSize < L THEN start + PageSize ELSE L
           page == SubSeq(children, start + 1, last)
           answer == ReadDir(inodes, dirid, after, PageSize)
           none == [status |-> "BAD_COOKIE", entries |-> << >>, end |-> FALSE]
<1>1. DOMAIN children = 1..L /\ \A i \in 1..L : children[i] \in Nat \ {0}
  BY LenProperties, ElementOfSeq
<1>2. answer = IF DirStatus(inodes, dirid) # "OK"
               THEN [none EXCEPT !.status = DirStatus(inodes, dirid)]
               ELSE IF after # 0 /\ start = 0 THEN none
               ELSE [status |-> "OK", entries |-> page, end |-> start + Len(page) >= L]
  BY DEF ReadDir
<1>3. start \in 0..L /\ (after \in ToSet(children) => start # 0 /\ children[start] = after)
  <2>1. CASE after \in ToSet(children)
    <3>1. \E i \in DOMAIN children : children[i] = after
      BY <2>1 DEF ToSet
    <3>2. start \in DOMAIN children /\ children[start] = after
      BY <2>1, <3>1
    <3> HIDE DEF start
    <3>3. start \in 1..L
      BY <1>1, <3>2
    <3>4. start \in 0..L /\ start # 0
      BY <3>3
    <3>5. QED
      BY <3>2, <3>4
  <2>2. CASE after \notin ToSet(children)
    BY <2>2
  <2>3. QED
    BY <2>1, <2>2
<1>4. after = 0 => start = 0
  <2>1. 0 \notin ToSet(children)
    BY <1>1 DEF ToSet
  <2>2. QED
    BY <2>1
<1>5. PageSize \in Nat \ {0}
  BY MountedAssumption
<1>6. PICK s \in 0..L : s = start
  BY <1>3
<1> HIDE DEF start
<1>7. last \in s..L /\ (last = L \/ last = s + PageSize)
  BY <1>5, <1>6
<1>8. PICK e \in s..L : e = last
  BY <1>7
<1> HIDE DEF last
<1>9. Len(page) = e - s
  <2>1. \A i \in s + 1..e : children[i] \in Nat
    BY <1>1
  <2>2. s + 1 \in Int /\ e \in Int
    OBVIOUS
  <2>3. Len(SubSeq(children, s + 1, e)) = IF s + 1 <= e THEN e - (s + 1) + 1 ELSE 0
    BY <2>1, <2>2, SubSeqProperties
  <2>4. Len(SubSeq(children, s + 1, e)) = e - s
    BY <2>3
  <2>5. QED
    BY <1>6, <1>8, <2>4
<1> HIDE DEF page, children, answer
<1>10. DirStatus(inodes, dirid) = "OK"
  <2>1. ASSUME DirStatus(inodes, dirid) # "OK" PROVE FALSE
    <3>1. answer.status = DirStatus(inodes, dirid)
      BY <1>2, <2>1
    <3>2. QED
      BY <2>1, <3>1 DEF answer
  <2>2. QED
    BY <2>1
<1>11. ~(after # 0 /\ start = 0)
  <2>1. ASSUME after # 0 /\ start = 0 PROVE FALSE
    <3>1. answer.status = "BAD_COOKIE"
      BY <1>2, <1>10, <2>1
    <3>2. QED
      BY <3>1 DEF answer
  <2>2. QED
    BY <2>1
<1>12. answer.entries = page /\ answer.end = (start + Len(page) >= L)
  BY <1>2, <1>10, <1>11
<1>13. answer.end => e = L
  <2>1. ASSUME answer.end PROVE e = L
    <3>1. start + Len(page) >= L
      BY <1>12, <2>1
    <3>2. s + (e - s) >= L
      BY <1>6, <1>9, <3>1
    <3>3. QED
      BY <3>2
  <2>2. QED
    BY <2>1
<1>14. IF after = 0 THEN s = 0 ELSE s # 0 /\ children[s] = after
  <2>1. after # 0 => after \in ToSet(children)
    BY <1>11 DEF start, children
  <2>2. QED
    BY <1>3, <1>4, <1>6, <2>1
<1>15. answer.entries = SubSeq(children, s + 1, e)
  BY <1>6, <1>8, <1>12 DEF page
<1>16. QED
  BY <1>7, <1>8, <1>10, <1>13, <1>14, <1>15 DEF children, answer

\* A page is given only of a directory that is there.
LEMMA PagedIsThere ==
    ASSUME NEW inodes, NEW dirid, NEW after
    PROVE  /\ ReadDir(inodes, dirid, after, PageSize).status = "OK" => DirStatus(inodes, dirid) = "OK"
           /\ DirStatus(inodes, dirid) = "OK" =>
                 dirid \in DOMAIN inodes /\ inodes[dirid].kind = "dir"
           /\ ReadStatus(inodes, dirid) = "OK" =>
                 dirid \in DOMAIN inodes /\ inodes[dirid].kind \notin {"dir", "gone"}
<1>1. ASSUME DirStatus(inodes, dirid) # "OK"
      PROVE  ReadDir(inodes, dirid, after, PageSize).status # "OK"
  <2>1. PICK status : status = DirStatus(inodes, dirid)
    OBVIOUS
  <2>2. ReadDir(inodes, dirid, after, PageSize)
            = [[status |-> "BAD_COOKIE", entries |-> << >>, end |-> FALSE] EXCEPT !.status = status]
    BY <1>1, <2>1 DEF ReadDir
  <2>3. ReadDir(inodes, dirid, after, PageSize).status = status
    BY <2>2
  <2>4. QED
    BY <1>1, <2>1, <2>3
<1>2. StatusOf(inodes, dirid) = "OK" => dirid \in DOMAIN inodes /\ inodes[dirid].kind # "gone"
  BY DEF StatusOf, NodeAt, Gone
<1>3. QED
  BY <1>1, <1>2 DEF DirStatus, ReadStatus

\* A page added to a list that is in order.
Paged(table, children, got, s, e, page, more) ==
    /\ more \in Seq(Nat \ {0})
    /\ \A i, j \in 1..Len(more) : i < j => Before(table, more[i], more[j])
    /\ page = << >> <=> s = e
    /\ page # << >> => Last(page) = children[e] /\ more[Len(more)] = children[e]
    /\ page = << >> => more = got
    /\ \A k \in s + 1..e : children[k] \in ToSet(more)
    /\ ToSet(got) \subseteq ToSet(more)
LEMMA PageAdded ==
    ASSUME NEW table, IdsOk(table), NEW children \in Seq(Nat \ {0}), NEW L \in Nat,
           L = Len(children),
           \A i, j \in 1..L : i < j => Before(table, children[i], children[j]),
           NEW got \in Seq(Nat \ {0}), NEW G \in Nat, G = Len(got),
           \A i, j \in 1..G : i < j => Before(table, got[i], got[j]),
           NEW s \in 0..L, NEW e \in s..L,
           got = << >> => s = 0, got # << >> => s # 0 /\ children[s] = got[G]
    PROVE  Paged(table, children, got, s, e, SubSeq(children, s + 1, e),
                 got \o SubSeq(children, s + 1, e))
<1> DEFINE page == SubSeq(children, s + 1, e)
           more == got \o page
           P == e - s
<1>1. \A i \in 1..L : children[i] \in Nat \ {0}
  BY ElementOfSeq
<1>2. P \in Nat /\ s + P = e /\ s \in Nat /\ e \in Nat /\ e <= L
  OBVIOUS
<1>3. /\ page \in Seq(Nat \ {0}) /\ Len(page) = P /\ \A i \in 1..P : page[i] = children[s + i]
  <2>1. \A i \in s + 1..e : children[i] \in Nat \ {0}
    BY <1>1
  <2>2. s + 1 \in Int /\ e \in Int
    OBVIOUS
  <2>3. /\ SubSeq(children, s + 1, e) \in Seq(Nat \ {0})
        /\ Len(SubSeq(children, s + 1, e)) = IF s + 1 <= e THEN e - (s + 1) + 1 ELSE 0
        /\ \A i \in 1..e - (s + 1) + 1 : SubSeq(children, s + 1, e)[i] = children[s + 1 + i - 1]
    BY <2>1, <2>2, SubSeqProperties
  <2>4. e - (s + 1) + 1 = P /\ (IF s + 1 <= e THEN e - (s + 1) + 1 ELSE 0) = P
    OBVIOUS
  <2>5. \A i \in 1..P : s + 1 + i - 1 = s + i
    OBVIOUS
  <2>6. QED
    BY <2>3, <2>4, <2>5
<1>0. \A i \in 1..P : s + i \in 1..L
  BY <1>2
<1> HIDE DEF P, page
<1>4. /\ more \in Seq(Nat \ {0}) /\ Len(more) = G + P
      /\ \A i \in 1..G + P : more[i] = IF i <= G THEN got[i] ELSE page[i - G]
  <2>1. page \in Seq(Nat \ {0}) /\ Len(page) = P
    BY <1>3
  <2>2. /\ got \o page \in Seq(Nat \ {0}) /\ Len(got \o page) = Len(got) + Len(page)
        /\ \A i \in 1..Len(got) + Len(page) :
              (got \o page)[i] = IF i <= Len(got) THEN got[i] ELSE page[i - Len(got)]
    BY ONLY got \in Seq(Nat \ {0}), <2>1, ConcatProperties
  <2>3. QED
    BY <2>1, <2>2
<1>5. \A i \in 1..G + P : /\ i <= G => i \in 1..G /\ more[i] = got[i]
                          /\ ~(i <= G) => /\ i - G \in 1..P /\ more[i] = children[s + (i - G)]
                                          /\ s + (i - G) \in 1..L
  <2> SUFFICES ASSUME NEW i \in 1..G + P
               PROVE  /\ i <= G => i \in 1..G /\ more[i] = got[i]
                      /\ ~(i <= G) => /\ i - G \in 1..P /\ more[i] = children[s + (i - G)]
                                      /\ s + (i - G) \in 1..L
    OBVIOUS
  <2>1. i <= G => i \in 1..G
    OBVIOUS
  <2>2. ~(i <= G) => i - G \in 1..P
    BY <1>2
  <2>3. QED
    BY <1>0, <1>3, <1>4, <2>1, <2>2
<1> HIDE DEF more
<1>6. ASSUME NEW i \in 1..Len(more), NEW j \in 1..Len(more), i < j
      PROVE  Before(table, more[i], more[j])
  <2>1. i \in 1..G + P /\ j \in 1..G + P
    BY <1>4
  <2>2. CASE j <= G
    <3>1. i <= G
      BY <1>6, <2>1, <2>2
    <3>2. QED
      BY <1>5, <1>6, <2>1, <2>2, <3>1
  <2>3. CASE ~(j <= G) /\ ~(i <= G)
    <3>1. s + (i - G) < s + (j - G)
      BY <1>2, <1>6, <2>1
    <3>2. PICK a, b : a = s + (i - G) /\ b = s + (j - G)
      OBVIOUS
    <3>3. a \in 1..L /\ b \in 1..L /\ a < b /\ more[i] = children[a] /\ more[j] = children[b]
      BY <1>5, <2>1, <2>3, <3>1, <3>2
    <3>4. QED
      BY <3>3
  <2>4. CASE ~(j <= G) /\ i <= G
    <3>1. i \in 1..G /\ more[i] = got[i]
      BY <1>5, <2>1, <2>4
    <3>2. got # << >>
      <4>1. Len(got) # 0
        BY <3>1
      <4>2. QED
        BY <4>1, EmptySeq
    <3>3. s \in 1..L /\ children[s] = got[G] /\ G \in 1..G
      BY <1>2, <3>1, <3>2
    <3>4. PICK b : b = s + (j - G)
      OBVIOUS
    <3>5. b \in 1..L /\ more[j] = children[b]
      BY <1>5, <2>1, <2>4, <3>4
    <3>6. s < b
      BY <1>2, <2>1, <2>4, <3>4
    <3>7. Before(table, got[G], more[j])
      BY <3>3, <3>5, <3>6
    <3>8. i = G \/ Before(table, got[i], got[G])
      BY <3>1, <3>3
    <3>9. QED
      BY <3>1, <3>7, <3>8, BeforeIsAnOrder
  <2>5. QED
    BY <2>2, <2>3, <2>4
<1>7. page = << >> <=> s = e
  <2>1. page = << >> <=> Len(page) = 0
    BY <1>3, EmptySeq
  <2>2. P = 0 <=> s = e
    BY DEF P
  <2>3. QED
    BY <1>3, <2>1, <2>2
<1>8. page # << >> => Last(page) = children[e] /\ more[Len(more)] = children[e]
  <2>1. ASSUME page # << >> PROVE Last(page) = children[e] /\ more[Len(more)] = children[e]
    <3>1. P \in 1..P /\ s + P = e
      BY <1>2, <1>7, <2>1
    <3>2. Last(page) = children[e]
      BY <1>3, <3>1 DEF Last
    <3>3. G + P \in 1..G + P /\ ~(G + P <= G) /\ (G + P) - G = P
      BY <1>2, <3>1
    <3>4. QED
      BY <1>4, <1>5, <3>1, <3>2, <3>3
  <2>2. QED
    BY <2>1
<1>9. page = << >> => more = got
  <2>1. ASSUME page = << >> PROVE more = got
    <3>1. P = 0 /\ Len(more) = G
      BY <1>2, <1>4, <1>7, <2>1
    <3>2. \A i \in 1..G : i \in 1..G + P /\ i <= G
      BY <3>1
    <3>3. \A i \in 1..Len(got) : more[i] = got[i]
      BY <1>4, <3>2
    <3>4. QED
      BY <1>4, <3>1, <3>3, SeqEqual
  <2>2. QED
    BY <2>1
<1>10. DOMAIN more = 1..G + P /\ DOMAIN got = 1..G
  BY <1>4, LenProperties
<1>11. ASSUME NEW k \in s + 1..e PROVE children[k] \in ToSet(more)
  <2>1. PICK i : i = G + (k - s)
    OBVIOUS
  <2>2. i \in 1..G + P /\ ~(i <= G) /\ s + (i - G) = k
    BY <1>2, <2>1
  <2>3. more[i] = children[k]
    BY <1>5, <2>2
  <2>4. QED
    BY <1>10, <2>2, <2>3 DEF ToSet
<1>12. ToSet(got) \subseteq ToSet(more)
  <2>1. \A i \in 1..G : i \in 1..G + P /\ i <= G
    BY <1>2
  <2>2. \A i \in 1..G : more[i] = got[i]
    BY <1>5, <2>1
  <2>3. QED
    BY <1>10, <2>1, <2>2 DEF ToSet
<1>13. QED
  BY <1>4, <1>6, <1>7, <1>8, <1>9, <1>11, <1>12 DEF Paged, more, page, P

LEMMA ListingChanged ==
    ASSUME NEW phase, NEW dir, NEW after, NEW got, NEW steady, NEW p, NEW g, NEW a,
           NEW old, old = [phase |-> phase, dir |-> dir, after |-> after, got |-> got,
                           steady |-> steady],
           NEW new, new = [old EXCEPT !.phase = p, !.got = g, !.after = a]
    PROVE  new = [phase |-> p, dir |-> dir, after |-> a, got |-> g, steady |-> steady]
<1>1. new.phase = p /\ new.dir = dir /\ new.after = a /\ new.got = g /\ new.steady = steady
  OBVIOUS
<1>2. new = [f \in {"phase", "dir", "after", "got", "steady"} |-> new[f]]
  OBVIOUS
<1>3. QED
  BY <1>1, <1>2

\* A listing that was answered a page.
LEMMA PageStep ==
    ASSUME ViewInv, Page
    PROVE  ListingInv'
<1> DEFINE answer == ReadDir(nodes, listing.dir, listing.after, PageSize)
           children == nodes[listing.dir].children
           got == listing.got
           steady == listing.steady
<1>1. /\ listing = [phase |-> listing.phase, dir |-> listing.dir, after |-> listing.after,
                    got |-> got, steady |-> steady]
      /\ listing.phase = "paging" /\ ListedSoFar(listing, ids)
      /\ \/ steady = {}
         \/ DirStatus(nodes, listing.dir) = "OK" /\ steady \subseteq ToSet(children)
  BY DEF ViewInv, ListingInv, Page
<1>2. /\ nodes' = nodes /\ ids' = ids
      /\ listing' = IF answer.status # "OK" THEN [listing EXCEPT !.phase = "refused"]
                    ELSE [listing EXCEPT !.phase = IF answer.end THEN "listed" ELSE "paging",
                                         !.got = @ \o answer.entries,
                                         !.after = IF answer.entries = << >> THEN @
                                                   ELSE Last(answer.entries)]
  BY DEF Page, treeVars
<1>3. TreeIs(nodes, ids, Shown(held), Placed(held)) /\ InNameOrder(nodes) /\ IdsOk(ids)
  BY DEF ViewInv, TreeInv
<1>4. CASE answer.status # "OK"
  <2>1. listing' = [listing EXCEPT !.phase = "refused"]
    BY <1>2, <1>4
  <2> HIDE DEF answer, children, got, steady
  <2>2. listing' = [phase |-> "refused", dir |-> listing.dir, after |-> listing.after,
                    got |-> got, steady |-> steady]
    BY <1>1, <2>1
  <2>3. \/ listing'.steady = {}
        \/ /\ DirStatus(nodes', listing'.dir) = "OK"
           /\ listing'.steady \subseteq ToSet(nodes'[listing'.dir].children)
    BY <1>1, <1>2, <2>2 DEF children
  <2>4. QED
    BY <2>2, <2>3 DEF ListingInv
<1>5. CASE answer.status = "OK"
  <2>1. /\ DirStatus(nodes, listing.dir) = "OK" /\ listing.dir \in DOMAIN nodes
    BY <1>5, PagedIsThere
  <2>2. listing.dir \in 1..Len(nodes)
    BY <1>3, <2>1, LenProperties DEF TreeIs
  <2>3. PICK L \in Nat : L = Len(children)
    BY <1>3, <2>2, ChildrenInOrder
  <2>4. /\ children \in Seq(Nat \ {0})
        /\ \A i, j \in 1..L : i < j => Before(ids, children[i], children[j])
    BY <1>3, <2>2, <2>3, ChildrenInOrder
  <2>0. PICK s \in 0..L : \E e \in s..L :
            /\ IF listing.after = 0 THEN s = 0 ELSE s # 0 /\ children[s] = listing.after
            /\ e = L \/ e = s + PageSize
            /\ answer.entries = SubSeq(children, s + 1, e)
            /\ answer.end => e = L
    BY <1>5, <2>3, <2>4, ReadDirIs
  <2>5. PICK e \in s..L :
            /\ IF listing.after = 0 THEN s = 0 ELSE s # 0 /\ children[s] = listing.after
            /\ e = L \/ e = s + PageSize
            /\ answer.entries = SubSeq(children, s + 1, e)
            /\ answer.end => e = L
    BY <2>0
  <2>6. /\ got \in Seq(Nat \ {0})
        /\ listing.after = IF got = << >> THEN 0 ELSE got[Len(got)]
        /\ \A i, j \in 1..Len(got) : i < j => Before(ids, got[i], got[j])
        /\ got # << >> => \A x \in steady : x \in ToSet(got) \/ Before(ids, listing.after, x)
    BY <1>1 DEF ListedSoFar
  <2>7. PICK G \in Nat : G = Len(got)
    BY <2>6, LenProperties
  <2>8. got # << >> => G \in 1..G /\ listing.after # 0
    <3>1. ASSUME got # << >> PROVE G \in 1..G /\ listing.after # 0
      <4>1. G # 0
        BY <2>6, <2>7, <3>1, EmptySeq
      <4>2. G \in 1..G
        BY <4>1
      <4>3. got[G] \in Nat \ {0}
        BY <2>6, <2>7, <4>2, ElementOfSeq
      <4>4. QED
        BY <2>6, <2>7, <3>1, <4>2, <4>3
    <3>2. QED
      BY <3>1
  <2>9. /\ got = << >> => s = 0
        /\ got # << >> => s # 0 /\ children[s] = got[G]
    BY <2>5, <2>6, <2>7, <2>8
  <2>10. PICK page : page = SubSeq(children, s + 1, e)
    OBVIOUS
  <2>11. PICK more : more = got \o page
    OBVIOUS
  <2>12. /\ more \in Seq(Nat \ {0})
         /\ \A i, j \in 1..Len(more) : i < j => Before(ids, more[i], more[j])
         /\ page = << >> <=> s = e
         /\ page # << >> => Last(page) = children[e] /\ more[Len(more)] = children[e]
         /\ page = << >> => more = got
         /\ \A k \in s + 1..e : children[k] \in ToSet(more)
         /\ ToSet(got) \subseteq ToSet(more)
    <3> HIDE DEF answer, children, got, steady
    <3>1. \A i, j \in 1..G : i < j => Before(ids, got[i], got[j])
      BY <2>6, <2>7
    <3>2. IdsOk(ids) /\ got \in Seq(Nat \ {0}) /\ children \in Seq(Nat \ {0})
      BY <1>3, <2>4, <2>6
    <3>3. \A i, j \in 1..L : i < j => Before(ids, children[i], children[j])
      BY <2>4
    <3>4. Paged(ids, children, got, s, e, SubSeq(children, s + 1, e),
                got \o SubSeq(children, s + 1, e))
      BY ONLY <2>3, <2>7, <2>9, <3>1, <3>2, <3>3, PageAdded
    <3>5. QED
      BY ONLY <2>10, <2>11, <3>4 DEF Paged
  <2>13. PICK after, phase : /\ after = IF page = << >> THEN listing.after ELSE Last(page)
                             /\ phase = IF answer.end THEN "listed" ELSE "paging"
    OBVIOUS
  <2>14. listing' = [listing EXCEPT !.phase = phase, !.got = more, !.after = after]
    BY <1>2, <1>5, <2>5, <2>10, <2>11, <2>13
  <2> HIDE DEF answer, children, got, steady
  <2>15. listing' = [phase |-> phase, dir |-> listing.dir, after |-> after,
                     got |-> more, steady |-> steady]
    <3>1. listing = [phase |-> listing.phase, dir |-> listing.dir, after |-> listing.after,
                     got |-> got, steady |-> steady]
      BY <1>1
    <3>2. PICK dir : dir = listing.dir
      OBVIOUS
    <3>3. PICK was : was = listing.after
      OBVIOUS
    <3>4. PICK is : is = listing.phase
      OBVIOUS
    <3>5. listing = [phase |-> is, dir |-> dir, after |-> was, got |-> got, steady |-> steady]
      BY <3>1, <3>2, <3>3, <3>4
    <3>6. PICK old : old = listing
      OBVIOUS
    <3>7. PICK new : new = listing'
      OBVIOUS
    <3>8. /\ old = [phase |-> is, dir |-> dir, after |-> was, got |-> got, steady |-> steady]
          /\ new = [old EXCEPT !.phase = phase, !.got = more, !.after = after]
      BY ONLY <2>14, <3>5, <3>6, <3>7
    <3>9. new = [phase |-> phase, dir |-> dir, after |-> after, got |-> more, steady |-> steady]
      BY ONLY <3>8, ListingChanged
    <3>10. QED
      BY <3>2, <3>7, <3>9
  <2>16. /\ listing'.phase = phase /\ listing'.dir = listing.dir /\ listing'.after = after
         /\ listing'.got = more /\ listing'.steady = steady
    BY <2>15
  <2>17. more # << >> => after = more[Len(more)]
    BY <2>6, <2>12, <2>13
  <2>18. more = << >> => after = 0
    <3>1. ASSUME more = << >>, page # << >> PROVE FALSE
      <4>1. \A x : x \notin ToSet(more)
        <5>1. Len(more) = 0
          BY <3>1, EmptySeq
        <5>2. ToSet(more) = {more[i] : i \in 1..0}
          BY <2>12, <5>1, ToSetIs
        <5>3. QED
          BY <5>2
      <4>2. e \in s + 1..e
        BY <2>12, <3>1
      <4>3. QED
        BY <2>12, <4>1, <4>2
    <3>2. QED
      BY <2>6, <2>12, <2>13, <3>1
  <2>19. ASSUME NEW x \in steady, more # << >>
         PROVE  x \in ToSet(more) \/ (Before(ids, after, x) /\ e # L)
    <3>1. x \in ToSet(children)
      BY <1>1
    <3>2. PICK k \in 1..L : x = children[k]
      BY <2>3, <2>4, <3>1, ToSetIs
    <3>3. CASE k <= s
      <4>1. got # << >>
        BY <2>9, <3>2, <3>3
      <4>2. s \in 1..L /\ children[s] = listing.after
        BY <2>5, <2>8, <4>1
      <4>3. ~Before(ids, listing.after, x)
        <5>1. k = s \/ k < s
          BY <3>3
        <5>2. k = s => x = listing.after
          BY <3>2, <4>2
        <5>3. k < s => Before(ids, x, listing.after)
          BY <2>4, <3>2, <4>2
        <5>4. QED
          BY <1>3, <5>1, <5>2, <5>3, BeforeIsAnOrder
      <4>4. QED
        BY <2>6, <2>12, <4>1, <4>3
    <3>4. CASE s < k /\ k <= e
      <4>1. k \in s + 1..e
        BY <3>4
      <4>2. QED
        BY <2>12, <3>2, <4>1
    <3>5. CASE e < k
      <4>1. e # L
        BY <3>5
      <4>2. e = s + PageSize /\ PageSize \in Nat \ {0}
        BY <2>5, <4>1, MountedAssumption
      <4>3. s # e /\ e \in 1..L
        BY <4>2
      <4>4. after = children[e]
        BY <2>12, <2>13, <4>3
      <4>5. Before(ids, after, x)
        BY <2>4, <3>2, <3>5, <4>3, <4>4
      <4>6. QED
        BY <4>1, <4>5
    <3>6. QED
      BY <3>3, <3>4, <3>5
  <2>20. phase = "listed" => steady \subseteq ToSet(more)
    <3> SUFFICES ASSUME phase = "listed", NEW x \in steady PROVE x \in ToSet(more)
      OBVIOUS
    <3>1. e = L
      BY <2>5, <2>13
    <3>2. CASE more # << >>
      BY <2>19, <3>1, <3>2
    <3>3. CASE more = << >>
      <4>1. x \in ToSet(children)
        BY <1>1
      <4>2. PICK k \in 1..L : x = children[k]
        BY <2>3, <2>4, <4>1, ToSetIs
      <4>3. got = << >>
        <5>1. \A y : y \notin ToSet(more)
          <6>1. Len(more) = 0
            BY <3>3, EmptySeq
          <6>2. ToSet(more) = {more[i] : i \in 1..0}
            BY <2>12, <6>1, ToSetIs
          <6>3. QED
            BY <6>2
        <5>2. got # << >> => got[G] \in ToSet(got)
          BY <2>6, <2>7, <2>8, ToSetIs
        <5>3. QED
          BY <2>12, <5>1, <5>2
      <4>4. k \in s + 1..e
        BY <2>9, <3>1, <4>2, <4>3
      <4>5. QED
        BY <2>12, <4>2, <4>4
    <3>4. QED
      BY <3>2, <3>3
  <2>21. ListedSoFar(listing', ids')
    <3>1. more # << >> => \A x \in steady : x \in ToSet(more) \/ Before(ids, after, x)
      BY <2>19
    <3>2. ids' = ids
      BY <1>2
    <3>3. more \in Seq(Nat \ {0}) /\ after = IF more = << >> THEN 0 ELSE more[Len(more)]
      BY <2>12, <2>17, <2>18
    <3>4. \A i, j \in 1..Len(more) : i < j => Before(ids, more[i], more[j])
      BY <2>12
    <3>5. QED
      BY ONLY <2>16, <2>20, <3>1, <3>2, <3>3, <3>4 DEF ListedSoFar
  <2>22. \/ listing'.steady = {}
         \/ /\ DirStatus(nodes', listing'.dir) = "OK"
            /\ listing'.steady \subseteq ToSet(nodes'[listing'.dir].children)
    BY <1>1, <1>2, <2>16 DEF children
  <2>23. phase \in {"paging", "listed"}
    BY <2>13
  <2>24. QED
    BY <2>15, <2>16, <2>21, <2>22, <2>23 DEF ListingInv
<1>6. QED
  BY <1>4, <1>5

-----------------------------------------------------------------------------
(* The view the kernel has.                                                  *)

\* The initial tree is the root.
LEMMA ViewInit == MountedInit => ViewInv
<1> SUFFICES ASSUME MountedInit PROVE ViewInv
  OBVIOUS
<1> DEFINE build == BuildTree(NoIds, Empty)
<1>1. /\ held = Empty /\ ids = build.ids /\ nodes = build.nodes /\ handles = Handed(build)
      /\ listing = NoListing /\ reading = NoReading
  BY DEF MountedInit
<1>2. Whole(Empty)
  <2>1. << >> \in Seq(AllPaths) /\ Len(<< >>) = 0
    BY EmptySeq
  <2>2. Empty \in PathLists /\ Len(Empty.dirs) = 0 /\ Len(Empty.files) = 0 /\ Len(Empty.index_of) = 0
    BY <2>1 DEF Empty, PathLists
  <2>3. ToSet(Empty.files) = {}
    <3>1. ToSet(Empty.files) = {Empty.files[i] : i \in 1..Len(Empty.files)}
      BY <2>2, ToSetIs DEF PathLists
    <3>2. 1..Len(Empty.files) = {}
      BY <2>2
    <3>3. QED
      BY <3>1, <3>2
  <2>4. LiveFiles(Empty) = {}
    BY <2>3 DEF LiveFiles
  <2>5. QED
    BY <2>2, <2>4 DEF Whole
<1>3. IdsOk(NoIds)
  <2>1. DOMAIN NoIds = {Root} /\ NoIds[Root] = 1 /\ NoIds = [p \in DOMAIN NoIds |-> NoIds[p]]
    BY DEF NoIds, ROOT_ID
  <2>2. IsFiniteSet({Root}) /\ Cardinality({Root}) = 1
    BY FS_Singleton
  <2>3. Root \in AllPaths
    BY EmptySeq DEF Root, AllPaths
  <2>4. 1 \in 1..1
    OBVIOUS
  <2>5. QED
    BY <2>1, <2>2, <2>3, <2>4 DEF IdsOk, ROOT_ID
<1>4. Empty \in PathLists /\ Buildable(Empty)
  BY <1>2, WholeBuilds DEF Whole
<1>5. /\ IdsOk(build.ids) /\ InNameOrder(build.nodes)
      /\ TreeIs(build.nodes, build.ids, Seen(Empty, Len(Empty.dirs), Len(Empty.files)),
                FiledTo(Empty, Len(Empty.files)))
      /\ Len(build.nodes) = Cardinality(DOMAIN build.ids)
  BY <1>3, <1>4, BuildTreeIs
<1> HIDE DEF build
<1>6. TreeInv
  <2>1. TreeIs(nodes, ids, Shown(held), Placed(held))
    BY <1>1, <1>4, <1>5, ShownIs DEF Placed
  <2>2. QED
    BY <1>1, <1>2, <1>5, <2>1 DEF TreeInv
<1>7. HandlesInv
  BY <1>1, <1>5, HandedIs DEF HandlesInv
<1>8. ReadingInv /\ ListingInv
  BY <1>1 DEF ReadingInv, ListingInv, NoReading, NoListing
<1>9. QED
  BY <1>6, <1>7, <1>8 DEF ViewInv

\* A listing starts empty, with the children the directory has by now.
LEMMA ListingStarts ==
    ASSUME ViewInv, StartListing
    PROVE  ListingInv'
<1>1. PICK h \in handles :
          /\ DirStatus(nodes, h.id) = "OK"
          /\ listing' = [NoListing EXCEPT !.phase = "paging", !.dir = h.id,
                                          !.steady = ToSet(nodes[h.id].children)]
  BY DEF StartListing
<1>2. PICK dir, steady : dir = h.id /\ steady = ToSet(nodes[dir].children)
  OBVIOUS
<1>3. listing' = [phase |-> "paging", dir |-> dir, after |-> 0, got |-> << >>, steady |-> steady]
  BY <1>1, <1>2 DEF NoListing
<1>4. nodes' = nodes /\ ids' = ids
  BY DEF StartListing, treeVars
<1>5. << >> \in Seq(Nat \ {0}) /\ Len(<< >>) = 0
  BY EmptySeq
<1>6. ListedSoFar(listing', ids')
  BY <1>3, <1>5 DEF ListedSoFar
<1>7. /\ listing'.phase = "paging" /\ listing'.dir = dir /\ listing'.after = 0
      /\ listing'.got = << >> /\ listing'.steady = steady
  BY <1>3
<1>8. DirStatus(nodes', dir) = "OK" /\ steady \subseteq ToSet(nodes'[dir].children)
  BY <1>1, <1>2, <1>4
<1>9. listing' = [phase |-> listing'.phase, dir |-> listing'.dir, after |-> listing'.after,
                  got |-> listing'.got, steady |-> listing'.steady]
  BY <1>3, <1>7
<1>10. QED
  BY <1>6, <1>7, <1>8, <1>9 DEF ListingInv

\* The slot behind the fileid of a file is its path's.
LEMMA SlotOfPath ==
    ASSUME ViewInv, NEW p \in DOMAIN ids, ReadStatus(nodes, ids[p]) = "OK"
    PROVE  /\ nodes[ids[p]].index \in 1..Len(held.files)
           /\ held.index_of[nodes[ids[p]].index] = p
<1>1. TreeIs(nodes, ids, Shown(held), Placed(held)) /\ IdsOk(ids) /\ Whole(held)
  BY DEF ViewInv, TreeInv
<1>2. ids[p] \in DOMAIN nodes /\ nodes[ids[p]].kind \notin {"dir", "gone"}
  BY PagedIsThere
<1>3. ids[p] \in 1..Len(nodes)
  BY <1>1, <1>2, LenProperties DEF TreeIs
<1>4. PICK q \in Shown(held) : ids[q] = ids[p]
  BY <1>1, <1>2, <1>3 DEF TreeIs
<1>5. q = p
  BY <1>1, <1>4 DEF TreeIs, IdsOk
<1>6. NodeShows(nodes, ids, Shown(held), Placed(held), p)
  BY <1>1, <1>4, <1>5 DEF TreeIs
<1>7. PICK index : index = nodes[ids[p]].index
  OBVIOUS
<1>8. <<p, index>> \in Placed(held)
  BY <1>2, <1>6, <1>7 DEF NodeShows
<1>9. PICK k \in 1..Len(held.files) : held.files[k] # Root /\ <<p, index>> = <<held.files[k], k>>
  BY <1>8 DEF Placed, FiledTo
<1>10. index = k /\ held.files[k] = p /\ p # Root
  BY <1>9
<1>11. held.index_of[k] = p
  BY <1>1, <1>10 DEF Whole
<1>12. QED
  BY <1>7, <1>10, <1>11

\* A READ carries the slot of its own path.
LEMMA ReadingStep ==
    ASSUME ViewInv, LoopsStayInTheFile,
           StartReading \/ Answered \/ ReadFails \/ ReadingOver
    PROVE  ReadingInv'
<1>1. held' = held /\ ids' = ids
  BY DEF StartReading, Answered, ReadFails, ReadingOver, treeVars
<1>2. reading = [phase |-> reading.phase, path |-> reading.path, index |-> reading.index,
                 offset |-> reading.offset]
  BY DEF LoopsStayInTheFile
<1>3. CASE StartReading
  <2>1. PICK h \in handles :
            /\ ReadStatus(nodes, h.id) = "OK"
            /\ reading' = [NoReading EXCEPT !.phase = "reading", !.path = h.path,
                                            !.index = nodes[h.id].index]
    BY <1>3 DEF StartReading
  <2>2. h.path \in DOMAIN ids /\ h.id = ids[h.path]
    BY DEF ViewInv, HandlesInv
  <2>3. PICK path, index : path = h.path /\ index = nodes[ids[path]].index
    OBVIOUS
  <2>4. index \in 1..Len(held.files) /\ held.index_of[index] = path /\ path \in DOMAIN ids
    BY <2>1, <2>2, <2>3, SlotOfPath
  <2>5. reading' = [phase |-> "reading", path |-> path, index |-> index, offset |-> 0]
    BY <2>1, <2>2, <2>3 DEF NoReading
  <2>6. QED
    BY <1>1, <2>4, <2>5 DEF ReadingInv
<1>4. CASE Answered
  <2> DEFINE got == Least(Asked, FileSize - reading.offset)
             id == ids[reading.path]
  <2>2. \/ \E offset : reading' = [reading EXCEPT !.phase = "read", !.offset = offset]
        \/ /\ ReadStatus(nodes, id) = "OK"
           /\ \E offset : reading' = [reading EXCEPT !.offset = offset, !.index = nodes[id].index]
        \/ reading' = [reading EXCEPT !.phase = "failed"]
    BY <1>4 DEF Answered
  <2>3. CASE \/ \E offset : reading' = [reading EXCEPT !.phase = "read", !.offset = offset]
             \/ reading' = [reading EXCEPT !.phase = "failed"]
    <3>1. reading'.phase \in {"read", "failed"}
      BY <1>2, <2>3
    <3>2. QED
      BY <3>1 DEF ReadingInv
  <2>4. CASE /\ ReadStatus(nodes, id) = "OK"
             /\ \E offset : reading' = [reading EXCEPT !.offset = offset, !.index = nodes[id].index]
    <3>1. PICK offset, index : /\ index = nodes[id].index
                               /\ reading' = [reading EXCEPT !.offset = offset, !.index = index]
      BY <2>4
    <3>2. /\ reading'.phase = reading.phase /\ reading'.path = reading.path
          /\ reading'.index = index
      BY <1>2, <3>1
    <3>3. reading.phase = "reading" => reading.path \in DOMAIN ids
      BY DEF ViewInv, ReadingInv
    <3>4. reading.phase = "reading" =>
              index \in 1..Len(held.files) /\ held.index_of[index] = reading.path
      BY <2>4, <3>1, <3>3, SlotOfPath
    <3>5. QED
      BY <1>1, <3>2, <3>3, <3>4 DEF ReadingInv
  <2>5. QED
    BY <2>2, <2>3, <2>4
<1>5. CASE ReadFails
  <2>1. reading' = [reading EXCEPT !.phase = "failed"]
    BY <1>5 DEF ReadFails
  <2>2. reading'.phase = "failed"
    BY <1>2, <2>1
  <2>3. QED
    BY <2>2 DEF ReadingInv
<1>6. CASE ReadingOver
  BY <1>6 DEF ReadingOver, NoReading, ReadingInv
<1>7. QED
  BY <1>3, <1>4, <1>5, <1>6

\* Whatever happens, the kernel's view stays true.
LEMMA ViewStep ==
    ASSUME ViewInv, LoopsStayInTheFile, [MountedNext]_mountedVars
    PROVE  ViewInv'
<1>1. CASE UNCHANGED <<treeVars, listing, reading>>
  <2>1. UNCHANGED <<held, ids, nodes, handles, listing, reading>>
    BY <1>1 DEF treeVars
  <2>2. TreeInv' /\ HandlesInv' /\ ReadingInv'
    BY <2>1 DEF ViewInv, TreeInv, HandlesInv, ReadingInv
  <2>3. ListingInv'
    BY <2>1 DEF ViewInv, ListingInv
  <2>4. QED
    BY <2>2, <2>3 DEF ViewInv
<1>2. ASSUME UNCHANGED <<held, ids, nodes, handles>> PROVE TreeInv' /\ HandlesInv'
  BY <1>2 DEF ViewInv, TreeInv, HandlesInv
<1>3. ASSUME UNCHANGED <<held, ids, nodes, handles>>, listing' = listing PROVE ListingInv'
  BY <1>3 DEF ViewInv, ListingInv
<1>4. ASSUME UNCHANGED <<held, ids, nodes, handles>>, reading' = reading PROVE ReadingInv'
  BY <1>4 DEF ViewInv, ReadingInv
<1>5. CASE FrameArrives
  <2>1. PICK m \in Edited(held) : held' = m /\ Apply(m) /\ reading' = reading
    BY <1>5 DEF FrameArrives
  <2>2. QED
    BY <2>1, FrameStep
<1>6. CASE BadFrameArrives
  <2>1. PICK m \in Unbuildable(held) : held' = held /\ Apply(m) /\ reading' = reading
    BY <1>6 DEF BadFrameArrives
  <2>2. QED
    BY <2>1, BadFrameStep
<1>7. CASE StartListing
  BY <1>2, <1>4, <1>7, ListingStarts DEF StartListing, treeVars, ViewInv
<1>8. CASE Page
  BY <1>2, <1>4, <1>8, PageStep DEF Page, treeVars, ViewInv
<1>9. CASE ListingOver
  <2>1. listing' = NoListing /\ UNCHANGED <<held, ids, nodes, handles, reading>>
    BY <1>9 DEF ListingOver, treeVars
  <2>2. ListingInv'
    BY <2>1 DEF ListingInv, NoListing
  <2>3. QED
    BY <1>2, <1>4, <2>1, <2>2 DEF ViewInv
<1>10. CASE StartReading \/ Answered \/ ReadFails \/ ReadingOver
  <2>1. UNCHANGED <<held, ids, nodes, handles, listing>>
    BY <1>10 DEF StartReading, Answered, ReadFails, ReadingOver, treeVars
  <2>2. ReadingInv'
    BY <1>10, ReadingStep
  <2>3. QED
    BY <1>2, <1>3, <2>1, <2>2 DEF ViewInv
<1>11. \/ UNCHANGED <<treeVars, listing, reading>> \/ FrameArrives \/ BadFrameArrives
       \/ StartListing \/ Page \/ ListingOver
       \/ StartReading \/ Answered \/ ReadFails \/ ReadingOver
  BY DEF MountedNext, TakesTheLock, Progresses, WatchTask, Kernel, ReadCall, Reuse, StartDial,
         OpenFails, Dialled, DialFails, Open, Die, WatchEnds, WatchRetries, mountedVars, kernelVars
<1>12. QED
  BY <1>1, <1>5, <1>6, <1>7, <1>8, <1>9, <1>10, <1>11

\* The ids in use are as many as the paths shown.
LEMMA AsManyAsShown ==
    ASSUME NEW inodes, NEW table, NEW shown, NEW placed, TreeIs(inodes, table, shown, placed),
           IdsOk(table)
    PROVE  Cardinality({id \in DOMAIN inodes : inodes[id].kind # "gone"}) = Cardinality(shown)
<1> DEFINE Used == {id \in DOMAIN inodes : inodes[id].kind # "gone"}
           f == [p \in shown |-> table[p]]
<1>1. DOMAIN inodes = 1..Len(inodes)
  BY LenProperties DEF TreeIs
<1>2. shown \subseteq DOMAIN table /\ IsFiniteSet(DOMAIN table)
  BY DEF TreeIs, IdsOk
<1>3. IsFiniteSet(shown)
  BY <1>2, FS_Subset
<1>4. \A p \in shown : table[p] \in Used
  <2> SUFFICES ASSUME NEW p \in shown PROVE table[p] \in Used
    OBVIOUS
  <2>1. table[p] \in 1..Len(inodes) /\ NodeShows(inodes, table, shown, placed, p)
    BY DEF TreeIs
  <2>2. inodes[table[p]].kind # "gone"
    BY <2>1 DEF NodeShows
  <2>3. QED
    BY <1>1, <2>1, <2>2
<1>5. \A id \in Used : \E p \in shown : table[p] = id
  BY <1>1 DEF TreeIs
<1>6. \A p, q \in shown : table[p] = table[q] => p = q
  BY <1>2 DEF IdsOk
<1>7. f \in Bijection(shown, Used)
  BY <1>4, <1>5, <1>6 DEF Bijection, Injection, Surjection, IsInjective
<1>8. ExistsBijection(shown, Used)
  BY <1>7 DEF ExistsBijection
<1> HIDE DEF Used
<1>9. Cardinality(Used) = Cardinality(shown)
  BY <1>3, <1>8, FS_Bijection
<1>10. QED
  BY <1>9 DEF Used

LEMMA ViewMeans ==
    ASSUME ViewInv, RequestInv
    PROVE  KernelSeesTheTree
<1>1. /\ Whole(held) /\ IdsOk(ids) /\ InNameOrder(nodes)
      /\ TreeIs(nodes, ids, Shown(held), Placed(held))
  BY DEF ViewInv, TreeInv
<1>2. held \in PathLists /\ FilesAreLeaves(Shown(held), Placed(held))
  BY <1>1, WholeBuilds DEF Whole
<1>3. FilePaths(Placed(held)) = LiveFiles(held) /\ Shown(held) \subseteq DOMAIN ids
  BY <1>1, <1>2, ShownIs DEF TreeIs
<1>4. \A p \in Shown(held) : Walk(p) = ids[p]
  BY <1>1, <1>2, WalkIs
<1>5. MountedTypeOK
  <2>1. \A p \in DOMAIN ids : ids[p] \in 1..Cardinality(DOMAIN ids)
    BY <1>1 DEF IdsOk
  <2>2. \A h \in handles : h.id \in DOMAIN nodes
    <3>1. DOMAIN nodes = 1..Len(nodes)
      BY <1>1, LenProperties DEF TreeIs
    <3>2. QED
      BY <3>1 DEF ViewInv, HandlesInv
  <2>3. listing.phase \in {"idle", "paging", "listed", "refused"}
    BY DEF ViewInv, ListingInv
  <2>4. reading.phase \in {"idle", "reading", "read", "failed"}
    BY DEF RequestInv, LoopsStayInTheFile
  <2>5. \A u \in Users : user[u].phase \in {"idle", "connecting", "dialing", "opening",
                                            "asked", "unopened", "refused", "ended"}
    BY DEF RequestInv, RequestTypes, UserState, Phases
  <2>6. /\ cached \in 0..dialled /\ holder \in Users \cup {0} /\ dead \subseteq 1..dialled
        /\ \A u \in Users : user[u].phase = "dialing" <=> holder = u
    BY DEF RequestInv, RequestTypes, DiallersHoldTheLock
  <2>7. QED
    BY <2>1, <2>2, <2>3, <2>4, <2>5, <2>6 DEF MountedTypeOK
<1>6. MountShowsTheManifest
  <2>1. ASSUME NEW p \in Shown(held)
        PROVE  LET id == Walk(p)
               IN  IF p \in LiveFiles(held)
                   THEN ReadStatus(nodes, id) = "OK" /\ held.files[nodes[id].index] = p
                   ELSE /\ DirStatus(nodes, id) = "OK"
                        /\ p # Root => nodes[id].parent = Walk(Parent(p))
    <3>1. NodeShows(nodes, ids, Shown(held), Placed(held), p) /\ Walk(p) = ids[p]
      BY <1>1, <1>4 DEF TreeIs
    <3>2. CASE p \in LiveFiles(held)
      <4>1. ReadStatus(nodes, ids[p]) = "OK"
        BY <1>1, <1>3, <3>2, StatusIs
      <4>2. PICK index : index = nodes[ids[p]].index
        OBVIOUS
      <4>3. <<p, index>> \in Placed(held)
        BY <1>3, <3>1, <3>2, <4>2 DEF NodeShows
      <4>4. PICK k \in 1..Len(held.files) : <<p, index>> = <<held.files[k], k>>
        BY <4>3 DEF Placed, FiledTo
      <4>5. held.files[index] = p
        BY <4>4
      <4>6. QED
        BY <3>1, <3>2, <4>1, <4>2, <4>5
    <3>3. CASE p \notin LiveFiles(held)
      <4>1. DirStatus(nodes, ids[p]) = "OK"
        BY <1>1, <1>3, <3>3, StatusIs
      <4>2. p # Root => nodes[ids[p]].parent = ids[Parent(p)]
        BY <1>3, <3>1, <3>3 DEF NodeShows
      <4>3. p # Root => Parent(p) \in Shown(held)
        BY <1>1 DEF TreeIs
      <4>4. QED
        BY <1>4, <3>1, <3>3, <4>1, <4>2, <4>3
    <3>4. QED
      BY <3>2, <3>3
  <2>2. Cardinality({id \in DOMAIN nodes : nodes[id].kind # "gone"}) = Cardinality(Shown(held))
    BY <1>1, AsManyAsShown
  <2>3. QED
    BY <2>1, <2>2 DEF MountShowsTheManifest
<1>7. HandlesNameOnePath
  <2> SUFFICES ASSUME NEW h \in handles, NEW p \in Shown(held)
               PROVE  h.id = Walk(p) <=> h.path = p
    BY DEF HandlesNameOnePath
  <2>1. h.path \in DOMAIN ids /\ h.id = ids[h.path]
    BY DEF ViewInv, HandlesInv
  <2>2. p \in DOMAIN ids /\ Walk(p) = ids[p]
    BY <1>3, <1>4
  <2>3. QED
    BY <1>1, <2>1, <2>2 DEF IdsOk
<1>8. ReadsAskForTheirFile
  BY <1>1 DEF ReadsAskForTheirFile, ViewInv, ReadingInv, Whole
<1>9. ListingsAreComplete
  <2> SUFFICES ASSUME listing.phase = "listed"
               PROVE  IsInjective(listing.got) /\ listing.steady \subseteq ToSet(listing.got)
    BY DEF ListingsAreComplete
  <2>1. ListedSoFar(listing, ids)
    BY DEF ViewInv, ListingInv
  <2>2. DOMAIN listing.got = 1..Len(listing.got) /\ Len(listing.got) \in Nat
    BY <2>1, LenProperties DEF ListedSoFar
  <2>3. ASSUME NEW i \in 1..Len(listing.got), NEW j \in 1..Len(listing.got), i # j
        PROVE  listing.got[i] # listing.got[j]
    <3>1. i < j \/ j < i
      BY <2>2, <2>3
    <3>2. \/ Before(ids, listing.got[i], listing.got[j])
          \/ Before(ids, listing.got[j], listing.got[i])
      BY <2>1, <3>1 DEF ListedSoFar
    <3>3. QED
      BY <1>1, <3>2, BeforeIsAnOrder
  <2>4. IsInjective(listing.got)
    BY <2>2, <2>3 DEF IsInjective
  <2>5. QED
    BY <2>1, <2>4 DEF ListedSoFar
<1>10. QED
  BY <1>5, <1>6, <1>7, <1>8, <1>9 DEF KernelSeesTheTree

\* The inode table always shows the manifest held, whatever frames were applied
\* and refused; fileids, slots and listings stay those of their paths.
\* build_tree, TreeIds and replace_nodes of nfs.rs.
THEOREM ViewInvariant == MountedSpec => []ViewInv
<1>1. ViewInv /\ RequestInv /\ [MountedNext]_mountedVars => ViewInv'
  BY ViewStep DEF RequestInv
<1>2. QED
  BY <1>1, ViewInit, RequestsInvariant, PTL DEF MountedSpec

\* What the kernel was told of the tree, by lookups, listings and handles it
\* keeps across rebuilds, stays true of the manifest: for any set of paths, any
\* number of frames and files, and every page size.  nfs.rs, watch_tree.
THEOREM KernelSeesTrue == MountedSpec => []KernelSeesTheTree
<1>1. ViewInv /\ RequestInv => KernelSeesTheTree
  BY ViewMeans
<1>2. QED
  BY <1>1, ViewInvariant, RequestsInvariant, PTL
=============================================================================
