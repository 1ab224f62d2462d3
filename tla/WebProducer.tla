----------------------------- MODULE WebProducer ------------------------------
(***************************************************************************)
(* A share produced by a browser tab: the rescan loop of lib/produce.ts    *)
(* over agent-share-wasm-client's ShareProducer (produce.rs, live_state.rs)*)
(* and the requests peers make of it, each an async task that lets go of   *)
(* the tab at every await.                                                 *)
(*                                                                         *)
(* A file's content is a number; Chunks[c] is its row of chunk values, an  *)
(* address is the value it addresses and a row its own root.  A size is a  *)
(* number of chunks.                                                       *)
(***************************************************************************)
EXTENDS Naturals, SequencesExt

CONSTANTS
    Paths,        \* the paths the picked folder may hold
    Chunks,       \* the chunk row of every content
    Picked,       \* bound: the files the folder holds when it is picked
    Tasks,        \* the requests in flight at once
    Watchers,     \* the consumers that may subscribe
    MaxManifest,  \* MAX_MANIFEST_BYTES, in slots
    MaxEdits,     \* bound: changes on disk
    MaxAsks       \* bound: requests

ASSUME WebProducerAssumption ==
    /\ Paths \subseteq Nat \ {0}
    /\ 0 \notin DOMAIN Chunks
    /\ \A c \in DOMAIN Chunks : Chunks[c] \in Seq(Nat \ {0}) /\ Chunks[c] # << >>
    /\ IsFiniteSet(Picked) /\ Picked \subseteq Paths /\ Picked # {}
    /\ Cardinality(Picked) <= MaxManifest
    /\ {MaxManifest, MaxEdits, MaxAsks} \subseteq Nat

VARIABLES
    disk,     \* disk[p]: [content, mtime], content 0 when there is no such file
    edits,
    live,     \* whether the share reads through directory handles or pinned Files
    scan,     \* the rescan under way: [phase, left, at, found], and whether the
              \* folder has held still since it began
    tree,     \* LiveState: [files, slots, index_of, version]
    envelope, \* the sealed tree: [version, files]
    sealed,   \* every envelope ever signed
    feeds,    \* feeds[w]: the last frame sent to a watcher, NoFrame before it subscribes
    rows,     \* ChunkTable.rows, as a function of the slots that have one
    byRoot,   \* ChunkTable.slot_of_root
    byChunk,  \* ChunkTable.slot_of_address
    task,     \* task[t]: a request
    asks,
    stopped

diskVars == <<disk, edits>>
treeVars == <<tree, envelope, sealed, feeds>>
tableVars == <<rows, byRoot, byChunk>>
vars == <<diskVars, live, scan, treeVars, tableVars, task, asks, stopped>>

Tombstone == [path |-> 0, size |-> 0, mtime |-> 0]
Absent == [content |-> 0, mtime |-> 0]
NoFrame == [version |-> 0, files |-> << >>]
Resting == [phase |-> "sleeping", left |-> {}, at |-> 0, found |-> << >>, quiet |-> TRUE]
NoTask == [op |-> "none", phase |-> "done", index |-> 0, source |-> Absent, path |-> 0,
           want |-> << >>, address |-> 0, position |-> 0, size |-> 0, built |-> << >>,
           answer |-> << >>]

OnDisk(d) == {p \in Paths : d[p].content # 0}
Entry(p, file) == [path |-> p, size |-> Len(Chunks[file.content]), mtime |-> file.mtime]
Envelope(t) == [version |-> t.version, files |-> t.files]

-----------------------------------------------------------------------------
(* LiveState.  A listing is the sequence of [path, entry, file] a scan found; *)
(* what a slot reads through to is the path, and the file as it was picked.   *)

\* Every scan finds the files of a folder in one order, and so does the first.
Ordered(paths) == \A i, j \in DOMAIN paths : i < j => paths[i] < paths[j]

ListingOf(d, paths) ==
    [i \in DOMAIN paths |-> [entry |-> Entry(paths[i], d[paths[i]]), file |-> d[paths[i]]]]

NewState(listing) ==
    [files |-> [i \in DOMAIN listing |-> listing[i].entry],
     slots |-> [i \in DOMAIN listing |-> listing[i].file],
     index_of |-> [i \in DOMAIN listing |-> listing[i].entry.path],
     version |-> 1]

SlotsOf(t, path) == {i \in DOMAIN t.index_of : t.index_of[i] = path}

SlotOf(t, path) == IF SlotsOf(t, path) = {} THEN 0 ELSE CHOOSE i \in SlotsOf(t, path) : TRUE

\* Mutant: a file that is listed already is taken to be unchanged.
FoldNewOnly(t, found) ==
    IF SlotOf(t, found.entry.path) # 0 THEN t
    ELSE [t EXCEPT !.files = Append(@, found.entry), !.slots = Append(@, found.file),
                   !.index_of = Append(@, found.entry.path)]

\* apply, one listed file: its own slot if the path ever had one.
Fold(t, found) ==
    LET i == SlotOf(t, found.entry.path)
    IN  IF i = 0
        THEN [t EXCEPT !.files = Append(@, found.entry), !.slots = Append(@, found.file),
                       !.index_of = Append(@, found.entry.path)]
        ELSE IF t.files[i] = found.entry THEN t
        ELSE [t EXCEPT !.files[i] = found.entry, !.slots[i] = found.file]

Folded(t, listing) ==
    LET upto[n \in 0..Len(listing)] == IF n = 0 THEN t ELSE Fold(upto[n - 1], listing[n])
    IN  upto[Len(listing)]

\* ... then a tombstone for every slot that was not listed.
Retire(t, listing) ==
    LET here == {listing[i].entry.path : i \in DOMAIN listing}
        gone == {i \in DOMAIN t.files : t.index_of[i] \notin here}
    IN  [t EXCEPT !.files = [i \in DOMAIN @ |-> IF i \in gone THEN Tombstone ELSE @[i]],
                  !.slots = [i \in DOMAIN @ |-> IF i \in gone THEN Absent ELSE @[i]]]

Applied(t, listing) ==
    LET next == Retire(Folded(t, listing), listing)
    IN  IF next.files = t.files THEN t ELSE [next EXCEPT !.version = @ + 1]

-----------------------------------------------------------------------------
(* ChunkTable.                                                              *)

WithoutKeys(f, keys) == [k \in DOMAIN f \ keys |-> f[k]]

With(f, k, v) == [x \in DOMAIN f \cup {k} |-> IF x = k THEN v ELSE f[x]]

Forget(table, i) ==
    IF i \notin DOMAIN table.rows THEN table
    ELSE [rows |-> WithoutKeys(table.rows, {i}),
          byRoot |-> WithoutKeys(table.byRoot, {table.rows[i]}),
          byChunk |-> WithoutKeys(table.byChunk,
              {a \in DOMAIN table.byChunk :
                  a \in ToSet(table.rows[i]) /\ table.byChunk[a].slot = i})]

\* Whoever claimed an address first keeps it.
Claims(claimed, i, row) ==
    [a \in DOMAIN claimed \cup ToSet(row) |->
        IF a \in DOMAIN claimed THEN claimed[a]
        ELSE [slot |-> i, at |-> Min({k \in DOMAIN row : row[k] = a})]]

\* Mutant: the row that was there is overwritten, and its addresses stay.
InsertOver(table, i, row) ==
    [rows |-> With(table.rows, i, row),
     byRoot |-> With(table.byRoot, row, i),
     byChunk |-> Claims(table.byChunk, i, row)]

Insert(table, i, row) ==
    LET cleared == Forget(table, i)
    IN  [rows |-> With(cleared.rows, i, row),
         byRoot |-> With(cleared.byRoot, row, i),
         byChunk |-> Claims(cleared.byChunk, i, row)]

Table == [rows |-> rows, byRoot |-> byRoot, byChunk |-> byChunk]
SetTable(table) == rows' = table.rows /\ byRoot' = table.byRoot /\ byChunk' = table.byChunk

-----------------------------------------------------------------------------

\* startProducer: a first scan that fits the cap, sealed as version 1.
Init ==
    /\ disk \in [Paths -> {Absent} \cup {[content |-> c, mtime |-> 1] : c \in DOMAIN Chunks}]
    /\ OnDisk(disk) = Picked
    /\ edits = 0 /\ asks = 0 /\ stopped = FALSE
    /\ live \in BOOLEAN
    /\ scan = Resting
    /\ \E paths \in SetToSeqs(Picked) : Ordered(paths) /\ tree = NewState(ListingOf(disk, paths))
    /\ envelope = Envelope(tree)
    /\ sealed = {envelope}
    /\ feeds = [w \in Watchers |-> NoFrame]
    /\ rows = << >> /\ byRoot = << >> /\ byChunk = << >>
    /\ task = [t \in Tasks |-> NoTask]

\* The user edits, adds or removes a file; its modification time moves on or,
\* within the second, does not.
Edit ==
    /\ edits < MaxEdits /\ ~stopped
    /\ edits' = edits + 1
    /\ \E p \in Paths, c \in DOMAIN Chunks \cup {0}, m \in {1, 2} :
          /\ c # disk[p].content /\ (m >= disk[p].mtime \/ c = 0)
          /\ disk' = [disk EXCEPT ![p] = IF c = 0 THEN Absent ELSE [content |-> c, mtime |-> m]]
    /\ scan' = [scan EXCEPT !.quiet = scan.phase = "sleeping"]
    /\ UNCHANGED <<live, treeVars, tableVars, task, asks, stopped>>

-----------------------------------------------------------------------------
(* The rescan loop: POLL_MS of sleep, a walk, an update.                    *)

StartScan ==
    /\ live /\ ~stopped /\ scan.phase = "sleeping"
    /\ scan' = [Resting EXCEPT !.phase = "walking", !.left = Paths]
    /\ UNCHANGED <<diskVars, live, treeVars, tableVars, task, asks, stopped>>

\* scanDirectory awaits every entry, and the file behind each.
Walk ==
    /\ scan.phase = "walking" /\ scan.left # {}
    /\ LET p == Min(scan.left)
       IN  scan' = [scan EXCEPT !.left = @ \ {p},
                               !.phase = IF p \in OnDisk(disk) THEN "opening" ELSE @,
                               !.at = p]
    /\ UNCHANGED <<diskVars, live, treeVars, tableVars, task, asks, stopped>>

\* getFile, of an entry that may have gone since: then the whole rescan fails.
GetFile ==
    /\ scan.phase = "opening"
    /\ LET p == scan.at
       IN  scan' = IF p \in OnDisk(disk)
                   THEN [scan EXCEPT !.phase = "walking",
                             !.found = Append(@, [entry |-> Entry(p, disk[p]), file |-> disk[p]])]
                   ELSE Resting
    /\ UNCHANGED <<diskVars, live, treeVars, tableVars, task, asks, stopped>>

Subscribed(w) == feeds[w] # NoFrame
SendToAll(e) ==
    feeds' = [w \in Watchers |-> IF Subscribed(w) THEN e ELSE feeds[w]]

\* Mutant: watchers are told before the tree is sealed again.
PublishUnsealed(next) ==
    /\ tree' = next
    /\ envelope' = Envelope(next)
    /\ sealed' = sealed \cup {Envelope(next)}
    /\ SendToAll(envelope)

\* The tree, its seal and the frame to every watcher.
Publish(next) ==
    /\ tree' = next
    /\ envelope' = Envelope(next)
    /\ sealed' = sealed \cup {Envelope(next)}
    /\ SendToAll(Envelope(next))

\* Mutant: sealed first, and put back when it turns out too large.
UpdateSealingFirst ==
    /\ scan.phase = "walking" /\ scan.left = {}
    /\ scan' = Resting
    /\ LET next == Applied(tree, scan.found)
       IN  IF stopped \/ next = tree THEN UNCHANGED treeVars
           ELSE IF Len(next.files) > MaxManifest
           THEN sealed' = sealed \cup {Envelope(next)} /\ UNCHANGED <<tree, envelope, feeds>>
           ELSE Publish(next)
    /\ UNCHANGED <<diskVars, live, tableVars, task, asks, stopped>>

\* ShareProducer::update: nothing changed, too large to serve (and put back), or
\* published.  It never suspends.
Update ==
    /\ scan.phase = "walking" /\ scan.left = {}
    /\ scan' = Resting
    /\ LET next == Applied(tree, scan.found)
       IN  IF stopped \/ next = tree \/ Len(next.files) > MaxManifest
           THEN UNCHANGED treeVars
           ELSE Publish(next)
    /\ UNCHANGED <<diskVars, live, tableVars, task, asks, stopped>>

\* subscribe: the opening frame is of the tree the registration joins.
Subscribe(w) ==
    /\ ~stopped /\ ~Subscribed(w)
    /\ feeds' = [feeds EXCEPT ![w] = envelope]
    /\ UNCHANGED <<diskVars, live, scan, tree, envelope, sealed, tableVars, task, asks, stopped>>

\* Leaving the mesh drops the accept loop and the endpoint's connections, and so
\* every request on them; the latch makes a second call nothing.
Stop ==
    /\ ~stopped
    /\ stopped' = TRUE
    /\ task' = [t \in Tasks |-> NoTask]
    /\ UNCHANGED <<diskVars, live, scan, treeVars, tableVars, asks>>

-----------------------------------------------------------------------------
(* Requests.                                                                *)

Now(t, step) == task' = [task EXCEPT ![t] = step]

\* The request is over; what a chunk was answered with is kept to be judged.
Answer(t, answer) ==
    Now(t, IF task[t].op = "chunk"
           THEN [NoTask EXCEPT !.op = "chunk", !.address = task[t].address, !.answer = answer]
           ELSE NoTask)

\* A handle opens the file as it is, a picked File only while it has not moved.
Unreadable(source, path) == disk[path].content = 0 \/ (~live /\ disk[path] # source)

\* The bytes behind a source now; << >> when the read fails or is past the end.
Bytes(source, path, position) ==
    LET row == IF Unreadable(source, path) THEN << >> ELSE Chunks[disk[path].content]
    IN  IF position \in DOMAIN row THEN <<row[position]>> ELSE << >>

Asking(t) == ~stopped /\ task[t].phase = "done" /\ asks < MaxAsks /\ asks' = asks + 1
Behind(i) == [NoTask EXCEPT !.index = i, !.path = tree.index_of[i], !.source = tree.slots[i]]
Held(i) == i \in DOMAIN tree.slots /\ tree.slots[i] # Absent

\* OP_READ of one chunk's range: the slot's source is taken before the first await.
AskRead(t) ==
    /\ Asking(t)
    /\ \E i \in DOMAIN tree.slots :
          /\ Held(i)
          /\ Now(t, [Behind(i) EXCEPT !.op = "read", !.phase = "reading", !.position = 1])
    /\ UNCHANGED <<diskVars, live, scan, treeVars, tableVars, stopped>>

\* A failed read through a handle is tried again through the slot as it is now; a
\* read past the end of a file that shrank is an empty answer.
Read(t) ==
    /\ task[t].phase \in {"reading", "rereading"}
    /\ LET got == Bytes(task[t].source, task[t].path, task[t].position)
           i == task[t].index
           failed == Unreadable(task[t].source, task[t].path)
       IN  IF ~failed \/ ~live \/ task[t].phase = "rereading" \/ ~Held(i)
           THEN Answer(t, got)
           ELSE Now(t, [task[t] EXCEPT !.phase = "rereading", !.source = tree.slots[i]])
    /\ UNCHANGED <<diskVars, live, scan, treeVars, tableVars, asks, stopped>>

\* OP_CHUNK_MAP, and OP_HAVE of a root some row has.
AskMap(t) ==
    /\ Asking(t)
    /\ \E i \in DOMAIN tree.slots :
          /\ Held(i)
          /\ \/ Now(t, [Behind(i) EXCEPT !.op = "map", !.phase = "sizing"])
             \/ \E r \in DOMAIN byRoot :
                   /\ byRoot[r] = i
                   /\ Now(t, [Behind(i) EXCEPT !.op = "have", !.phase = "sizing", !.want = r])
    /\ UNCHANGED <<diskVars, live, scan, treeVars, tableVars, stopped>>

Describe(t, row) ==
    IF task[t].op = "have" /\ row # task[t].want THEN << >> ELSE row

\* The live size is the gate on a row already there.
Size(t) ==
    /\ task[t].phase = "sizing"
    /\ LET p == task[t].path
           i == task[t].index
           size == IF live THEN IF disk[p].content = 0 THEN 0 ELSE Len(Chunks[disk[p].content])
                   ELSE Len(Chunks[task[t].source.content])
       IN  IF size = 0 THEN Answer(t, << >>)
           ELSE IF i \in DOMAIN rows /\ Len(rows[i]) = size THEN Answer(t, Describe(t, rows[i]))
           ELSE Now(t, [task[t] EXCEPT !.phase = "building", !.size = size])
    /\ UNCHANGED <<diskVars, live, scan, treeVars, tableVars, asks, stopped>>

\* One piece of the row, and at the last one the row itself.
Build(t) ==
    /\ task[t].phase = "building"
    /\ LET piece == Bytes(task[t].source, task[t].path, Len(task[t].built) + 1)
           row == task[t].built \o piece
       IN  IF piece = << >> THEN Answer(t, << >>) /\ UNCHANGED tableVars
           ELSE IF Len(row) < task[t].size
           THEN Now(t, [task[t] EXCEPT !.built = row]) /\ UNCHANGED tableVars
           ELSE SetTable(Insert(Table, task[t].index, row)) /\ Answer(t, Describe(t, row))
    /\ UNCHANGED <<diskVars, live, scan, treeVars, asks, stopped>>

\* OP_CHUNK: an address, the slot and the place in it that the table has for it.
AskChunk(t) ==
    /\ Asking(t)
    /\ \E a \in DOMAIN byChunk :
          /\ Held(byChunk[a].slot)
          /\ Now(t, [Behind(byChunk[a].slot) EXCEPT
                        !.op = "chunk", !.phase = "fetching", !.address = a,
                        !.position = byChunk[a].at])
    /\ UNCHANGED <<diskVars, live, scan, treeVars, tableVars, stopped>>

\* The bytes are checked against the address; a mismatch, the bytes past the end
\* of a file that shrank among them, forgets the slot's row.
Fetch(t) ==
    /\ task[t].phase = "fetching"
    /\ LET got == Bytes(task[t].source, task[t].path, task[t].position)
           failed == Unreadable(task[t].source, task[t].path)
       IN  IF failed \/ got = <<task[t].address>>
           THEN Answer(t, got) /\ UNCHANGED tableVars
           ELSE Answer(t, << >>) /\ SetTable(Forget(Table, task[t].index))
    /\ UNCHANGED <<diskVars, live, scan, treeVars, asks, stopped>>

-----------------------------------------------------------------------------

Rescan == StartScan \/ Walk \/ GetFile \/ Update
Request(t) == AskRead(t) \/ AskMap(t) \/ AskChunk(t)
Serve(t) == Read(t) \/ Size(t) \/ Build(t) \/ Fetch(t)

Next ==
    \/ Edit \/ Rescan \/ Stop
    \/ \E w \in Watchers : Subscribe(w)
    \/ \E t \in Tasks : Request(t) \/ Serve(t)

Spec == Init /\ [][Next]_vars

-----------------------------------------------------------------------------

\* Every variable has its type, and a slot its entry, its source and its path.
WebProducerTypeOK ==
    /\ Len(tree.files) = Len(tree.slots) /\ Len(tree.files) = Len(tree.index_of)
    /\ \A i \in DOMAIN tree.files : tree.files[i] = Tombstone <=> tree.slots[i] = Absent
    /\ \A i \in DOMAIN tree.files : tree.files[i].path \in {0, tree.index_of[i]}
    /\ DOMAIN rows \subseteq DOMAIN tree.files
    /\ scan.phase \in {"sleeping", "walking", "opening"} /\ scan.left \subseteq Paths

\* One version is one tree, for good: what the creator's key signed under a
\* number is never signed again over other bytes, a rescan put back for its size
\* included.  A consumer takes the signature of a version as the tree's name.
OneTreePerVersion ==
    \A a, b \in sealed : a.version = b.version => a = b

\* In whatever versions were signed, a slot names one path.
SlotsNameOnePath ==
    \A a, b \in sealed : \A i \in DOMAIN a.files \cap DOMAIN b.files :
        0 \in {a.files[i].path, b.files[i].path} \/ a.files[i].path = b.files[i].path

\* The last frame a watcher was sent is the tree being served: a subscription
\* racing an update misses nothing and is told nothing older.
WatchersHoldTheLatest ==
    \A w \in Watchers : Subscribed(w) => feeds[w] = envelope

\* The three indices of the chunk table agree: an address leads to a place in a
\* row that has it, and a root to its own row, however rows were rebuilt and
\* forgotten by requests that overlap.  producer_chunk takes the range of that
\* place without asking again.
TableIsCoherent ==
    /\ \A a \in DOMAIN byChunk :
          LET c == byChunk[a]
          IN  c.slot \in DOMAIN rows /\ c.at \in DOMAIN rows[c.slot] /\ rows[c.slot][c.at] = a
    /\ \A r \in DOMAIN byRoot : byRoot[r] \in DOMAIN rows /\ rows[byRoot[r]] = r

\* The bytes sent for an address are the ones it addresses, whatever the user
\* made of the file between the row and the read.
ChunksMatchTheirAddress ==
    \A t \in Tasks :
        task[t].op = "chunk" /\ task[t].phase = "done" =>
            task[t].answer \in {<< >>, <<task[t].address>>}

Published(d) == {Entry(p, d[p]) : p \in OnDisk(d)}
Listed == ToSet(tree.files) \ {Tombstone}

\* A rescan of a folder that held still meanwhile leaves the share listing what
\* is in it, unless what it would list no longer fits the cap.
QuietScansPublish ==
    [][scan.phase = "walking" /\ scan.left = {} /\ scan.quiet /\ ~stopped
          /\ scan' = Resting =>
          \/ Listed' = Published(disk)
          \/ Cardinality(ToSet(tree.index_of) \cup OnDisk(disk)) > MaxManifest]_vars

\* What the creator's key vouched for never contradicts itself.
SignedTreesAgree == OneTreePerVersion /\ SlotsNameOnePath

\* The chunk table leads to the bytes an address names, or to nothing.
ChunksAreTrue == WebProducerTypeOK /\ TableIsCoherent /\ ChunksMatchTheirAddress
===============================================================================
