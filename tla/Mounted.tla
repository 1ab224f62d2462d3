------------------------------- MODULE Mounted --------------------------------
(***************************************************************************)
(* A mounted share between its two users: the kernel, which lists and      *)
(* reads through fileids it was handed at any earlier moment (nfs.rs,      *)
(* RemoteFs), and the watch task, which swaps the inode table under it     *)
(* (consume.rs, watch_tree).  Both ask the producer through one            *)
(* RemoteClient, whose cached connection dies and is dialled again.        *)
(*                                                                         *)
(* The producer is abstracted to the manifests its watch frames add up to  *)
(* (LiveTree.tla has where they come from) and files of one size.          *)
(***************************************************************************)
EXTENDS Inodes

CONSTANTS
    Paths,      \* the paths the share may hold, as files or as directories
    MaxSlots,   \* bound: slots of the manifest
    MaxFrames,  \* bound: watch frames
    PageSize,   \* entries the kernel asks of one READDIR
    FileSize,   \* the length of every file
    ReadSize,   \* the count of the kernel's READs
    MaxRead,    \* MAX_READ_LEN
    MaxDeaths   \* bound: connections that die

ASSUME MountedAssumption ==
    /\ Paths \subseteq Seq(Nat) /\ \A p \in Paths : Safe(p)
    /\ {MaxSlots, MaxFrames, FileSize, MaxDeaths} \subseteq Nat
    /\ {PageSize, ReadSize, MaxRead} \subseteq Nat \ {0}

Reader == 1
Watcher == 2
Users == {Reader, Watcher}

VARIABLES
    held,     \* the manifest the frames so far add up to, and the producer's
              \* index_of: which path owns each slot
    frames,   \* watch frames applied
    ids,      \* TreeIds
    nodes,    \* the shared inode table
    handles,  \* every fileid the kernel was handed, with the path it was for
    listing,  \* the kernel's READDIR loop
    reading,  \* the kernel's READ loop
    user,     \* user[u]: a request's way through the client
    cached,   \* the client's connection, 0 for none
    holder,   \* who holds the client's connection lock, 0 for nobody
    dialled,  \* connections made so far
    dead      \* those that died

treeVars == <<held, frames, ids, nodes, handles>>
kernelVars == <<listing, reading>>
clientVars == <<user, cached, holder, dialled, dead>>
mountedVars == <<treeVars, kernelVars, clientVars>>

NoRequest == [phase |-> "idle", attempt |-> 0, conn |-> 0, since |-> 0]
NoListing == [phase |-> "idle", dir |-> 0, after |-> 0, got |-> << >>, steady |-> {}]
NoReading == [phase |-> "idle", path |-> Root, index |-> 0, offset |-> 0]

LiveFiles(m) == ToSet(m.files) \ {Root}
Shown(m) == {Root} \cup UNION {Prefixes(p) : p \in LiveFiles(m) \cup ToSet(m.dirs)}

\* The path a fileid has in a build, read off the allocator.
Handed(build) ==
    {[id |-> build.ids[p], path |-> p] :
        p \in {q \in DOMAIN build.ids : build.nodes[build.ids[q]].kind # "gone"}}

Empty == [dirs |-> << >>, files |-> << >>, index_of |-> << >>]

MountedInit ==
    /\ held = Empty /\ frames = 0
    /\ ids = BuildTree(NoIds, Empty).ids
    /\ nodes = BuildTree(NoIds, Empty).nodes
    /\ handles = Handed(BuildTree(NoIds, Empty))
    /\ listing = NoListing /\ reading = NoReading
    /\ user = [u \in Users |->
                   IF u = Watcher THEN [NoRequest EXCEPT !.phase = "connecting"] ELSE NoRequest]
    /\ cached = 0 /\ holder = 0 /\ dialled = 0 /\ dead = {}

-----------------------------------------------------------------------------
(* RemoteClient.  `request` takes a connection, opens a stream on it and,   *)
(* when that fails, clears the cache and tries once more.                   *)

Moves(u, step) == user' = [user EXCEPT ![u] = step]

CachedLives == cached # 0 /\ cached \notin dead

\* connection(): the shared connection while it lives.
Reuse(u) ==
    /\ user[u].phase = "connecting" /\ holder = 0 /\ CachedLives
    /\ Moves(u, [user[u] EXCEPT !.phase = "opening", !.conn = cached])
    /\ UNCHANGED <<cached, holder, dialled, dead, treeVars, kernelVars>>

\* ... and otherwise a dial, with the lock held until it is over.
StartDial(u) ==
    /\ user[u].phase = "connecting" /\ holder = 0 /\ ~CachedLives
    /\ Moves(u, [user[u] EXCEPT !.phase = "dialing"])
    /\ holder' = u
    /\ UNCHANGED <<cached, dialled, dead, treeVars, kernelVars>>

Dialled(u) ==
    /\ user[u].phase = "dialing" /\ dialled <= MaxDeaths
    /\ dialled' = dialled + 1
    /\ cached' = dialled + 1
    /\ holder' = 0
    /\ Moves(u, [user[u] EXCEPT !.phase = "opening", !.conn = dialled + 1])
    /\ UNCHANGED <<dead, treeVars, kernelVars>>

\* Out of retries at the discovery deadline; with `webrtc_only`, the one attempt
\* failed or settled on another lane and was not kept.
DialFails(u) ==
    /\ user[u].phase = "dialing"
    /\ holder' = 0
    /\ Moves(u, [user[u] EXCEPT !.phase = "refused"])
    /\ UNCHANGED <<cached, dialled, dead, treeVars, kernelVars>>

\* open_bi and the token ‖ op header.
Open(u) ==
    /\ user[u].phase = "opening" /\ user[u].conn \notin dead
    /\ Moves(u, [user[u] EXCEPT !.phase = "asked"])
    /\ UNCHANGED <<cached, holder, dialled, dead, treeVars, kernelVars>>

\* The cache is cleared whatever it holds by now, and the second attempt redials.
OpenFails(u) ==
    /\ user[u].phase = "opening" /\ user[u].conn \in dead /\ holder = 0
    /\ cached' = 0
    /\ Moves(u, IF user[u].attempt = 1 THEN [user[u] EXCEPT !.phase = "unopened"]
                ELSE [user[u] EXCEPT !.phase = "connecting", !.attempt = 1])
    /\ UNCHANGED <<holder, dialled, dead, treeVars, kernelVars>>

\* A connection dies under whoever is on it.
Die(c) ==
    /\ c \in 1..dialled \ dead /\ Cardinality(dead) < MaxDeaths
    /\ dead' = dead \cup {c}
    /\ UNCHANGED <<user, cached, holder, dialled, treeVars, kernelVars>>

NewRequest == [NoRequest EXCEPT !.phase = "connecting", !.since = Cardinality(dead)]

-----------------------------------------------------------------------------
(* The watch task.                                                          *)

\* build_tree and replace_nodes; a manifest that fails to build leaves the tree,
\* though not the allocator, as it was.
Apply(m) ==
    LET build == BuildTree(ids, m)
    IN  /\ ids' = build.ids
        /\ nodes' = IF build.ok THEN build.nodes ELSE nodes
        /\ handles' = IF build.ok THEN handles \cup Handed(build) ELSE handles
        /\ listing' = [listing EXCEPT !.steady =
                IF DirStatus(nodes', listing.dir) # "OK" THEN {}
                ELSE @ \cap ToSet(nodes'[listing.dir].children)]

\* What one change of the served directory makes of its manifest: a slot for a
\* new file, the one it had for a file that is back, a tombstone for one that
\* went, directories by name.
Clear(m, p) == {q \in Shown(m) : IsPrefix(p, q)} = {}
                   /\ \A q \in Prefixes(p) : q \notin LiveFiles(m)
FileAdded(m, p) ==
    IF p \in ToSet(m.index_of)
    THEN [m EXCEPT !.files = [i \in DOMAIN @ |-> IF m.index_of[i] = p THEN p ELSE @[i]]]
    ELSE [m EXCEPT !.files = Append(@, p), !.index_of = Append(@, p)]
FileRemoved(m, p) == [m EXCEPT !.files = [i \in DOMAIN @ |-> IF @[i] = p THEN Root ELSE @[i]]]
DirAdded(m, p) == [m EXCEPT !.dirs = Append(@, p)]
Edited(m) ==
    {FileAdded(m, p) : p \in {q \in Paths : Clear(m, q) /\ Len(FileAdded(m, q).files) <= MaxSlots}}
        \cup {FileRemoved(m, p) : p \in LiveFiles(m)}
        \cup {DirAdded(FileRemoved(m, p), p) : p \in LiveFiles(m)}
        \cup {[m EXCEPT !.dirs = RemoveAt(@, i)] :
                 i \in {j \in DOMAIN m.dirs : \A r \in LiveFiles(m) : ~IsPrefix(m.dirs[j], r)}}

FrameArrives ==
    /\ user[Watcher].phase = "asked" /\ user[Watcher].conn \notin dead
    /\ frames < MaxFrames
    /\ \E m \in Edited(held) : held' = m /\ Apply(m)
    /\ frames' = frames + 1
    /\ UNCHANGED <<reading, clientVars>>

\* A frame whose tree cannot be built: an unsafe component, an entry twice, or
\* a file used as a directory.  The next frame is of the producer's own tree.
FileFirst(m, p) == [m EXCEPT !.files = <<p>> \o @]
Unbuildable(m) ==
    {FileFirst(m, p \o <<0>>) : p \in Paths}
        \cup UNION {{FileFirst(m, p), FileFirst(m, p \o <<1>>)} : p \in LiveFiles(m)}

BadFrameArrives ==
    /\ user[Watcher].phase = "asked" /\ user[Watcher].conn \notin dead
    /\ frames < MaxFrames
    /\ \E m \in Unbuildable(held) : Apply(m)
    /\ frames' = frames + 1
    /\ UNCHANGED <<held, reading, clientVars>>

\* The stream ends with its connection, which the task takes for the producer's
\* end of it; a request that failed is made again after RETRY_DELAY.
WatchEnds ==
    /\ user[Watcher].phase = "asked" /\ user[Watcher].conn \in dead
    /\ Moves(Watcher, [user[Watcher] EXCEPT !.phase = "ended"])
    /\ UNCHANGED <<cached, holder, dialled, dead, treeVars, kernelVars>>

WatchRetries ==
    /\ user[Watcher].phase \in {"refused", "unopened"}
    /\ Moves(Watcher, NewRequest)
    /\ UNCHANGED <<cached, holder, dialled, dead, treeVars, kernelVars>>

-----------------------------------------------------------------------------
(* The kernel, one loop at a time.                                          *)

KernelFree == listing.phase = "idle" /\ reading.phase = "idle"

StartListing ==
    /\ KernelFree
    /\ \E h \in handles :
          /\ DirStatus(nodes, h.id) = "OK"
          /\ listing' = [NoListing EXCEPT !.phase = "paging", !.dir = h.id,
                                          !.steady = ToSet(nodes[h.id].children)]
    /\ UNCHANGED <<reading, treeVars, clientVars>>

\* One READDIR, from the cookie of the last entry taken.
Page ==
    LET page == ReadDir(nodes, listing.dir, listing.after, PageSize)
    IN  /\ listing.phase = "paging"
        /\ listing' =
             IF page.status # "OK" THEN [listing EXCEPT !.phase = "refused"]
             ELSE [listing EXCEPT !.phase = IF page.end THEN "listed" ELSE "paging",
                                  !.got = @ \o page.entries,
                                  !.after = IF page.entries = << >> THEN @ ELSE Last(page.entries)]
        /\ UNCHANGED <<reading, treeVars, clientVars>>

ListingOver ==
    /\ listing.phase \in {"listed", "refused"}
    /\ listing' = NoListing
    /\ UNCHANGED <<reading, treeVars, clientVars>>

\* A READ resolves its fileid and lets go of the table before it asks.
StartReading ==
    /\ KernelFree /\ user[Reader].phase = "idle"
    /\ \E h \in handles :
          /\ ReadStatus(nodes, h.id) = "OK"
          /\ reading' = [NoReading EXCEPT !.phase = "reading", !.path = h.path,
                                          !.index = nodes[h.id].index]
    /\ Moves(Reader, NewRequest)
    /\ UNCHANGED <<listing, cached, holder, dialled, dead, treeVars>>

Least(a, b) == IF a < b THEN a ELSE b
Asked == Least(ReadSize, MaxRead)

\* Mutant: the answer is measured against what the kernel asked for.
EndOfFileByCount(got) == got < ReadSize

\* Mutant: the length of the answer is not reported.
EndOfFileUntold(got) == FALSE

\* A short answer is the end of the file, against what was asked for.
EndOfFile(got) == got < Asked

\* The answer, and the next READ of the loop: the kernel resolves the fileid anew.
Answered ==
    LET got == Least(Asked, FileSize - reading.offset)
        id == ids[reading.path]
    IN  /\ user[Reader].phase = "asked" /\ user[Reader].conn \notin dead
        /\ IF EndOfFile(got)
           THEN /\ reading' = [reading EXCEPT !.phase = "read", !.offset = @ + got]
                /\ Moves(Reader, NoRequest)
           ELSE IF ReadStatus(nodes, id) = "OK"
           THEN /\ reading' = [reading EXCEPT !.offset = @ + got, !.index = nodes[id].index]
                /\ Moves(Reader, NewRequest)
           ELSE /\ reading' = [reading EXCEPT !.phase = "failed"]
                /\ Moves(Reader, NoRequest)
        /\ UNCHANGED <<listing, cached, holder, dialled, dead, treeVars>>

\* NFS3ERR_IO: the request failed, the connection died under the answer, or the
\* producer has retired the slot since.
ReadFails ==
    /\ reading.phase = "reading"
    /\ \/ user[Reader].phase \in {"refused", "unopened"}
       \/ user[Reader].phase = "asked" /\ user[Reader].conn \in dead
       \/ user[Reader].phase = "asked" /\ held.files[reading.index] = Root
    /\ reading' = [reading EXCEPT !.phase = "failed"]
    /\ Moves(Reader, NoRequest)
    /\ UNCHANGED <<listing, cached, holder, dialled, dead, treeVars>>

ReadingOver ==
    /\ reading.phase \in {"read", "failed"}
    /\ reading' = NoReading
    /\ UNCHANGED <<listing, treeVars, clientVars>>

-----------------------------------------------------------------------------

TakesTheLock(u) == Reuse(u) \/ StartDial(u) \/ OpenFails(u)
Progresses(u) == Dialled(u) \/ DialFails(u) \/ Open(u)
WatchTask == FrameArrives \/ BadFrameArrives \/ WatchEnds \/ WatchRetries
Kernel == StartListing \/ Page \/ ListingOver \/ StartReading \/ ReadingOver
ReadCall == Answered \/ ReadFails

MountedNext ==
    \/ \E u \in Users : TakesTheLock(u) \/ Progresses(u)
    \/ \E c \in 1..dialled : Die(c)
    \/ WatchTask \/ Kernel \/ ReadCall

MountedSpec == MountedInit /\ [][MountedNext]_mountedVars

\* The connection lock is a fair queue, a dial ends at its deadline, and a peer
\* that stops answering is a connection that times out.
FairMountedSpec ==
    /\ MountedSpec
    /\ \A u \in Users : SF_mountedVars(TakesTheLock(u)) /\ WF_mountedVars(Progresses(u))
    /\ WF_mountedVars(ReadCall)

-----------------------------------------------------------------------------

\* Every variable has its type.
MountedTypeOK ==
    /\ \A p \in DOMAIN ids : ids[p] \in 1..Cardinality(DOMAIN ids)
    /\ \A h \in handles : h.id \in DOMAIN nodes
    /\ listing.phase \in {"idle", "paging", "listed", "refused"}
    /\ reading.phase \in {"idle", "reading", "read", "failed"}
    /\ \A u \in Users : user[u].phase \in {"idle", "connecting", "dialing", "opening",
                                           "asked", "unopened", "refused", "ended"}
    /\ cached \in 0..dialled /\ holder \in Users \cup {0} /\ dead \subseteq 1..dialled
    /\ \A u \in Users : user[u].phase = "dialing" <=> holder = u

\* A path walked from the root by name; 0 when some name is not there.
Walk(path) ==
    LET reached[n \in 0..Len(path)] ==
            IF n = 0 THEN ROOT_ID ELSE Lookup(nodes, reached[n - 1], path[n]).id
    IN  reached[Len(path)]

\* Walking the mount by name finds exactly the paths of the manifest, each file
\* at its own slot and each directory under the one that holds it: Unix lookups
\* over the sorted children, the retired slots and the synthesized parents.
MountShowsTheManifest ==
    /\ \A p \in Shown(held) :
          LET id == Walk(p)
          IN  IF p \in LiveFiles(held)
              THEN ReadStatus(nodes, id) = "OK" /\ held.files[nodes[id].index] = p
              ELSE /\ DirStatus(nodes, id) = "OK"
                   /\ p # Root => nodes[id].parent = Walk(Parent(p))
    /\ Cardinality({id \in DOMAIN nodes : nodes[id].kind # "gone"}) = Cardinality(Shown(held))

\* A fileid the kernel kept from any earlier tree still names the path it was
\* handed out for, or nothing: no rebuild gives a path another one's number, and
\* a path that comes back has the number it had (TreeIds).
HandlesNameOnePath ==
    \A h \in handles, p \in Shown(held) : h.id = Walk(p) <=> h.path = p

\* The slot a READ carries across the network is still its own path's, or
\* retired, whatever frames landed since it was resolved.
ReadsAskForTheirFile ==
    reading.phase = "reading" => held.files[reading.index] \in {reading.path, Root}

\* A listing paged across rebuilds names no entry twice, and every entry that
\* was there throughout, even as its siblings came and went between two pages.
ListingsAreComplete ==
    listing.phase = "listed" =>
        /\ IsInjective(listing.got)
        /\ listing.steady \subseteq ToSet(listing.got)

\* A reading loop told it reached the end has read the whole file: a READ longer
\* than the cap, or ending exactly at the file's, is not taken for the last one.
ReadsReachTheEnd ==
    reading.phase = "read" => reading.offset = FileSize

\* A request gives up on opening a stream only when two connections died under
\* it: one drop, whoever notices it first, is ridden out.
OneDropIsRiddenOut ==
    \A u \in Users :
        user[u].phase = "unopened" => Cardinality(dead) >= user[u].since + 2

\* A READ comes back to the kernel, with bytes or with an error, even as the
\* watch task dials behind the same lock.
ReadsComeBack == [](reading.phase = "reading" => <>(reading.phase # "reading"))

\* What the kernel was told of the tree, by lookups, listings and handles it
\* keeps across rebuilds, stays true of the manifest.
KernelSeesTheTree ==
    /\ MountedTypeOK /\ MountShowsTheManifest /\ HandlesNameOnePath
    /\ ReadsAskForTheirFile /\ ListingsAreComplete

\* A reading program gets the whole file, through the loss of one connection.
ReadsAreCarriedThrough == ReadsReachTheEnd /\ OneDropIsRiddenOut
===============================================================================
