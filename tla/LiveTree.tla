------------------------------ MODULE LiveTree ------------------------------
(***************************************************************************)
(* The producer's live tree: agent-share/src/mount/live.rs.                *)
(*                                                                         *)
(* A watcher task rescans the served directory after it has changed,       *)
(* folds the scan into the tree under the write lock (`Apply`), and only   *)
(* then broadcasts the frame (`Send`).  Slots are READ indices: a peer     *)
(* that resolved an index must never read another file through it.         *)
(***************************************************************************)
EXTENDS Manifest

CONSTANTS
    HistoryBudget,   \* DELTA_HISTORY_BYTES, in entries
    MaxDelta,        \* MAX_DELTA_BYTES, in entries
    MaxManifest,     \* MAX_MANIFEST_BYTES, in entries
    MaxTouches,      \* bound: changes made to the disk
    MaxScanFailures  \* bound: rescans that fail

ASSUME BudgetAssumption ==
    /\ HistoryBudget \in Nat /\ MaxDelta \in Nat /\ MaxManifest \in Nat
    /\ MaxTouches \in Nat /\ MaxScanFailures \in Nat

VARIABLES
    disk,      \* what is under the served root: path -> stamp, 0 when absent
    touches,   \* how often the disk has changed
    failures,  \* how many rescans have failed
    watching,  \* the notify watcher is installed
    pending,   \* an event waits in the watcher's channel
    task,      \* the watcher task: "waiting", "settled", "scanned", "sending"
    scanned,   \* the disk as the last scan saw it
    tree,      \* dirs and files of TreeState
    served,    \* TreeState.served: the path READ opens, 0 for None
    index_of,  \* TreeState.index_of: path -> slot, 0 for a path never listed
    version,   \* TreeState.version
    history,   \* TreeState.history
    frames,    \* the frame each apply returned, oldest first
    sent,      \* how many of them have been broadcast
    log        \* history variable: the manifest published at each version

diskVars == <<disk, touches>>
taskVars == <<failures, watching, pending, task, scanned>>
treeVars == <<tree, served, index_of, version, history, log>>
vars == <<disk, touches, failures, watching, pending, task, scanned,
          tree, served, index_of, version, history, frames, sent, log>>

Disk == [dirs : [DirPaths -> Stamps \cup {0}], files : [FilePaths -> Stamps \cup {0}]]

NoScan == [dirs |-> [p \in DirPaths |-> 0], files |-> [p \in FilePaths |-> 0]]

\* The one listing of a set of paths a scan produces: children sorted by name.
Listings(paths) ==
    {s \in [1..Cardinality(paths) -> paths] :
        /\ \A i, j \in DOMAIN s : i < j => s[i] < s[j]
        /\ paths = {s[i] : i \in DOMAIN s}}

PresentDirs(d) == {p \in DirPaths : d.dirs[p] # 0}
PresentFiles(d) == {p \in FilePaths : d.files[p] # 0}

\* The scan's entries for a listing of paths.
Entries(stamps, listing) ==
    [i \in DOMAIN listing |-> [path |-> listing[i], stamp |-> stamps[listing[i]]]]

-----------------------------------------------------------------------------

ManifestSize(m) == Len(m.dirs) + Len(m.files)

\* scan() at startup, refused past the cap, then LiveTree::authored.  The watcher is installed
\* afterwards (open_tree), so a change made in between raises no event.
Init ==
    /\ disk \in Disk
    /\ touches = 0 /\ failures = 0
    /\ watching = FALSE /\ pending = FALSE
    /\ task = "waiting" /\ scanned = NoScan
    /\ \E ds \in Listings(PresentDirs(disk)), fs \in Listings(PresentFiles(disk)) :
        /\ tree = [dirs |-> Entries(disk.dirs, ds), files |-> Entries(disk.files, fs)]
        /\ served = fs
        /\ index_of = [p \in FilePaths |->
                         IF p \in PresentFiles(disk)
                         THEN CHOOSE i \in DOMAIN fs : fs[i] = p ELSE 0]
    /\ ManifestSize(tree) <= MaxManifest
    /\ version = 1
    /\ history = << >>
    /\ frames = << >> /\ sent = 0
    /\ log = <<tree>>

\* The user edits, adds or deletes one path.
Touch ==
    /\ touches < MaxTouches
    /\ touches' = touches + 1
    /\ \/ \E p \in DirPaths, s \in Stamps \cup {0} :
            disk.dirs[p] # s /\ disk' = [disk EXCEPT !.dirs[p] = s]
       \/ \E p \in FilePaths, s \in Stamps \cup {0} :
            disk.files[p] # s /\ disk' = [disk EXCEPT !.files[p] = s]
    /\ pending' = watching
    /\ UNCHANGED <<failures, watching, task, scanned, treeVars, frames, sent>>

StartWatcher ==
    /\ ~watching
    /\ watching' = TRUE
    /\ UNCHANGED <<diskVars, failures, pending, task, scanned, treeVars, frames, sent>>

\* recv() returns, and the debounce loop drains what arrived while it slept.
Settle ==
    /\ task \in {"waiting", "settled"} /\ pending
    /\ pending' = FALSE
    /\ task' = "settled"
    /\ UNCHANGED <<diskVars, failures, watching, scanned, treeVars, frames, sent>>

\* scan() runs off the runtime, after the last try_recv: an event may be
\* pending again by the time it reads the disk.
Scan ==
    /\ task = "settled"
    /\ scanned' = disk
    /\ task' = "scanned"
    /\ UNCHANGED <<diskVars, failures, watching, pending, treeVars, frames, sent>>

\* "rescan failed; serving the previous tree": the event is spent.
ScanFails ==
    /\ task = "settled"
    /\ failures < MaxScanFailures
    /\ failures' = failures + 1
    /\ task' = "waiting"
    /\ UNCHANGED <<diskVars, watching, pending, scanned, treeVars, frames, sent>>

-----------------------------------------------------------------------------

\* Mutant: the slot of a path that is gone is forgotten, so it gets another one
\* if it comes back.
NewIndexOfForgetting(fresh) ==
    [p \in FilePaths |->
        IF \E j \in DOMAIN fresh : fresh[j] = p
        THEN Len(tree.files) + CHOOSE j \in DOMAIN fresh : fresh[j] = p
        ELSE IF p \in PresentFiles(scanned) THEN index_of[p] ELSE 0]

\* Slots after a scan: a path keeps the one it ever had, a new path is
\* appended in scan order.
NewIndexOf(fresh) ==
    [p \in FilePaths |->
        IF \E j \in DOMAIN fresh : fresh[j] = p
        THEN Len(tree.files) + CHOOSE j \in DOMAIN fresh : fresh[j] = p
        ELSE index_of[p]]

\* The file table after a scan: each slot holds its own path's entry, or a
\* tombstone when that path is gone.
NewFiles(d, slots, size) ==
    [i \in 1..size |->
        IF \E p \in PresentFiles(d) : slots[p] = i
        THEN LET p == CHOOSE p \in PresentFiles(d) : slots[p] = i
             IN  [path |-> p, stamp |-> d.files[p]]
        ELSE Tombstone]

\* Mutant: a file that came back under its old slot is not upserted.
DeltaBetweenNoRevival(old, new) ==
    [dirs_upserted  |-> Only(new.dirs, EntriesOf(new.dirs) \ EntriesOf(old.dirs)),
     dirs_removed   |-> PathsOf(old.dirs) \ PathsOf(new.dirs),
     files_upserted |-> [i \in {i \in DOMAIN new.files :
                                  /\ new.files[i] # Tombstone
                                  /\ i \in DOMAIN old.files =>
                                        old.files[i] \notin {new.files[i], Tombstone}}
                           |-> new.files[i]],
     files_removed  |-> {i \in DOMAIN old.files :
                           old.files[i] # Tombstone /\ new.files[i] = Tombstone}]

\* The difference `apply` accumulates while it folds a scan in.
DeltaBetween(old, new) ==
    [dirs_upserted  |-> Only(new.dirs, EntriesOf(new.dirs) \ EntriesOf(old.dirs)),
     dirs_removed   |-> PathsOf(old.dirs) \ PathsOf(new.dirs),
     files_upserted |-> [i \in {i \in DOMAIN new.files :
                                  /\ new.files[i] # Tombstone
                                  /\ i \in DOMAIN old.files => old.files[i] # new.files[i]}
                           |-> new.files[i]],
     files_removed  |-> {i \in DOMAIN old.files :
                           old.files[i] # Tombstone /\ new.files[i] = Tombstone}]

HistorySize(h) ==
    LET total[i \in 0..Len(h)] == IF i = 0 THEN 0 ELSE total[i - 1] + DeltaSize(h[i].delta)
    IN  total[Len(h)]

\* TreeState::remember: push, then drop the oldest until the rest fit.
Remember(h, entry, k) ==
    LET all == Append(h, entry)
    IN  /\ k \in 1..Len(all) + 1
        /\ HistorySize(SubSeq(all, k, Len(all))) <= HistoryBudget
        /\ k > 1 => HistorySize(SubSeq(all, k - 1, Len(all))) > HistoryBudget
        /\ history' = SubSeq(all, k, Len(all))

ManifestFrame(signed) == [kind |-> "manifest", signed |-> signed]
DeltaFrame(v, signature, d) ==
    [kind |-> "delta", version |-> v, signature |-> signature, delta |-> d]

\* Mutant: the table READ opens is not grown with the listing.
NewServedNotGrown(delta, size) ==
    [i \in DOMAIN served |->
        IF i \in delta.files_removed THEN 0
        ELSE IF i \in DOMAIN delta.files_upserted THEN delta.files_upserted[i].path
        ELSE served[i]]

\* READ opens what the last upsert of a slot named, and nothing once it is gone.
NewServed(delta, size) ==
    [i \in 1..size |->
        IF i \in delta.files_removed THEN 0
        ELSE IF i \in DOMAIN delta.files_upserted THEN delta.files_upserted[i].path
        ELSE served[i]]

\* LiveTree::apply, under the write lock.
Apply ==
    /\ task = "scanned"
    /\ \E ds \in Listings(PresentDirs(scanned)),
          fresh \in Listings({p \in PresentFiles(scanned) : index_of[p] = 0}) :
        LET slots == NewIndexOf(fresh)
            size == Len(tree.files) + Len(fresh)
            new == [dirs  |-> Entries(scanned.dirs, ds),
                    files |-> NewFiles(scanned, slots, size)]
            delta == DeltaBetween(tree, new)
        IN  IF IsEmptyDelta(delta)
            THEN task' = "waiting" /\ UNCHANGED <<treeVars, frames>>
            ELSE /\ tree' = new
                 /\ served' = NewServed(delta, size)
                 /\ index_of' = slots
                 /\ version' = version + 1
                 /\ log' = Append(log, new)
                 /\ IF DeltaSize(delta) <= MaxDelta
                    THEN /\ frames' = Append(frames,
                               DeltaFrame(version + 1, Sign(version + 1, new), delta))
                         /\ \E k \in 1..Len(history) + 2 :
                               Remember(history, [version |-> version + 1, delta |-> delta], k)
                    ELSE /\ frames' = Append(frames, ManifestFrame(Seal(version + 1, new)))
                         /\ history' = << >>
                 /\ task' = "sending"
    /\ scanned' = NoScan
    /\ UNCHANGED <<diskVars, failures, watching, pending, sent>>

\* Mutant: events that arrived while the scan was being published are drained
\* with it.
SendAndDrain ==
    /\ task = "sending"
    /\ sent' = Len(frames)
    /\ task' = "waiting"
    /\ pending' = FALSE
    /\ UNCHANGED <<diskVars, failures, watching, scanned, treeVars, frames>>

\* updates.send(frame), after the lock is released.
Send ==
    /\ task = "sending"
    /\ sent' = Len(frames)
    /\ task' = "waiting"
    /\ UNCHANGED <<diskVars, failures, watching, pending, scanned, treeVars, frames>>

-----------------------------------------------------------------------------

\* manifest_envelope(), what OP_MANIFEST and every opening frame carry.
Envelope == Seal(version, tree)

\* deltas_since: the chain from `since` to the current version, if every link
\* of it is still remembered.
Links(since) == Only(history, {e \in EntriesOf(history) : e.version > since})
CanAnswer(since) ==
    /\ since <= version
    /\ Len(Links(since)) = version - since
    /\ \A i \in DOMAIN Links(since) : Links(since)[i].version = since + i
DeltasSince(since) ==
    [version |-> version,
     signature |-> Sign(version, tree),
     deltas |-> [i \in DOMAIN Links(since) |-> Links(since)[i].delta]]

-----------------------------------------------------------------------------

Next == Touch \/ StartWatcher \/ Settle \/ Scan \/ ScanFails \/ Apply \/ Send

Spec == Init /\ [][Next]_vars

\* The watcher task is spawned on the runtime and never cancelled: every step
\* of it that stays possible is taken.  Touches and failures are not owed.
Fairness ==
    /\ WF_vars(StartWatcher) /\ WF_vars(Settle)
    /\ WF_vars(Scan) /\ WF_vars(Apply) /\ WF_vars(Send)

FairSpec == Spec /\ Fairness

-----------------------------------------------------------------------------

\* The state is what live.rs declares, and one frame exists per version after
\* the first.
TypeOK ==
    /\ disk \in Disk /\ scanned \in Disk
    /\ touches \in Nat /\ failures \in Nat
    /\ watching \in BOOLEAN /\ pending \in BOOLEAN
    /\ task \in {"waiting", "settled", "scanned", "sending"}
    /\ tree \in MountManifest
    /\ served \in [DOMAIN tree.files -> FilePaths \cup {0}]
    /\ index_of \in [FilePaths -> 0..Len(tree.files)]
    /\ version \in Nat \ {0}
    /\ log \in Seq(MountManifest) /\ Len(log) = version /\ log[version] = tree
    /\ IsSeq(frames) /\ Len(frames) = version - 1
    /\ sent \in 0..Len(frames)
    /\ task = "sending" => sent < Len(frames)

\* Whatever two versions were published, a slot that names a file in both
\* names the same one, and a file sits in the same slot in both: an index a
\* peer resolved long ago never reads another file (live.rs, the module's
\* reason to keep tombstones and `index_of`).
SlotsAreStable ==
    \A v, w \in DOMAIN log :
        \A i \in DOMAIN log[v].files, j \in DOMAIN log[w].files :
            (log[v].files[i] # Tombstone /\ log[w].files[j] # Tombstone)
                => (i = j <=> log[v].files[i].path = log[w].files[j].path)

\* A slot opens a file exactly while the manifest lists it there.
ServedMatchesListing ==
    \A i \in DOMAIN tree.files : served[i] = tree.files[i].path

SameContent(m, n) == m.files = n.files /\ EntriesOf(m.dirs) = EntriesOf(n.dirs)

\* Every answer deltas_since agrees to give carries a reader from the version
\* it holds to the current tree: same slots, same entries, same directories.
DeltasRebuildTheTree ==
    \A since \in 1..version :
        CanAnswer(since) =>
            SameContent(ApplyChain(log[since], DeltasSince(since).deltas), tree)

\* A frame a reader already has, delivered again, changes nothing: what makes
\* subscribing before snapshotting, and resuming after a lag, safe.
RedeliveryIsHarmless ==
    \A e \in EntriesOf(history) : ApplyDelta(log[e.version], e.delta) = log[e.version]

\* The tree lists exactly what is on disk, and the last frame is out.
Published ==
    /\ EntriesOf(tree.dirs) = {[path |-> p, stamp |-> disk.dirs[p]] : p \in PresentDirs(disk)}
    /\ EntriesOf(tree.files) \ {Tombstone} =
          {[path |-> p, stamp |-> disk.files[p]] : p \in PresentFiles(disk)}
    /\ sent = Len(frames)

\* A change the watcher was told of is published, unless a rescan fails.
NoticedChangesArePublished == pending ~> (Published \/ failures > 0)

\* The differences a producer hands out lead to its tree, applied once or twice.
DeltasAreSound == DeltasRebuildTheTree /\ RedeliveryIsHarmless
=============================================================================
