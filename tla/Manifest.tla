------------------------------ MODULE Manifest ------------------------------
(***************************************************************************)
(* The share's catalogue and the differences between two of them, as       *)
(* agent-share-proto/src/manifest.rs and authorship.rs define them.        *)
(*                                                                         *)
(* A path is a positive number whose order is the order of names; 0 is the *)
(* empty path, which marks a tombstone.  A stamp stands for everything a   *)
(* scan records of an entry (size, mode, mtime); 0 is the zeroed stamp of  *)
(* a tombstone, and of a path that is not on disk.  READ indices are the   *)
(* positions of `files`, counted from 1 here and from 0 in the code.       *)
(***************************************************************************)
EXTENDS Naturals, Sequences, FiniteSets

CONSTANTS
    DirPaths,   \* the directories the served root may contain
    FilePaths,  \* the files it may contain
    Stamps,     \* what a scan may record of one of them
    Signed      \* whether the share names its creator (the ticket's author key)

ASSUME PathsAssumption ==
    /\ DirPaths \subseteq Nat \ {0} /\ IsFiniteSet(DirPaths)
    /\ FilePaths \subseteq Nat \ {0} /\ IsFiniteSet(FilePaths)
    /\ Stamps \subseteq Nat \ {0}
    /\ Signed \in BOOLEAN

DirEntry == [path : DirPaths, stamp : Stamps]
FileEntry == [path : FilePaths, stamp : Stamps]
Tombstone == [path |-> 0, stamp |-> 0]
MountManifest == [dirs : Seq(DirEntry), files : Seq(FileEntry \cup {Tombstone})]

PathsOf(entries) == {entries[i].path : i \in DOMAIN entries}
EntriesOf(entries) == {entries[i] : i \in DOMAIN entries}

IsSeq(s) == s \in Seq(EntriesOf(s))

\* SelectSeq by a set, a definition that theorems can open.
Only(entries, keep) ==
    LET taken[i \in 0..Len(entries)] ==
            IF i = 0 THEN << >>
            ELSE IF entries[i] \in keep THEN Append(taken[i - 1], entries[i]) ELSE taken[i - 1]
    IN  taken[Len(entries)]

\* Slots are u32 on the wire; a delta names them explicitly, so the order of
\* its upserts carries nothing and a function from slots to entries stands for
\* the list.
ManifestDelta ==
    [dirs_upserted  : Seq(DirEntry),
     dirs_removed   : SUBSET DirPaths,
     files_upserted : UNION {[S -> FileEntry] : S \in SUBSET (Nat \ {0})},
     files_removed  : SUBSET (Nat \ {0})]

IsEmptyDelta(d) ==
    /\ d.dirs_upserted = << >>
    /\ d.dirs_removed = {}
    /\ DOMAIN d.files_upserted = {}
    /\ d.files_removed = {}

\* The encoded length of a delta, in entries.
DeltaSize(d) ==
    Len(d.dirs_upserted) + Cardinality(d.dirs_removed)
        + Cardinality(DOMAIN d.files_upserted) + Cardinality(d.files_removed)

-----------------------------------------------------------------------------

\* Mutant: a directory already listed is appended again.
ApplyDirsAppending(dirs, d) ==
    Only(dirs, {e \in EntriesOf(dirs) : e.path \notin d.dirs_removed}) \o d.dirs_upserted

\* The directory half of MountManifest::apply: drop the removed ones, replace
\* in place the ones already listed, append the rest in the delta's order.
ApplyDirs(dirs, d) ==
    LET kept == Only(dirs, {e \in EntriesOf(dirs) : e.path \notin d.dirs_removed})
        updated == [i \in DOMAIN kept |->
                      IF \E e \in EntriesOf(d.dirs_upserted) : e.path = kept[i].path
                      THEN CHOOSE e \in EntriesOf(d.dirs_upserted) : e.path = kept[i].path
                      ELSE kept[i]]
        appended == Only(d.dirs_upserted, {e \in EntriesOf(d.dirs_upserted) :
                                              e.path \notin PathsOf(kept)})
    IN  updated \o appended

\* The file half: grow with tombstones up to the highest slot named, write the
\* upserts, then blank the removed slots.
ApplyFiles(files, d) ==
    LET size == CHOOSE n \in {Len(files)} \cup DOMAIN d.files_upserted :
                  \A m \in {Len(files)} \cup DOMAIN d.files_upserted : m <= n
    IN  [i \in 1..size |->
            IF i \in d.files_removed THEN Tombstone
            ELSE IF i \in DOMAIN d.files_upserted THEN d.files_upserted[i]
            ELSE IF i \in DOMAIN files THEN files[i]
            ELSE Tombstone]

ApplyDelta(m, d) == [dirs  |-> ApplyDirs(m.dirs, d), files |-> ApplyFiles(m.files, d)]

\* Applying a chain, oldest first.
ApplyChain(m, ds) ==
    LET after[i \in 0..Len(ds)] ==
            IF i = 0 THEN m ELSE ApplyDelta(after[i - 1], ds[i])
    IN  after[Len(ds)]

-----------------------------------------------------------------------------

\* A creator's signature covers the version and the exact bytes, directory
\* order included.  An unsigned share carries the zero signature.
NoSignature == << >>
Sign(version, manifest) == IF Signed THEN <<version, manifest>> ELSE NoSignature

\* SignedManifest::verify against the ticket's author key; a ticket without
\* one checks nothing.
Verifies(signed) ==
    Signed => signed.signature = <<signed.version, signed.manifest>>

Seal(version, manifest) ==
    [version |-> version, signature |-> Sign(version, manifest), manifest |-> manifest]

\* SignedManifest::accept, and the rollback check an unsigned share makes too.
Acceptable(signed, floor) == signed.version >= floor /\ Verifies(signed)

\* A manifest offered to a reader is taken, or what it held is kept.
Adopt(held, offered) == IF Acceptable(offered, held.version) THEN offered ELSE held

\* apply_since: rebuild the target from what is held, and take it if it is what
\* the creator signed.
ApplySince(held, answer) ==
    Adopt(held, [version   |-> answer.version,
                 signature |-> answer.signature,
                 manifest  |-> ApplyChain(held.manifest, answer.deltas)])

\* What a watch frame offers: a whole manifest replaces what is held, and a
\* delta, the one link a watch frame carries, extends it.
Offered(held, frame) ==
    IF frame.kind = "manifest"
    THEN frame.signed
    ELSE [version   |-> frame.version,
          signature |-> frame.signature,
          manifest  |-> ApplyDelta(held.manifest, frame.delta)]

\* apply_watch_frame: a frame that does not verify leaves what was held.
ApplyWatchFrame(held, frame) == Adopt(held, Offered(held, frame))
=============================================================================
