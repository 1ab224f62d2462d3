--------------------------- MODULE LiveTreeProofs ---------------------------
(***************************************************************************)
(* Theorems of a live tree and of what follows it: the producer, for every *)
(* set of paths and stamps and every budget; the mounts of Watch, for      *)
(* every number of them, every backlog and any number of losses; and the   *)
(* copies of Mirror, for every number of runs, crashes and restarts.       *)
(***************************************************************************)
EXTENDS Watch, Mirror, TLAPS, FiniteSetTheorems, SequenceTheorems, WellFoundedInduction

-----------------------------------------------------------------------------
(* LiveTree: the tables, the slots and the differences of the producer.      *)

\* Appending to any sequence yields a sequence, one longer, that ends in the
\* new element and is otherwise unchanged.
LEMMA AppendIsSeq ==
    ASSUME NEW s, IsSeq(s), NEW e
    PROVE  /\ IsSeq(Append(s, e))
           /\ Len(Append(s, e)) = Len(s) + 1
           /\ Append(s, e)[Len(s) + 1] = e
           /\ \A i \in DOMAIN s : Append(s, e)[i] = s[i]
<1> DEFINE S == EntriesOf(s) \cup {e}
           t == Append(s, e)
<1>1. s \in Seq(S)
  BY SeqMonotonic DEF IsSeq
<1>2. /\ t \in Seq(S) /\ Len(t) = Len(s) + 1 /\ t[Len(s) + 1] = e
      /\ \A i \in 1..Len(s) : t[i] = s[i]
  BY <1>1, AppendProperties
<1>3. t \in Seq(EntriesOf(t))
  <2>1. t \in [1..Len(t) -> EntriesOf(t)] /\ Len(t) \in Nat
    <3> HIDE DEF t
    <3> QED  BY <1>2, LenProperties DEF EntriesOf
  <2>2. QED
    <3> HIDE DEF t
    <3> QED  BY <2>1, SeqDef
<1>4. QED
  BY <1>1, <1>2, <1>3, LenProperties DEF IsSeq

\* A listing enumerates its set, each element once.
LEMMA ListingProperties ==
    ASSUME NEW paths, IsFiniteSet(paths), paths \subseteq Nat, NEW s \in Listings(paths)
    PROVE  /\ s \in Seq(paths)
           /\ Len(s) \in Nat /\ DOMAIN s = 1..Len(s)
           /\ \A i, j \in DOMAIN s : s[i] = s[j] => i = j
           /\ \A p \in paths : \E i \in DOMAIN s : s[i] = p
<1>1. Cardinality(paths) \in Nat
  BY FS_CardinalityType
<1>2. s \in [1..Cardinality(paths) -> paths]
  BY DEF Listings
<1>3. s \in Seq(paths)
  BY <1>1, <1>2, SeqDef
<1>4. Len(s) \in Nat /\ DOMAIN s = 1..Len(s)
  BY <1>3, LenProperties
<1>5. \A i, j \in DOMAIN s : i < j => s[i] < s[j]
  BY DEF Listings
<1>6. \A i, j \in DOMAIN s : s[i] = s[j] => i = j
  <2> SUFFICES ASSUME NEW i \in DOMAIN s, NEW j \in DOMAIN s, s[i] = s[j], i # j
               PROVE  FALSE
    OBVIOUS
  <2>1. i \in Nat /\ j \in Nat /\ s[i] \in Nat /\ s[j] \in Nat
    <3>1. i \in Nat /\ j \in Nat
      BY <1>4
    <3>2. s[i] \in paths /\ s[j] \in paths
      BY <1>2
    <3>3. QED
      BY <3>1, <3>2
  <2>2. i < j \/ j < i
    BY <2>1
  <2>3. s[i] < s[j] \/ s[j] < s[i]
    BY <1>5, <2>2
  <2>4. QED
    BY <2>1, <2>3
<1>7. \A p \in paths : \E i \in DOMAIN s : s[i] = p
  BY DEF Listings
<1>8. QED
  BY <1>3, <1>4, <1>6, <1>7

-----------------------------------------------------------------------------

\* What a scan lists is a finite set of the paths the share may contain.
LEMMA PresentIsFinite ==
    ASSUME NEW d
    PROVE  /\ IsFiniteSet(PresentDirs(d)) /\ PresentDirs(d) \subseteq DirPaths
           /\ IsFiniteSet(PresentFiles(d)) /\ PresentFiles(d) \subseteq FilePaths
<1>1. PresentDirs(d) \subseteq DirPaths /\ PresentFiles(d) \subseteq FilePaths
  BY DEF PresentDirs, PresentFiles
<1>2. QED
  BY <1>1, FS_Subset, PathsAssumption

\* The directory table of a scan is well formed.
LEMMA ScannedDirs ==
    ASSUME NEW d \in Disk, NEW ds \in Listings(PresentDirs(d))
    PROVE  /\ Entries(d.dirs, ds) \in Seq(DirEntry)
           /\ Len(Entries(d.dirs, ds)) <= Cardinality(DirPaths)
<1>1. PresentDirs(d) \subseteq Nat
  BY PresentIsFinite, PathsAssumption
<1>2. ds \in Seq(PresentDirs(d)) /\ Len(ds) \in Nat /\ DOMAIN ds = 1..Len(ds)
  BY <1>1, PresentIsFinite, ListingProperties
<1>3. \A i \in 1..Len(ds) : [path |-> ds[i], stamp |-> d.dirs[ds[i]]] \in DirEntry
  <2> TAKE i \in 1..Len(ds)
  <2>1. ds[i] \in PresentDirs(d)
    BY <1>2, ElementOfSeq
  <2>2. d.dirs[ds[i]] \in Stamps
    BY <2>1 DEF Disk, PresentDirs
  <2>3. QED
    BY <2>1, <2>2, PresentIsFinite DEF DirEntry
<1>4. Entries(d.dirs, ds) \in [1..Len(ds) -> DirEntry]
  BY <1>2, <1>3 DEF Entries
<1>5. Entries(d.dirs, ds) \in Seq(DirEntry) /\ Len(Entries(d.dirs, ds)) = Len(ds)
  <2>1. Entries(d.dirs, ds) \in Seq(DirEntry)
    BY <1>2, <1>4, SeqDef
  <2>2. QED
    BY <1>2, <1>4, <2>1, LenProperties
<1>6. Len(ds) <= Cardinality(DirPaths)
  <2>1. Cardinality(PresentDirs(d)) <= Cardinality(DirPaths)
    BY PresentIsFinite, FS_Subset, PathsAssumption
  <2>2. Cardinality(PresentDirs(d)) \in Nat
    BY PresentIsFinite, FS_CardinalityType
  <2>3. ds \in [1..Cardinality(PresentDirs(d)) -> PresentDirs(d)]
    BY DEF Listings
  <2>4. Len(ds) = Cardinality(PresentDirs(d))
    BY <1>2, <2>2, <2>3
  <2>5. QED
    BY <2>1, <2>4
<1>7. QED
  BY <1>5, <1>6

\* The file table of a scan, listed for the first time, is well formed.
LEMMA ScannedFiles ==
    ASSUME NEW d \in Disk, NEW fs \in Listings(PresentFiles(d))
    PROVE  /\ Entries(d.files, fs) \in Seq(FileEntry)
           /\ Len(Entries(d.files, fs)) = Len(fs)
           /\ \A i \in 1..Len(fs) : Entries(d.files, fs)[i].path = fs[i]
<1>1. PresentFiles(d) \subseteq Nat
  BY PresentIsFinite, PathsAssumption
<1>2. fs \in Seq(PresentFiles(d)) /\ Len(fs) \in Nat /\ DOMAIN fs = 1..Len(fs)
  BY <1>1, PresentIsFinite, ListingProperties
<1>3. \A i \in 1..Len(fs) : [path |-> fs[i], stamp |-> d.files[fs[i]]] \in FileEntry
  <2> TAKE i \in 1..Len(fs)
  <2>1. fs[i] \in PresentFiles(d)
    BY <1>2, ElementOfSeq
  <2>2. d.files[fs[i]] \in Stamps
    BY <2>1 DEF Disk, PresentFiles
  <2>3. QED
    BY <2>1, <2>2, PresentIsFinite DEF FileEntry
<1>4. Entries(d.files, fs) \in [1..Len(fs) -> FileEntry]
  BY <1>2, <1>3 DEF Entries
<1>5. Entries(d.files, fs) \in Seq(FileEntry)
  BY <1>2, <1>4, SeqDef
<1>6. QED
  BY <1>2, <1>4, <1>5, LenProperties DEF Entries

\* The paths a scan found that never had a slot.
Unslotted == {p \in PresentFiles(scanned) : index_of[p] = 0}

Injective(slots) ==
    \A p, q \in FilePaths : slots[p] = slots[q] /\ slots[p] # 0 => p = q

\* What `apply` computes from a scan: a path that had a slot keeps it, no slot
\* is given twice, every slot past the old table names a file, and a slot that
\* names a file names the path it belongs to.
LEMMA FoldedScan ==
    ASSUME TypeOK, NEW fresh \in Listings(Unslotted)
    PROVE  LET slots == NewIndexOf(fresh)
               size == Len(tree.files) + Len(fresh)
               files == NewFiles(scanned, slots, size)
           IN  /\ size \in Nat /\ Len(tree.files) \in 0..size
               /\ slots \in [FilePaths -> 0..size]
               /\ files \in Seq(FileEntry \cup {Tombstone}) /\ Len(files) = size
               /\ \A p \in FilePaths : index_of[p] # 0 => slots[p] = index_of[p]
               /\ Injective(index_of) => Injective(slots)
               /\ \A i \in 1..size : files[i] # Tombstone =>
                     files[i].path \in FilePaths /\ slots[files[i].path] = i
               /\ \A i \in 1..size : i > Len(tree.files) => files[i] # Tombstone
<1> DEFINE base == Len(tree.files)
           slots == NewIndexOf(fresh)
           size == base + Len(fresh)
           files == NewFiles(scanned, slots, size)
           isFresh(p) == \E j \in DOMAIN fresh : fresh[j] = p
           place(p) == CHOOSE j \in DOMAIN fresh : fresh[j] = p
<1>1. /\ Unslotted \subseteq PresentFiles(scanned) /\ Unslotted \subseteq FilePaths
      /\ IsFiniteSet(Unslotted) /\ Unslotted \subseteq Nat
  BY PresentIsFinite, FS_Subset, PathsAssumption DEF Unslotted
<1>2. /\ fresh \in Seq(Unslotted) /\ Len(fresh) \in Nat /\ DOMAIN fresh = 1..Len(fresh)
      /\ \A i, j \in DOMAIN fresh : fresh[i] = fresh[j] => i = j
  BY <1>1, ListingProperties
<1>3. base \in Nat /\ index_of \in [FilePaths -> 0..base]
  BY LenProperties DEF TypeOK, MountManifest
<1>4. size \in Nat /\ base \in 0..size
  BY <1>2, <1>3
<1>5. \A j \in DOMAIN fresh : fresh[j] \in Unslotted /\ place(fresh[j]) = j
  BY <1>2, ElementOfSeq
<1>6. \A p \in FilePaths : isFresh(p) =>
         /\ place(p) \in 1..Len(fresh) /\ fresh[place(p)] = p
         /\ index_of[p] = 0 /\ slots[p] = base + place(p)
  BY <1>2, <1>5 DEF NewIndexOf, Unslotted
<1>7. \A p \in FilePaths : ~isFresh(p) => slots[p] = index_of[p]
  BY DEF NewIndexOf
<1>8. slots \in [FilePaths -> 0..size]
  <2>1. \A p \in FilePaths : slots[p] \in 0..size
    BY <1>2, <1>3, <1>6, <1>7
  <2>2. QED
    BY <2>1 DEF NewIndexOf
<1>9. \A p \in FilePaths : index_of[p] # 0 => slots[p] = index_of[p]
  BY <1>6, <1>7
<1>10. ASSUME Injective(index_of) PROVE Injective(slots)
  <2> SUFFICES ASSUME NEW p \in FilePaths, NEW q \in FilePaths,
                      slots[p] = slots[q], slots[p] # 0
               PROVE  p = q
    BY DEF Injective
  <2>1. CASE isFresh(p) /\ isFresh(q)
    <3>1. place(p) = place(q)
      BY <2>1, <1>2, <1>3, <1>6
    <3>2. QED
      BY <2>1, <3>1, <1>6
  <2>2. CASE ~isFresh(p) /\ ~isFresh(q)
    BY <2>2, <1>7, <1>10 DEF Injective
  <2>3. CASE isFresh(p) /\ ~isFresh(q)
    <3>1. slots[p] > base /\ slots[q] <= base
      BY <2>3, <1>2, <1>3, <1>6, <1>7
    <3>2. QED
      BY <3>1, <1>3, <1>8
  <2>4. CASE ~isFresh(p) /\ isFresh(q)
    <3>1. slots[q] > base /\ slots[p] <= base
      BY <2>4, <1>2, <1>3, <1>6, <1>7
    <3>2. QED
      BY <3>1, <1>3, <1>8
  <2>5. QED
    BY <2>1, <2>2, <2>3, <2>4
<1>11. \A i \in 1..size :
          \/ files[i] = Tombstone /\ ~\E p \in PresentFiles(scanned) : slots[p] = i
          \/ files[i] \in FileEntry /\ slots[files[i].path] = i
  <2> TAKE i \in 1..size
  <2>1. CASE \E p \in PresentFiles(scanned) : slots[p] = i
    <3> DEFINE q == CHOOSE p \in PresentFiles(scanned) : slots[p] = i
    <3>1. q \in PresentFiles(scanned) /\ slots[q] = i
      BY <2>1
    <3>2. files[i] = [path |-> q, stamp |-> scanned.files[q]]
      BY <2>1 DEF NewFiles
    <3>3. q \in FilePaths /\ scanned.files[q] \in Stamps
      BY <3>1 DEF PresentFiles, TypeOK, Disk
    <3> HIDE DEF q, slots, files
    <3>4. files[i] \in FileEntry /\ files[i].path = q
      BY <3>2, <3>3 DEF FileEntry
    <3>5. QED
      BY <3>1, <3>4
  <2>2. CASE ~\E p \in PresentFiles(scanned) : slots[p] = i
    <3>1. files[i] = Tombstone
      BY <2>2 DEF NewFiles
    <3>2. QED
      BY <2>2, <3>1
  <2>3. QED
    BY <2>1, <2>2
<1>12. files \in Seq(FileEntry \cup {Tombstone}) /\ Len(files) = size
  <2>1. files \in [1..size -> FileEntry \cup {Tombstone}]
    BY <1>11 DEF NewFiles
  <2>2. files \in Seq(FileEntry \cup {Tombstone})
    BY <1>4, <2>1, SeqDef
  <2>3. QED
    BY <1>4, <2>1, <2>2, LenProperties
<1>13. \A i \in 1..size : files[i] # Tombstone =>
          files[i].path \in FilePaths /\ slots[files[i].path] = i
  BY <1>11 DEF FileEntry
<1>14. ASSUME NEW i \in 1..size, i > base PROVE files[i] # Tombstone
  <2> DEFINE p == fresh[i - base]
  <2>1. i - base \in DOMAIN fresh
    BY <1>2, <1>3, <1>14
  <2>2. p \in Unslotted /\ isFresh(p) /\ place(p) = i - base
    BY <2>1, <1>5
  <2>3. p \in PresentFiles(scanned) /\ p \in FilePaths
    BY <2>2, <1>1
  <2>4. slots[p] = i
    <3>1. slots[p] = base + (i - base)
      BY <2>2, <2>3, <1>6
    <3>2. QED
      BY <3>1, <1>3
  <2>5. files[i] \in FileEntry
    BY <2>3, <2>4, <1>11
  <2>6. QED
    BY <2>5, PathsAssumption DEF FileEntry, Tombstone
<1>15. QED
  BY <1>4, <1>8, <1>9, <1>10, <1>12, <1>13, <1>14

\* READ's table after an apply has one entry per slot, and opens what the new
\* listing names if it opened what the old one named.
LEMMA ServedAfterDelta ==
    ASSUME TypeOK, NEW new \in MountManifest, Len(tree.files) <= Len(new.files),
           \A i \in 1..Len(new.files) : i > Len(tree.files) => new.files[i] # Tombstone
    PROVE  LET next == NewServed(DeltaBetween(tree, new), Len(new.files))
           IN  /\ next \in [DOMAIN new.files -> FilePaths \cup {0}]
               /\ ServedMatchesListing =>
                     \A i \in DOMAIN new.files : next[i] = new.files[i].path
<1> DEFINE delta == DeltaBetween(tree, new)
           next == NewServed(delta, Len(new.files))
<1>1. /\ tree.files \in Seq(FileEntry \cup {Tombstone})
      /\ new.files \in Seq(FileEntry \cup {Tombstone})
  BY DEF TypeOK, MountManifest
<1>2. /\ Len(tree.files) \in Nat /\ DOMAIN tree.files = 1..Len(tree.files)
      /\ Len(new.files) \in Nat /\ DOMAIN new.files = 1..Len(new.files)
  BY <1>1, LenProperties
<1>3. ASSUME NEW i \in 1..Len(new.files)
      PROVE  /\ next[i] \in FilePaths \cup {0}
             /\ ServedMatchesListing => next[i] = new.files[i].path
  <2>1. new.files[i] \in FileEntry \cup {Tombstone}
    BY <1>1, ElementOfSeq
  <2>2. CASE i \in delta.files_removed
    <3>1. next[i] = 0
      BY <2>2 DEF NewServed
    <3>2. new.files[i] = Tombstone
      BY <2>2 DEF DeltaBetween
    <3>3. QED
      BY <3>1, <3>2 DEF Tombstone
  <2>3. CASE i \notin delta.files_removed /\ i \in DOMAIN delta.files_upserted
    <3>1. next[i] = delta.files_upserted[i].path
      BY <2>3 DEF NewServed
    <3>2. new.files[i] # Tombstone /\ delta.files_upserted[i] = new.files[i]
      BY <2>3 DEF DeltaBetween
    <3>3. new.files[i].path \in FilePaths
      BY <2>1, <3>2 DEF FileEntry
    <3>4. QED
      BY <3>1, <3>2, <3>3
  <2>4. CASE i \notin delta.files_removed /\ i \notin DOMAIN delta.files_upserted
    <3>1. next[i] = served[i]
      BY <2>4 DEF NewServed
    <3>2. \/ new.files[i] = Tombstone
          \/ i \in DOMAIN tree.files /\ tree.files[i] = new.files[i]
      BY <2>4, <1>2 DEF DeltaBetween
    <3>3. i \in DOMAIN tree.files
      BY <3>2, <1>2
    <3>4. tree.files[i] = new.files[i]
      BY <2>4, <3>2, <3>3 DEF DeltaBetween
    <3>5. QED
      BY <3>1, <3>3, <3>4 DEF TypeOK, ServedMatchesListing
  <2>5. QED
    BY <2>2, <2>3, <2>4
<1>4. next \in [DOMAIN new.files -> FilePaths \cup {0}]
  BY <1>2, <1>3 DEF NewServed
<1>5. QED
  BY <1>2, <1>3, <1>4

\* Every slot a published version filled belongs to the path it filled it with.
SlotsAreRecorded ==
    \A v \in DOMAIN log : \A i \in DOMAIN log[v].files :
        log[v].files[i] # Tombstone => index_of[log[v].files[i].path] = i

\* The two ways an apply ends: nothing changed, or a new version and its frame.
LEMMA ApplyStep ==
    ASSUME TypeOK, Apply
    PROVE  /\ scanned' = NoScan
           /\ UNCHANGED <<diskVars, failures, watching, pending, sent>>
           /\ \/ task' = "waiting" /\ UNCHANGED <<treeVars, frames>>
              \/ /\ task' = "sending"
                 /\ tree' \in MountManifest
                 /\ served' \in [DOMAIN tree'.files -> FilePaths \cup {0}]
                 /\ index_of' \in [FilePaths -> 0..Len(tree'.files)]
                 /\ version' = version + 1
                 /\ log' = Append(log, tree')
                 /\ \E frame : frames' = Append(frames, frame)
                 /\ Len(tree'.dirs) <= Cardinality(DirPaths)
                 /\ \A i \in DOMAIN tree'.files :
                       i > Len(tree.files) => tree'.files[i] # Tombstone
                 /\ \A p \in FilePaths : index_of[p] # 0 => index_of'[p] = index_of[p]
                 /\ Injective(index_of) => Injective(index_of')
                 /\ \A i \in DOMAIN tree'.files : tree'.files[i] # Tombstone =>
                       index_of'[tree'.files[i].path] = i
                 /\ ServedMatchesListing => ServedMatchesListing'
<1>1. scanned' = NoScan /\ UNCHANGED <<diskVars, failures, watching, pending, sent>>
  BY DEF Apply
<1>2. PICK ds \in Listings(PresentDirs(scanned)), fresh \in Listings(Unslotted) :
        LET slots == NewIndexOf(fresh)
            size == Len(tree.files) + Len(fresh)
            new == [dirs  |-> Entries(scanned.dirs, ds),
                    files |-> NewFiles(scanned, slots, size)]
            delta == DeltaBetween(tree, new)
        IN  IF IsEmptyDelta(delta)
            THEN task' = "waiting" /\ UNCHANGED <<treeVars, frames>>
            ELSE /\ tree' = new
                 /\ served' = NewServed(delta, size)
                 /\ index_of' = slots
                 /\ version' = version + 1
                 /\ log' = Append(log, new)
                 /\ \E frame : frames' = Append(frames, frame)
                 /\ task' = "sending"
  BY DEF Apply, Unslotted
<1> DEFINE slots == NewIndexOf(fresh)
           size == Len(tree.files) + Len(fresh)
           new == [dirs  |-> Entries(scanned.dirs, ds),
                   files |-> NewFiles(scanned, slots, size)]
           delta == DeltaBetween(tree, new)
<1>3. CASE IsEmptyDelta(delta)
  BY <1>1, <1>2, <1>3
<1>4. CASE ~IsEmptyDelta(delta)
  <2>1. /\ tree' = new /\ served' = NewServed(delta, size) /\ index_of' = slots
        /\ version' = version + 1 /\ log' = Append(log, tree')
        /\ \E frame : frames' = Append(frames, frame)
        /\ task' = "sending"
    BY <1>2, <1>4
  <2>2. /\ size \in Nat /\ Len(tree.files) \in 0..size
        /\ slots \in [FilePaths -> 0..size]
        /\ new.files \in Seq(FileEntry \cup {Tombstone}) /\ Len(new.files) = size
        /\ \A p \in FilePaths : index_of[p] # 0 => slots[p] = index_of[p]
        /\ Injective(index_of) => Injective(slots)
        /\ \A i \in 1..size : new.files[i] # Tombstone =>
              new.files[i].path \in FilePaths /\ slots[new.files[i].path] = i
        /\ \A i \in 1..size : i > Len(tree.files) => new.files[i] # Tombstone
    BY FoldedScan
  <2>3. new.dirs \in Seq(DirEntry) /\ Len(new.dirs) <= Cardinality(DirPaths)
    BY ScannedDirs DEF TypeOK
  <2> HIDE DEF slots, size, delta
  <2>4. new \in MountManifest /\ DOMAIN new.files = 1..size
    BY <2>2, <2>3, LenProperties DEF MountManifest
  <2> HIDE DEF new
  <2>5. /\ served' \in [DOMAIN new.files -> FilePaths \cup {0}]
        /\ ServedMatchesListing => \A i \in DOMAIN new.files : served'[i] = new.files[i].path
    <3>1. served' = NewServed(DeltaBetween(tree, new), Len(new.files))
      BY <2>1, <2>2 DEF delta
    <3>2. /\ Len(tree.files) <= Len(new.files)
          /\ \A i \in 1..Len(new.files) : i > Len(tree.files) => new.files[i] # Tombstone
      BY <2>2
    <3>3. QED
      BY <2>4, <3>1, <3>2, ServedAfterDelta
  <2>6. ServedMatchesListing => ServedMatchesListing'
    BY <2>1, <2>5 DEF ServedMatchesListing
  <2>7. /\ Len(tree'.dirs) <= Cardinality(DirPaths)
        /\ \A i \in DOMAIN tree'.files : i > Len(tree.files) => tree'.files[i] # Tombstone
    BY <2>1, <2>2, <2>3, <2>4 DEF new
  <2>8. QED
    BY <1>1, <2>1, <2>2, <2>4, <2>5, <2>6, <2>7
<1>5. QED
  BY <1>3, <1>4

\* One step keeps the state well formed.
LEMMA TypeStep == TypeOK /\ [Next]_vars => TypeOK'
<1> SUFFICES ASSUME TypeOK, [Next]_vars
             PROVE  TypeOK'
  OBVIOUS
<1> USE DEF TypeOK, diskVars, treeVars
<1>1. CASE Touch
  <2>1. ASSUME NEW p \in DirPaths, NEW s \in Stamps \cup {0}, disk' = [disk EXCEPT !.dirs[p] = s]
        PROVE  disk' \in Disk
    BY <2>1 DEF Disk
  <2>2. ASSUME NEW p \in FilePaths, NEW s \in Stamps \cup {0}, disk' = [disk EXCEPT !.files[p] = s]
        PROVE  disk' \in Disk
    BY <2>2 DEF Disk
  <2>3. disk' \in Disk
    BY <1>1, <2>1, <2>2 DEF Touch
  <2>4. QED
    BY <1>1, <2>3 DEF Touch
<1>2. CASE StartWatcher
  BY <1>2 DEF StartWatcher
<1>3. CASE Settle
  BY <1>3 DEF Settle
<1>4. CASE Scan
  BY <1>4 DEF Scan
<1>5. CASE ScanFails
  BY <1>5 DEF ScanFails
<1>6. CASE Apply
  <2> USE <1>6
  <2>1. NoScan \in Disk
    BY DEF NoScan, Disk
  <2>2. /\ scanned' = NoScan
        /\ UNCHANGED <<diskVars, failures, watching, pending, sent>>
    BY ApplyStep
  <2>3. CASE task' = "waiting" /\ UNCHANGED <<treeVars, frames>>
    BY <2>1, <2>2, <2>3
  <2>4. CASE ~(task' = "waiting" /\ UNCHANGED <<treeVars, frames>>)
    <3>1. /\ task' = "sending"
          /\ tree' \in MountManifest
          /\ served' \in [DOMAIN tree'.files -> FilePaths \cup {0}]
          /\ index_of' \in [FilePaths -> 0..Len(tree'.files)]
          /\ version' = version + 1
          /\ log' = Append(log, tree')
          /\ \E frame : frames' = Append(frames, frame)
      BY <2>4, ApplyStep
    <3>2. /\ log' \in Seq(MountManifest) /\ Len(log') = version'
          /\ log'[version'] = tree'
      <4> HIDE DEF TypeOK
      <4>1. log \in Seq(MountManifest) /\ Len(log) = version
        BY DEF TypeOK
      <4>2. QED
        BY <3>1, <4>1, AppendProperties
    <3>3. IsSeq(frames') /\ Len(frames') = version
      BY <3>1, AppendIsSeq
    <3>4. QED
      BY <2>1, <2>2, <3>1, <3>2, <3>3
  <2>5. QED
    BY <2>3, <2>4
<1>7. CASE Send
  BY <1>7 DEF Send
<1>8. CASE UNCHANGED vars
  BY <1>8 DEF vars
<1>9. QED
  BY <1>1, <1>2, <1>3, <1>4, <1>5, <1>6, <1>7, <1>8 DEF Next

\* The inductive invariant: slots are given once, recorded where they were
\* published, and READ opens what is listed.
SlotInv == TypeOK /\ Injective(index_of) /\ SlotsAreRecorded /\ ServedMatchesListing

\* A share that has just been put up: the tree its startup scan built is all
\* there has been.
Fresh ==
    /\ disk \in Disk /\ touches \in Nat /\ failures \in Nat
    /\ watching = FALSE /\ pending = FALSE
    /\ task = "waiting" /\ scanned = NoScan
    /\ \E ds \in Listings(PresentDirs(disk)), fs \in Listings(PresentFiles(disk)) :
        /\ tree = [dirs |-> Entries(disk.dirs, ds), files |-> Entries(disk.files, fs)]
        /\ served = fs
        /\ index_of = [p \in FilePaths |->
                         IF p \in PresentFiles(disk)
                         THEN CHOOSE i \in DOMAIN fs : fs[i] = p ELSE 0]
    /\ version = 1 /\ log = <<tree>>
    /\ frames = << >> /\ sent = 0

\* A share starts so.
LEMMA InitIsFresh == Init => Fresh
<1> SUFFICES ASSUME Init PROVE Fresh
  OBVIOUS
<1>1. touches \in Nat /\ failures \in Nat
  BY DEF Init
<1>2. QED
  BY <1>1, Zenon DEF Init, Fresh

\* The tree built from the startup scan satisfies it.
LEMMA FreshSlots == Fresh => SlotInv
<1> SUFFICES ASSUME Fresh PROVE SlotInv
  OBVIOUS
<1>1. PICK ds \in Listings(PresentDirs(disk)), fs \in Listings(PresentFiles(disk)) :
        /\ tree = [dirs |-> Entries(disk.dirs, ds), files |-> Entries(disk.files, fs)]
        /\ served = fs
        /\ index_of = [p \in FilePaths |->
                         IF p \in PresentFiles(disk)
                         THEN CHOOSE i \in DOMAIN fs : fs[i] = p ELSE 0]
  BY DEF Fresh
<1> DEFINE files == Entries(disk.files, fs)
<1>2. disk \in Disk /\ NoScan \in Disk
  BY DEF Fresh, NoScan, Disk
<1>3. PresentFiles(disk) \subseteq Nat \ {0} /\ IsFiniteSet(PresentFiles(disk))
  BY PresentIsFinite, PathsAssumption
<1>4. /\ fs \in Seq(PresentFiles(disk)) /\ Len(fs) \in Nat /\ DOMAIN fs = 1..Len(fs)
      /\ \A i, j \in DOMAIN fs : fs[i] = fs[j] => i = j
      /\ \A p \in PresentFiles(disk) : \E i \in DOMAIN fs : fs[i] = p
  BY <1>3, ListingProperties
<1>5. /\ files \in Seq(FileEntry) /\ Len(files) = Len(fs)
      /\ \A i \in 1..Len(fs) : files[i].path = fs[i]
  BY <1>2, ScannedFiles
<1>6. tree.files = files /\ tree \in MountManifest /\ DOMAIN files = 1..Len(fs)
  <2>1. Entries(disk.dirs, ds) \in Seq(DirEntry)
    BY <1>2, ScannedDirs
  <2>2. files \in Seq(FileEntry \cup {Tombstone})
    BY <1>5, SeqMonotonic
  <2>3. QED
    BY <1>1, <1>4, <1>5, <2>1, <2>2, LenProperties DEF MountManifest
<1>7. \A i \in 1..Len(fs) : fs[i] \in FilePaths /\ index_of[fs[i]] = i
  <2> TAKE i \in 1..Len(fs)
  <2>1. fs[i] \in PresentFiles(disk)
    BY <1>4, ElementOfSeq
  <2>2. (CHOOSE j \in DOMAIN fs : fs[j] = fs[i]) = i
    BY <1>4
  <2>3. QED
    BY <1>1, <2>1, <2>2, PresentIsFinite
<1>8. \A p \in FilePaths :
        \/ index_of[p] = 0
        \/ index_of[p] \in 1..Len(fs) /\ fs[index_of[p]] = p
  BY <1>1, <1>4
<1>9. log = <<tree>> /\ version = 1 /\ frames = << >> /\ sent = 0
  BY DEF Fresh
<1> HIDE DEF files
<1>10. TypeOK
  <2>1. index_of \in [FilePaths -> 0..Len(tree.files)]
    <3>1. \A p \in FilePaths : index_of[p] \in 0..Len(fs)
      BY <1>4, <1>8
    <3>2. index_of = [p \in FilePaths |-> index_of[p]]
      BY <1>1
    <3>3. QED
      BY <1>5, <1>6, <3>1, <3>2
  <2>2. served \in [DOMAIN tree.files -> FilePaths \cup {0}]
    <3>1. served \in [1..Len(fs) -> PresentFiles(disk)]
      BY <1>1, <1>4, SeqDef
    <3>2. PresentFiles(disk) \subseteq FilePaths
      BY PresentIsFinite
    <3>3. DOMAIN tree.files = 1..Len(fs)
      BY <1>6
    <3>4. QED
      BY <3>1, <3>2, <3>3
  <2>3. log \in Seq(MountManifest) /\ Len(log) = version /\ log[version] = tree
    BY <1>6, <1>9
  <2>4. IsSeq(frames) /\ Len(frames) = version - 1 /\ sent \in 0..Len(frames)
    BY <1>9 DEF IsSeq
  <2>5. touches \in Nat /\ failures \in Nat /\ task = "waiting" /\ scanned = NoScan
    BY DEF Fresh
  <2>6. /\ touches \in Nat /\ failures \in Nat /\ version \in Nat \ {0}
        /\ task \in {"waiting", "settled", "scanned", "sending"}
        /\ task # "sending"
    BY <1>9, <2>5
  <2>7. watching \in BOOLEAN /\ pending \in BOOLEAN
    BY Zenon DEF Fresh
  <2>8. disk \in Disk /\ scanned \in Disk
    BY <1>2, <2>5
  <2>9. QED
    BY <1>6, <2>1, <2>2, <2>3, <2>4, <2>6, <2>7, <2>8, Zenon DEF TypeOK
<1>11. Injective(index_of)
  BY <1>8 DEF Injective
<1>12. SlotsAreRecorded
  <2>1. DOMAIN log = {1} /\ log[1] = tree
    BY <1>9
  <2>2. \A i \in DOMAIN tree.files : index_of[tree.files[i].path] = i
    BY <1>5, <1>6, <1>7
  <2>3. QED
    BY <2>1, <2>2 DEF SlotsAreRecorded
<1>13. ServedMatchesListing
  BY <1>1, <1>5, <1>6 DEF ServedMatchesListing
<1>14. QED
  BY <1>10, <1>11, <1>12, <1>13 DEF SlotInv

\* So does the first state.
LEMMA InitSlots == Init => SlotInv
<1>1. QED
  BY InitIsFresh, FreshSlots

\* Every step keeps it: only an apply touches the tree, and it extends it.
LEMMA SlotStep == SlotInv /\ [Next]_vars => SlotInv'
<1> SUFFICES ASSUME SlotInv, [Next]_vars PROVE SlotInv'
  OBVIOUS
<1>1. TypeOK /\ TypeOK'
  BY TypeStep DEF SlotInv
<1>2. CASE UNCHANGED treeVars
  <2>1. UNCHANGED <<tree, served, index_of, log>>
    BY <1>2 DEF treeVars
  <2>2. QED
    BY <1>1, <2>1 DEF SlotInv, Injective, SlotsAreRecorded, ServedMatchesListing
<1>3. CASE Apply /\ ~UNCHANGED treeVars
  <2>1. /\ log' = Append(log, tree')
        /\ \A p \in FilePaths : index_of[p] # 0 => index_of'[p] = index_of[p]
        /\ Injective(index_of) => Injective(index_of')
        /\ \A i \in DOMAIN tree'.files : tree'.files[i] # Tombstone =>
              index_of'[tree'.files[i].path] = i
        /\ ServedMatchesListing => ServedMatchesListing'
    BY <1>1, <1>3, ApplyStep
  <2>2. SlotsAreRecorded'
    <3> SUFFICES ASSUME NEW v \in DOMAIN log', NEW i \in DOMAIN log'[v].files,
                        log'[v].files[i] # Tombstone
                 PROVE  index_of'[log'[v].files[i].path] = i
      BY DEF SlotsAreRecorded
    <3>1. log \in Seq(MountManifest) /\ DOMAIN log = 1..Len(log) /\ Len(log) \in Nat
      BY <1>1, LenProperties DEF TypeOK
    <3>2. DOMAIN log' = 1..Len(log) + 1 /\ log'[Len(log) + 1] = tree'
          /\ \A w \in 1..Len(log) : log'[w] = log[w]
      <4>1. tree' \in MountManifest
        BY <1>1 DEF TypeOK
      <4>2. log' \in Seq(MountManifest) /\ Len(log') = Len(log) + 1
        BY <2>1, <3>1, <4>1, AppendProperties
      <4>3. QED
        BY <2>1, <3>1, <4>1, <4>2, AppendProperties, LenProperties
    <3>3. CASE v = Len(log) + 1
      BY <2>1, <3>2, <3>3
    <3>4. CASE v \in 1..Len(log)
      <4>1. log[v] \in MountManifest /\ log'[v] = log[v]
        BY <3>1, <3>2, <3>4, ElementOfSeq
      <4>2. log[v].files[i] \in FileEntry \cup {Tombstone} /\ i \in Nat \ {0}
        BY <4>1, ElementOfSeq, LenProperties DEF MountManifest
      <4>3. log[v].files[i].path \in FilePaths
        BY <4>1, <4>2 DEF FileEntry
      <4>4. index_of[log[v].files[i].path] = i
        BY <3>1, <3>4, <4>1 DEF SlotInv, SlotsAreRecorded
      <4>5. QED
        BY <2>1, <4>1, <4>2, <4>3, <4>4
    <3>5. QED
      BY <3>1, <3>2, <3>3, <3>4
  <2>3. QED
    BY <1>1, <2>1, <2>2 DEF SlotInv
<1>4. QED
  BY <1>2, <1>3 DEF Next, Touch, StartWatcher, Settle, Scan, ScanFails, Send, vars, treeVars

-----------------------------------------------------------------------------

\* The state stays what live.rs declares it to be.
THEOREM TypeCorrect == Spec => []TypeOK
<1>1. Init => TypeOK
  BY InitSlots DEF SlotInv
<1>2. TypeOK /\ [Next]_vars => TypeOK'
  BY TypeStep
<1>3. QED
  BY <1>1, <1>2, PTL DEF Spec

\* The inductive invariant holds throughout: slots are given once and recorded
\* where they were published.
THEOREM SlotsInvariant == Spec => []SlotInv
<1>1. QED
  BY InitSlots, SlotStep, PTL DEF Spec

\* READ opens exactly the file the listing names at a slot, and nothing at a
\* tombstone.
THEOREM ServedIsListed == Spec => []ServedMatchesListing
<1>1. SlotInv => ServedMatchesListing
  BY DEF SlotInv
<1>2. QED
  BY <1>1, SlotsInvariant, PTL

\* A slot names one path for the life of the share, and a path one slot.
THEOREM SlotsStable == Spec => []SlotsAreStable
<1>1. SlotInv => SlotsAreStable
  <2> SUFFICES ASSUME SlotInv, NEW v \in DOMAIN log, NEW w \in DOMAIN log,
                      NEW i \in DOMAIN log[v].files, NEW j \in DOMAIN log[w].files,
                      log[v].files[i] # Tombstone, log[w].files[j] # Tombstone
               PROVE  i = j <=> log[v].files[i].path = log[w].files[j].path
    BY DEF SlotsAreStable
  <2> DEFINE p == log[v].files[i].path
             q == log[w].files[j].path
  <2>1. index_of[p] = i /\ index_of[q] = j
    BY DEF SlotInv, SlotsAreRecorded
  <2>2. log[v] \in MountManifest /\ log[w] \in MountManifest
    BY ElementOfSeq, LenProperties DEF SlotInv, TypeOK
  <2>3. log[v].files[i] \in FileEntry /\ log[w].files[j] \in FileEntry /\ i # 0
    BY <2>2, ElementOfSeq, LenProperties DEF MountManifest
  <2>4. p \in FilePaths /\ q \in FilePaths
    BY <2>3 DEF FileEntry
  <2>5. QED
    BY <2>1, <2>3, <2>4 DEF SlotInv, Injective
<1>2. QED
  BY <1>1, SlotsInvariant, PTL

-----------------------------------------------------------------------------

\* A set of numbers that holds 0 and with each number the next holds them all.
LEMMA SetInduction ==
    ASSUME NEW S, 0 \in S, \A n \in Nat : n \in S => n + 1 \in S
    PROVE  Nat \subseteq S
<1> DEFINE rest == Nat \ S
<1> SUFFICES ASSUME rest # {}  PROVE FALSE
  OBVIOUS
<1>1. PICK n \in rest : \A m \in rest : ~ (<<m, n>> \in OpToRel(<, Nat))
  <2>1. rest \subseteq Nat
    OBVIOUS
  <2> HIDE DEF rest
  <2>2. QED
    BY <2>1, NatLessThanWellFounded, WFMin
<1>2. \A m \in rest : ~ (m < n)
  BY <1>1 DEF OpToRel
<1>3. n \in Nat /\ n # 0 /\ n - 1 \in Nat /\ n - 1 < n /\ n = (n - 1) + 1
  OBVIOUS
<1>4. n - 1 \in S
  BY <1>2, <1>3
<1>5. QED
  BY <1>3, <1>4

-----------------------------------------------------------------------------

\* What Only takes of the first entries, one after the other.
Takes(taken, entries, keep) ==
    taken = [i \in 0..Len(entries) |->
                IF i = 0 THEN << >>
                ELSE IF entries[i] \in keep THEN Append(taken[i - 1], entries[i])
                     ELSE taken[i - 1]]

\* Only is what has been taken after the last entry.
LEMMA OnlyTakes ==
    ASSUME NEW entries, Len(entries) \in Nat, NEW keep
    PROVE  \E taken : Takes(taken, entries, keep) /\ Only(entries, keep) = taken[Len(entries)]
<1> DEFINE upto(g, n) ==
             g = [i \in 0..n |->
                    IF i = 0 THEN << >>
                    ELSE IF entries[i] \in keep THEN Append(g[i - 1], entries[i]) ELSE g[i - 1]]
           S == {n \in Nat : \E g : upto(g, n)}
<1>1. 0 \in S
  <2>1. upto([i \in 0..0 |-> << >>], 0)
    OBVIOUS
  <2>2. QED
    BY <2>1
<1>2. ASSUME NEW n \in Nat, n \in S  PROVE n + 1 \in S
  <2>1. PICK g : upto(g, n)
    BY <1>2
  <2> DEFINE last == IF entries[n + 1] \in keep THEN Append(g[n], entries[n + 1]) ELSE g[n]
             h == [i \in 0..n + 1 |-> IF i = n + 1 THEN last ELSE g[i]]
             body(i) == IF i = 0 THEN << >>
                        ELSE IF entries[i] \in keep THEN Append(h[i - 1], entries[i]) ELSE h[i - 1]
  <2>2. \A i \in 0..n + 1 : h[i] = body(i)
    <3> TAKE i \in 0..n + 1
    <3>1. CASE i = n + 1
      <4>1. h[i] = last /\ h[i - 1] = g[n] /\ i # 0 /\ i - 1 = n
        BY <3>1
      <4>2. QED
        BY <3>1, <4>1
    <3>2. CASE i # n + 1
      <4>1. i \in 0..n /\ h[i] = g[i] /\ (i # 0 => i - 1 \in 0..n /\ h[i - 1] = g[i - 1])
        BY <3>2
      <4>2. g[i] = IF i = 0 THEN << >>
                   ELSE IF entries[i] \in keep THEN Append(g[i - 1], entries[i]) ELSE g[i - 1]
        BY <2>1, <4>1
      <4>3. QED
        <5> HIDE DEF h
        <5> QED  BY <4>1, <4>2
    <3>3. QED
      BY <3>1, <3>2
  <2>3. h = [i \in 0..n + 1 |-> h[i]]
    OBVIOUS
  <2>4. upto(h, n + 1)
    <3> HIDE DEF h
    <3> QED  BY <2>2, <2>3
  <2>5. \E f : upto(f, n + 1)
    <3> HIDE DEF h, upto
    <3> QED  BY <2>4
  <2>6. QED
    <3> HIDE DEF upto
    <3> QED  BY <2>5
<1>3. Len(entries) \in S
  <2> HIDE DEF S
  <2> QED  BY <1>1, <1>2, SetInduction
<1>4. \E taken : Takes(taken, entries, keep)
  BY <1>3 DEF Takes
<1>5. Only(entries, keep) = (CHOOSE taken : Takes(taken, entries, keep))[Len(entries)]
  BY DEF Only, Takes
<1>6. QED
  BY <1>4, <1>5

\* Only keeps what it is told to, all of it, in order.
LEMMA OnlyIs ==
    ASSUME NEW entries, IsSeq(entries), NEW keep
    PROVE  /\ Only(entries, keep) \in Seq(EntriesOf(entries) \cap keep)
           /\ EntriesOf(Only(entries, keep)) = EntriesOf(entries) \cap keep
           /\ EntriesOf(entries) \subseteq keep => Only(entries, keep) = entries
           /\ EntriesOf(entries) \cap keep = {} => Only(entries, keep) = << >>
<1> DEFINE n == Len(entries)
           E == EntriesOf(entries) \cap keep
<1>1. /\ n \in Nat /\ DOMAIN entries = 1..n /\ entries \in Seq(EntriesOf(entries))
      /\ \A i \in 1..n : entries[i] \in EntriesOf(entries)
  BY LenProperties DEF IsSeq, EntriesOf
<1>2. PICK taken : Takes(taken, entries, keep) /\ Only(entries, keep) = taken[n]
  BY <1>1, OnlyTakes
<1> DEFINE Good(i) ==
             /\ taken[i] \in Seq(E) /\ EntriesOf(taken[i]) = {entries[j] : j \in 1..i} \cap keep
             /\ EntriesOf(entries) \subseteq keep =>
                    Len(taken[i]) = i /\ \A j \in 1..i : taken[i][j] = entries[j]
           S == {i \in Nat : i <= n => Good(i)}
<1> HIDE DEF n, E
<1>3. taken[0] = << >> /\ \A i \in 1..n : taken[i] = IF entries[i] \in keep
                                                       THEN Append(taken[i - 1], entries[i])
                                                       ELSE taken[i - 1]
  <2>1. taken = [i \in 0..n |->
                    IF i = 0 THEN << >>
                    ELSE IF entries[i] \in keep THEN Append(taken[i - 1], entries[i])
                         ELSE taken[i - 1]]
    BY <1>2 DEF Takes, n
  <2>2. 0 \in 0..n /\ \A i \in 1..n : i \in 0..n /\ i # 0
    BY <1>1
  <2>3. QED
    BY <2>1, <2>2
<1>4. 0 \in S
  <2>1. << >> \in Seq(E) /\ Len(<< >>) = 0 /\ EntriesOf(<< >>) = {}
    BY DEF EntriesOf
  <2>2. 1..0 = {}
    OBVIOUS
  <2>3. QED
    BY <1>3, <2>1, <2>2
<1>5. ASSUME NEW i \in Nat, i \in S  PROVE i + 1 \in S
  <2> SUFFICES ASSUME i + 1 <= n  PROVE Good(i + 1)
    OBVIOUS
  <2>1. Good(i) /\ i + 1 \in 1..n /\ i + 1 - 1 = i
    BY <1>1, <1>5
  <2>2. entries[i + 1] \in EntriesOf(entries)
    BY <1>1, <2>1
  <2>3. {entries[j] : j \in 1..i + 1} = {entries[j] : j \in 1..i} \cup {entries[i + 1]}
    <3>1. 1..i + 1 = 1..i \cup {i + 1}
      OBVIOUS
    <3>2. QED
      BY <3>1
  <2>4. CASE entries[i + 1] \in keep
    <3> DEFINE t == taken[i]
               x == entries[i + 1]
    <3>1. taken[i + 1] = Append(t, x)
      <4>1. i + 1 \in 1..n /\ i + 1 - 1 = i
        BY <2>1
      <4>2. taken[i + 1] = Append(taken[i + 1 - 1], entries[i + 1])
        <5> DEFINE k == i + 1
        <5>1. k \in 1..n /\ entries[k] \in keep
          BY <2>4, <4>1
        <5> HIDE DEF k
        <5>2. taken[k] = Append(taken[k - 1], entries[k])
          BY <1>3, <5>1
        <5>3. QED
          BY <5>2 DEF k
      <4>3. QED
        BY <4>1, <4>2
    <3>11. x \in E
      BY <2>2, <2>4 DEF E
    <3>2. t \in Seq(E) /\ EntriesOf(t) = {entries[j] : j \in 1..i} \cap keep
      BY <2>1
    <3>3. EntriesOf(entries) \subseteq keep => Len(t) = i /\ \A j \in 1..i : t[j] = entries[j]
      BY <2>1
    <3> HIDE DEF t, x
    <3>4. /\ Append(t, x) \in Seq(E) /\ Len(Append(t, x)) = Len(t) + 1
          /\ Append(t, x)[Len(t) + 1] = x /\ \A j \in 1..Len(t) : Append(t, x)[j] = t[j]
      BY <3>11, <3>2, AppendProperties
    <3>5. DOMAIN t = 1..Len(t) /\ Len(t) \in Nat
      BY <3>2, LenProperties
    <3>6. DOMAIN Append(t, x) = 1..Len(t) \cup {Len(t) + 1}
      <4>1. DOMAIN Append(t, x) = 1..Len(t) + 1
        BY <3>4, LenProperties
      <4>2. 1..Len(t) + 1 = 1..Len(t) \cup {Len(t) + 1}
        BY <3>5
      <4>3. QED
        BY <4>1, <4>2
    <3>7. EntriesOf(Append(t, x)) = EntriesOf(t) \cup {x}
      BY <3>4, <3>5, <3>6 DEF EntriesOf
    <3>8. EntriesOf(Append(t, x)) = {entries[j] : j \in 1..i + 1} \cap keep
      BY <2>3, <2>4, <3>2, <3>7 DEF x
    <3>9. ASSUME EntriesOf(entries) \subseteq keep
          PROVE  Len(Append(t, x)) = i + 1 /\ \A j \in 1..i + 1 : Append(t, x)[j] = entries[j]
      <4>1. Len(t) = i /\ \A j \in 1..i : t[j] = entries[j]
        BY <3>3, <3>9
      <4>2. \A j \in 1..i + 1 : j \in 1..i \/ j = i + 1
        OBVIOUS
      <4>3. QED
        BY <3>4, <4>1, <4>2 DEF x
    <3>10. QED
      BY <3>1, <3>4, <3>8, <3>9
  <2>5. CASE entries[i + 1] \notin keep
    <3>1. taken[i + 1] = taken[i]
      BY <1>3, <2>1, <2>5
    <3>2. EntriesOf(taken[i]) = {entries[j] : j \in 1..i + 1} \cap keep
      BY <2>1, <2>3, <2>5
    <3>3. ~ (EntriesOf(entries) \subseteq keep)
      BY <2>2, <2>5
    <3>4. QED
      BY <2>1, <3>1, <3>2, <3>3
  <2>6. QED
    BY <2>4, <2>5
<1>6. Good(n)
  <2>1. Nat \subseteq S
    <3> HIDE DEF S
    <3> QED  BY <1>4, <1>5, SetInduction
  <2>2. n \in Nat /\ n <= n
    BY <1>1
  <2>3. n \in S
    BY <2>1, <2>2
  <2>4. QED
    BY <2>2, <2>3
<1>7. EntriesOf(entries) = {entries[j] : j \in 1..n}
  BY <1>1 DEF EntriesOf
<1>8. Only(entries, keep) = taken[n]
  BY <1>2
<1>9. ASSUME EntriesOf(entries) \subseteq keep  PROVE taken[n] = entries
  <2>1. Len(taken[n]) = n /\ (\A j \in 1..n : taken[n][j] = entries[j]) /\ taken[n] \in Seq(E)
    BY <1>6, <1>9
  <2>2. QED
    BY <1>1, <2>1, SeqEqual DEF n
<1>10. ASSUME E = {}  PROVE taken[n] = << >>
  <2>1. taken[n] \in Seq(E)
    BY <1>6
  <2>2. QED
    BY <1>10, <2>1, EmptySeq, LenProperties
<1>11. QED
  BY <1>6, <1>7, <1>8, <1>9, <1>10 DEF E

-----------------------------------------------------------------------------

\* A sequence over any set is one over its own entries, numbered from 1.
LEMMA SeqIsSeq ==
    ASSUME NEW S, NEW s \in Seq(S)
    PROVE  /\ IsSeq(s) /\ EntriesOf(s) \subseteq S
           /\ Len(s) \in Nat /\ DOMAIN s = 1..Len(s)
           /\ EntriesOf(s) = {s[i] : i \in 1..Len(s)}
<1>1. Len(s) \in Nat /\ DOMAIN s = 1..Len(s) /\ s \in [1..Len(s) -> S]
  BY LenProperties
<1>2. s \in [1..Len(s) -> EntriesOf(s)]
  BY <1>1 DEF EntriesOf
<1>3. s \in Seq(EntriesOf(s))
  BY <1>1, <1>2, SeqDef
<1>4. QED
  BY <1>1, <1>3 DEF IsSeq, EntriesOf

\* A concatenation has the entries of both.
LEMMA ConcatEntries ==
    ASSUME NEW s, IsSeq(s), NEW t, IsSeq(t)
    PROVE  IsSeq(s \o t) /\ EntriesOf(s \o t) = EntriesOf(s) \cup EntriesOf(t)
<1> DEFINE S == EntriesOf(s) \cup EntriesOf(t)
           c == s \o t
<1>1. s \in Seq(S) /\ t \in Seq(S)
  BY SeqMonotonic DEF IsSeq
<1>2. /\ c \in Seq(S) /\ Len(c) = Len(s) + Len(t)
      /\ \A i \in 1..Len(s) + Len(t) : c[i] = IF i <= Len(s) THEN s[i] ELSE t[i - Len(s)]
  BY <1>1, ConcatProperties
<1>3. /\ IsSeq(c) /\ EntriesOf(c) \subseteq S /\ EntriesOf(c) = {c[i] : i \in 1..Len(c)}
      /\ Len(s) \in Nat /\ EntriesOf(s) = {s[i] : i \in 1..Len(s)}
      /\ Len(t) \in Nat /\ EntriesOf(t) = {t[i] : i \in 1..Len(t)}
  <2> HIDE DEF c, S
  <2> QED  BY <1>1, <1>2, SeqIsSeq
<1>4. ASSUME NEW e \in EntriesOf(s)  PROVE e \in EntriesOf(c)
  <2> HIDE DEF c, S
  <2>1. PICK i \in 1..Len(s) : s[i] = e
    BY <1>3, <1>4
  <2>2. i \in 1..Len(c) /\ c[i] = e
    BY <1>2, <1>3, <2>1
  <2>3. QED
    BY <1>3, <2>2
<1>5. ASSUME NEW e \in EntriesOf(t)  PROVE e \in EntriesOf(c)
  <2> HIDE DEF c, S
  <2>1. PICK i \in 1..Len(t) : t[i] = e
    BY <1>3, <1>5
  <2> DEFINE k == Len(s) + i
  <2>2. k \in 1..Len(s) + Len(t) /\ ~ (k <= Len(s)) /\ k - Len(s) = i
    BY <1>3, <2>1
  <2> HIDE DEF k
  <2>3. c[k] = t[i]
    BY <1>2, <2>2
  <2>4. QED
    BY <1>2, <1>3, <2>1, <2>2, <2>3
<1>6. QED
  BY <1>3, <1>4, <1>5

\* No path is listed twice.
UniquePaths(entries) == \A e, f \in EntriesOf(entries) : e.path = f.path => e = f

\* The paths of a listing are those of its entries.
LEMMA PathsOfEntries ==
    ASSUME NEW s
    PROVE  PathsOf(s) = {e.path : e \in EntriesOf(s)}
BY DEF PathsOf, EntriesOf

\* A difference of two directory tables, applied to a table with the entries of
\* either, gives one with the entries of the newer: that table itself where it
\* was already there.
LEMMA DirsFollow ==
    ASSUME NEW old, IsSeq(old), UniquePaths(old), NEW new, IsSeq(new), UniquePaths(new),
           NEW d, d.dirs_upserted = Only(new, EntriesOf(new) \ EntriesOf(old)),
           d.dirs_removed = PathsOf(old) \ PathsOf(new),
           NEW dirs, IsSeq(dirs), EntriesOf(dirs) \in {EntriesOf(old), EntriesOf(new)}
    PROVE  /\ IsSeq(ApplyDirs(dirs, d))
           /\ EntriesOf(ApplyDirs(dirs, d)) = EntriesOf(new)
           /\ dirs = new => ApplyDirs(dirs, d) = new
<1> DEFINE O == EntriesOf(old)
           N == EntriesOf(new)
           B == EntriesOf(dirs)
           ups == d.dirs_upserted
           U == EntriesOf(ups)
           R == d.dirs_removed
           stay == {e \in B : e.path \notin R}
           kept == Only(dirs, stay)
           K == EntriesOf(kept)
           change(k) == IF \E e \in U : e.path = k.path
                        THEN CHOOSE e \in U : e.path = k.path ELSE k
           updated == [i \in DOMAIN kept |-> change(kept[i])]
           late == {e \in U : e.path \notin PathsOf(kept)}
           appended == Only(ups, late)
<1>1. ApplyDirs(dirs, d) = updated \o appended
  BY DEF ApplyDirs
<1>2. IsSeq(ups) /\ U = N \ O
  <2>1. ups \in Seq(N \cap (N \ O)) /\ EntriesOf(ups) = N \cap (N \ O)
    BY OnlyIs
  <2>2. QED
    BY <2>1, SeqIsSeq
<1>3. R = {e.path : e \in O} \ {e.path : e \in N}
  BY PathsOfEntries
<1>4. IsSeq(kept) /\ K = stay /\ (B \subseteq stay => kept = dirs)
  <2>1. kept \in Seq(B \cap stay) /\ EntriesOf(kept) = B \cap stay
        /\ (B \subseteq stay => kept = dirs)
    <3> HIDE DEF stay
    <3> QED  BY OnlyIs
  <2>2. QED
    BY <2>1, SeqIsSeq
<1>5. IsSeq(appended) /\ EntriesOf(appended) = late /\ (late = {} => appended = << >>)
  <2>1. appended \in Seq(U \cap late) /\ EntriesOf(appended) = U \cap late
        /\ (U \cap late = {} => appended = << >>)
    <3> HIDE DEF late, ups
    <3> QED  BY <1>2, OnlyIs
  <2>2. late \subseteq U
    OBVIOUS
  <2>3. IsSeq(appended)
    <3> HIDE DEF appended, U, late
    <3> QED  BY <2>1, SeqIsSeq
  <2>4. U \cap late = late
    BY <2>2
  <2>5. QED
    <3> HIDE DEF appended, U, late
    <3> QED  BY <2>1, <2>3, <2>4
<1>6. late = {e \in U : \A k \in K : k.path # e.path}
  BY PathsOfEntries
<1>7. IsSeq(updated) /\ EntriesOf(updated) = {change(k) : k \in K}
      /\ ((\A k \in K : change(k) = k) => updated = kept)
  <2> HIDE DEF kept, change
  <2>1. Len(kept) \in Nat /\ DOMAIN kept = 1..Len(kept) /\ kept \in [1..Len(kept) -> K]
    BY <1>4, LenProperties DEF IsSeq
  <2> DEFINE T == {change(k) : k \in K}
  <2>2. updated \in [1..Len(kept) -> T]
    BY <2>1
  <2>3. updated \in Seq(T)
    <3> HIDE DEF updated, T
    <3> QED  BY <2>1, <2>2, SeqDef
  <2>4. IsSeq(updated)
    <3> HIDE DEF updated, T
    <3> QED  BY <2>3, SeqIsSeq
  <2>5. EntriesOf(updated) = T
    BY <2>1 DEF EntriesOf
  <2>6. ASSUME \A k \in K : change(k) = k  PROVE updated = kept
    BY <2>1, <2>6
  <2>7. QED
    BY <2>4, <2>5, <2>6
<1>8. /\ \A e, f \in O : e.path = f.path => e = f
      /\ \A e, f \in N : e.path = f.path => e = f
      /\ B \in {O, N}
  BY DEF UniquePaths
<1> HIDE DEF O, N, B, U, R, K, kept, updated, appended, late
<1>9. ASSUME NEW k \in K  PROVE change(k) \in N
  <2>1. CASE \E e \in U : e.path = k.path
    <3>1. change(k) \in U
      BY <2>1
    <3>2. QED
      BY <1>2, <3>1
  <2>2. CASE ~ \E e \in U : e.path = k.path
    <3>1. change(k) = k /\ k \in B /\ k.path \notin R
      BY <1>4, <1>9, <2>2
    <3>2. CASE B = N
      BY <3>1, <3>2
    <3>3. CASE B = O
      <4>1. PICK n \in N : n.path = k.path
        BY <1>3, <3>1, <3>3
      <4>2. n \in O
        BY <1>2, <2>2, <4>1
      <4>3. QED
        BY <1>8, <3>1, <3>3, <4>1, <4>2
    <3>4. QED
      BY <1>8, <3>2, <3>3
  <2>3. QED
    BY <2>1, <2>2
<1>10. ASSUME NEW k \in K, NEW n \in N, n.path = k.path  PROVE change(k) = n
  <2>1. CASE n \in U
    <3>1. change(k) \in U /\ change(k).path = k.path
      BY <1>10, <2>1
    <3>2. QED
      BY <1>2, <1>8, <1>10, <3>1
  <2>2. CASE n \notin U
    <3>1. n \in O
      BY <1>2, <2>2
    <3>2. ~ \E e \in U : e.path = k.path
      BY <1>2, <1>8, <1>10, <2>2
    <3>3. change(k) = k /\ k \in B
      BY <1>4, <1>10, <3>2
    <3>4. QED
      BY <1>8, <1>10, <3>1, <3>3
  <2>3. QED
    BY <2>1, <2>2
<1>11. ASSUME NEW n \in N, \A k \in K : k.path # n.path  PROVE n \in late
  <2>1. CASE n \in U
    BY <1>6, <1>11, <2>1
  <2>2. CASE n \notin U
    <3>1. n \in B /\ n.path \notin R
      BY <1>2, <1>3, <1>8, <2>2
    <3>2. QED
      BY <1>4, <1>11, <3>1
  <2>3. QED
    BY <2>1, <2>2
<1>12. {change(k) : k \in K} \cup late = N
  <2> HIDE DEF change
  <2>1. late \subseteq N
    BY <1>2, <1>6
  <2>2. N \subseteq {change(k) : k \in K} \cup late
    BY <1>10, <1>11
  <2>3. QED
    BY <1>9, <2>1, <2>2
<1>13. IsSeq(ApplyDirs(dirs, d)) /\ EntriesOf(ApplyDirs(dirs, d)) = N
  <2>1. IsSeq(updated \o appended)
        /\ EntriesOf(updated \o appended) = EntriesOf(updated) \cup EntriesOf(appended)
    BY <1>5, <1>7, ConcatEntries
  <2>2. EntriesOf(updated) \cup EntriesOf(appended) = N
    BY <1>5, <1>7, <1>12
  <2>3. QED
    BY <1>1, <2>1, <2>2
<1>14. ASSUME dirs = new  PROVE ApplyDirs(dirs, d) = new
  <2>1. B = N
    BY <1>14 DEF B, N
  <2>2. B \subseteq stay /\ K = N
    BY <1>3, <1>4, <2>1
  <2>3. \A k \in K : change(k) = k
    BY <1>10, <2>2
  <2>4. updated = new
    BY <1>4, <1>7, <1>14, <2>2, <2>3
  <2>5. late = {}
    BY <1>2, <1>6, <2>2
  <2>6. updated \o << >> = new
    BY <2>4, ConcatEmptySeq DEF IsSeq
  <2>7. QED
    BY <1>1, <1>5, <2>5, <2>6
<1>15. QED
  BY <1>13, <1>14 DEF N

-----------------------------------------------------------------------------

\* What a tree keeps of the one before: directories are listed once, slots stay,
\* and a new slot names a file.
Succeeds(old, new) ==
    /\ old \in MountManifest /\ new \in MountManifest
    /\ UniquePaths(old.dirs) /\ UniquePaths(new.dirs)
    /\ Len(old.files) <= Len(new.files)
    /\ \A i \in 1..Len(new.files) : i > Len(old.files) => new.files[i] # Tombstone

\* The difference of two file tables, applied to either, is the newer.
LEMMA FilesFollow ==
    ASSUME NEW old, NEW new, Succeeds(old, new), NEW files \in {old.files, new.files}
    PROVE  ApplyFiles(files, DeltaBetween(old, new)) = new.files
<1> DEFINE d == DeltaBetween(old, new)
           n == Len(new.files)
           ups == {i \in DOMAIN new.files :
                     /\ new.files[i] # Tombstone
                     /\ i \in DOMAIN old.files => old.files[i] # new.files[i]}
           sizes == {Len(files)} \cup DOMAIN d.files_upserted
           size == CHOOSE k \in sizes : \A m \in sizes : m <= k
           at(i) == IF i \in d.files_removed THEN Tombstone
                    ELSE IF i \in DOMAIN d.files_upserted THEN d.files_upserted[i]
                    ELSE IF i \in DOMAIN files THEN files[i]
                    ELSE Tombstone
<1>1. /\ DOMAIN d.files_upserted = ups /\ \A i \in ups : d.files_upserted[i] = new.files[i]
      /\ d.files_removed = {i \in DOMAIN old.files :
                              old.files[i] # Tombstone /\ new.files[i] = Tombstone}
  BY DEF DeltaBetween
<1>2. ApplyFiles(files, d) = [i \in 1..size |-> at(i)]
  BY DEF ApplyFiles
<1>3. /\ n \in Nat /\ DOMAIN new.files = 1..n /\ Len(old.files) \in Nat
      /\ DOMAIN old.files = 1..Len(old.files) /\ Len(old.files) <= n
      /\ new.files = [i \in 1..n |-> new.files[i]]
  <2>1. /\ old.files \in Seq(FileEntry \cup {Tombstone})
        /\ new.files \in Seq(FileEntry \cup {Tombstone})
    BY DEF Succeeds, MountManifest
  <2>2. new.files \in [1..n -> FileEntry \cup {Tombstone}]
    BY <2>1, LenProperties
  <2>3. QED
    BY <2>1, <2>2, LenProperties DEF Succeeds
<1>4. \A i \in 1..n : i > Len(old.files) => new.files[i] # Tombstone
  BY DEF Succeeds
<1> HIDE DEF d, n
<1>5. size = n
  <2>1. n \in sizes
    <3>1. CASE Len(files) = n
      BY <3>1
    <3>2. CASE Len(files) # n
      <4>1. n > Len(old.files) /\ n \in 1..n
        BY <1>3, <3>2 DEF n
      <4>2. n \in ups
        BY <1>3, <1>4, <4>1
      <4>3. QED
        BY <1>1, <4>2
    <3>3. QED
      BY <3>1, <3>2
  <2>2. \A m \in sizes : m \in Nat /\ m <= n
    <3>1. \A m \in ups : m \in Nat /\ m <= n
      BY <1>3
    <3>2. Len(files) \in Nat /\ Len(files) <= n
      BY <1>3 DEF n
    <3>3. QED
      BY <1>1, <3>1, <3>2
  <2> HIDE DEF sizes
  <2>3. size \in sizes /\ \A m \in sizes : m <= size
    BY <2>1, <2>2
  <2>4. QED
    <3> HIDE DEF size
    <3> QED  BY <1>3, <2>1, <2>2, <2>3
<1>6. ASSUME NEW i \in 1..n  PROVE at(i) = new.files[i]
  <2>1. CASE i \in d.files_removed
    BY <1>1, <2>1
  <2>2. CASE i \notin d.files_removed /\ i \in ups
    BY <1>1, <2>2
  <2>3. CASE i \notin d.files_removed /\ i \notin ups
    <3>1. at(i) = IF i \in DOMAIN files THEN files[i] ELSE Tombstone
      BY <1>1, <2>3
    <3>2. CASE new.files[i] = Tombstone
      <4>1. i \in DOMAIN old.files /\ old.files[i] = Tombstone
        BY <1>1, <1>3, <1>4, <2>3, <3>2
      <4>2. QED
        BY <1>3, <3>1, <3>2, <4>1
    <3>3. CASE new.files[i] # Tombstone
      <4>1. i \in DOMAIN old.files /\ old.files[i] = new.files[i]
        BY <1>3, <2>3, <3>3
      <4>2. QED
        BY <1>3, <3>1, <4>1
    <3>4. QED
      BY <3>2, <3>3
  <2>4. QED
    BY <2>1, <2>2, <2>3
<1>7. [i \in 1..size |-> at(i)] = [i \in 1..n |-> new.files[i]]
  <2> HIDE DEF size, at
  <2> QED  BY <1>5, <1>6
<1>8. QED
  <2> HIDE DEF size, at
  <2> QED  BY <1>2, <1>3, <1>7 DEF d

\* The difference of two trees, applied to either, leads to the newer: in content,
\* and to that very tree where it was held already.
LEMMA DeltaFollows ==
    ASSUME NEW old, NEW new, Succeeds(old, new), NEW m, IsSeq(m.dirs),
           SameContent(m, old) \/ SameContent(m, new)
    PROVE  /\ IsSeq(ApplyDelta(m, DeltaBetween(old, new)).dirs)
           /\ SameContent(ApplyDelta(m, DeltaBetween(old, new)), new)
           /\ m = new => ApplyDelta(m, DeltaBetween(old, new)) = new
<1> DEFINE d == DeltaBetween(old, new)
           r == ApplyDelta(m, d)
<1>1. r.dirs = ApplyDirs(m.dirs, d) /\ r.files = ApplyFiles(m.files, d)
      /\ r = [dirs |-> ApplyDirs(m.dirs, d), files |-> ApplyFiles(m.files, d)]
  BY DEF ApplyDelta
<1>2. m.files \in {old.files, new.files} /\ EntriesOf(m.dirs) \in {EntriesOf(old.dirs), EntriesOf(new.dirs)}
  BY DEF SameContent
<1>3. ApplyFiles(m.files, d) = new.files
  BY <1>2, FilesFollow
<1>4. /\ d.dirs_upserted = Only(new.dirs, EntriesOf(new.dirs) \ EntriesOf(old.dirs))
      /\ d.dirs_removed = PathsOf(old.dirs) \ PathsOf(new.dirs)
  BY DEF DeltaBetween
<1>5. IsSeq(old.dirs) /\ IsSeq(new.dirs)
  BY SeqIsSeq DEF Succeeds, MountManifest
<1>6. /\ IsSeq(ApplyDirs(m.dirs, d)) /\ EntriesOf(ApplyDirs(m.dirs, d)) = EntriesOf(new.dirs)
      /\ m.dirs = new.dirs => ApplyDirs(m.dirs, d) = new.dirs
  <2> HIDE DEF d
  <2> QED  BY <1>2, <1>4, <1>5, DirsFollow DEF Succeeds
<1>7. new = [dirs |-> new.dirs, files |-> new.files]
  BY DEF Succeeds, MountManifest
<1>8. QED
  <2> HIDE DEF d, r
  <2> QED  BY <1>1, <1>3, <1>6, <1>7 DEF SameContent, r, d

-----------------------------------------------------------------------------

\* What an apply may broadcast for a new version.
FramesOf(v, old, new) ==
    {DeltaFrame(v, Sign(v, new), DeltaBetween(old, new)), ManifestFrame(Seal(v, new))}

Link(v, old, new) == [version |-> v, delta |-> DeltaBetween(old, new)]

\* Every published tree succeeds the one before; frames and remembered links are
\* the differences of the trees they are numbered by.
TreesSucceed ==
    /\ \A v \in 1..version : UniquePaths(log[v].dirs)
    /\ \A v \in 1..version - 1 : Succeeds(log[v], log[v + 1])

FramesAreTheirs == \A k \in 1..version - 1 : frames[k] \in FramesOf(k + 1, log[k], log[k + 1])

LinksAreTheirs ==
    /\ IsSeq(history)
    /\ \A e \in EntriesOf(history) :
        e.version \in 2..version /\ e = Link(e.version, log[e.version - 1], log[e.version])

DeltaInv == TypeOK /\ TreesSucceed /\ FramesAreTheirs /\ LinksAreTheirs

\* A scan lists every directory once.
LEMMA ListedOnce ==
    ASSUME NEW d \in Disk, NEW ds \in Listings(PresentDirs(d))
    PROVE  UniquePaths(Entries(d.dirs, ds))
<1> DEFINE entries == Entries(d.dirs, ds)
<1>1. \A i, j \in DOMAIN ds : ds[i] = ds[j] => i = j
  <2>1. IsFiniteSet(PresentDirs(d)) /\ PresentDirs(d) \subseteq Nat
    BY PresentIsFinite, PathsAssumption
  <2>2. QED
    BY <2>1, ListingProperties
<1>2. DOMAIN entries = DOMAIN ds /\ \A i \in DOMAIN ds : entries[i].path = ds[i]
  BY DEF Entries
<1> HIDE DEF entries
<1>3. QED
  BY <1>1, <1>2 DEF UniquePaths, EntriesOf, entries

\* The trees of the log are well formed, and the last of them is the tree.
LEMMA LoggedTrees ==
    ASSUME TypeOK
    PROVE  /\ \A v \in 1..version : log[v] \in MountManifest
           /\ version \in Nat \ {0} /\ DOMAIN log = 1..version /\ log[version] = tree
           /\ tree \in MountManifest
<1>1. log \in Seq(MountManifest) /\ Len(log) = version /\ version \in Nat \ {0}
  BY DEF TypeOK
<1>2. QED
  BY <1>1, ElementOfSeq, LenProperties DEF TypeOK

\* A part of a sequence has entries of it.
LEMMA SubSeqEntries ==
    ASSUME NEW s, IsSeq(s), NEW k \in 1..Len(s) + 1
    PROVE  IsSeq(SubSeq(s, k, Len(s))) /\ EntriesOf(SubSeq(s, k, Len(s))) \subseteq EntriesOf(s)
<1>1. s \in Seq(EntriesOf(s)) /\ Len(s) \in Nat
  BY LenProperties DEF IsSeq
<1>2. SubSeq(s, k, Len(s)) \in Seq(EntriesOf(s))
  BY <1>1, SubSeqProperties
<1>3. QED
  BY <1>2, SeqIsSeq

\* What an apply does to the log, the frames and the history.
LEMMA PublishStep ==
    ASSUME TypeOK, Apply
    PROVE  \/ UNCHANGED <<treeVars, frames>>
           \/ /\ UniquePaths(tree.dirs) => Succeeds(tree, tree')
              /\ UniquePaths(tree'.dirs)
              /\ version' = version + 1 /\ log' = Append(log, tree')
              /\ \E frame \in FramesOf(version + 1, tree, tree') : frames' = Append(frames, frame)
              /\ \/ history' = << >>
                 \/ \E k \in 1..Len(history) + 2 :
                      LET all == Append(history, Link(version + 1, tree, tree'))
                      IN  k \in 1..Len(all) + 1 /\ history' = SubSeq(all, k, Len(all))
<1>1. PICK ds \in Listings(PresentDirs(scanned)), fresh \in Listings(Unslotted) :
        LET slots == NewIndexOf(fresh)
            size == Len(tree.files) + Len(fresh)
            new == [dirs  |-> Entries(scanned.dirs, ds),
                    files |-> NewFiles(scanned, slots, size)]
            delta == DeltaBetween(tree, new)
        IN  IF IsEmptyDelta(delta)
            THEN UNCHANGED <<treeVars, frames>>
            ELSE /\ tree' = new
                 /\ version' = version + 1
                 /\ log' = Append(log, new)
                 /\ IF DeltaSize(delta) <= MaxDelta
                    THEN /\ frames' = Append(frames,
                               DeltaFrame(version + 1, Sign(version + 1, new), delta))
                         /\ \E k \in 1..Len(history) + 2 :
                               Remember(history, [version |-> version + 1, delta |-> delta], k)
                    ELSE /\ frames' = Append(frames, ManifestFrame(Seal(version + 1, new)))
                         /\ history' = << >>
  BY DEF Apply, Unslotted
<1> DEFINE slots == NewIndexOf(fresh)
           size == Len(tree.files) + Len(fresh)
           new == [dirs  |-> Entries(scanned.dirs, ds),
                   files |-> NewFiles(scanned, slots, size)]
           delta == DeltaBetween(tree, new)
<1>2. CASE IsEmptyDelta(delta)
  BY <1>1, <1>2
<1>3. CASE ~IsEmptyDelta(delta)
  <2>1. /\ tree' = new /\ version' = version + 1 /\ log' = Append(log, new)
        /\ IF DeltaSize(delta) <= MaxDelta
           THEN /\ frames' = Append(frames,
                      DeltaFrame(version + 1, Sign(version + 1, new), delta))
                /\ \E k \in 1..Len(history) + 2 :
                      Remember(history, [version |-> version + 1, delta |-> delta], k)
           ELSE /\ frames' = Append(frames, ManifestFrame(Seal(version + 1, new)))
                /\ history' = << >>
    BY <1>1, <1>3
  <2>2. /\ size \in Nat /\ Len(tree.files) \in 0..size
        /\ new.files \in Seq(FileEntry \cup {Tombstone}) /\ Len(new.files) = size
        /\ \A i \in 1..size : i > Len(tree.files) => new.files[i] # Tombstone
    BY FoldedScan
  <2>3. new.dirs \in Seq(DirEntry) /\ UniquePaths(new.dirs)
    BY ScannedDirs, ListedOnce DEF TypeOK
  <2> HIDE DEF slots, size
  <2>4. new \in MountManifest
    BY <2>2, <2>3 DEF MountManifest
  <2> HIDE DEF new
  <2>5. UniquePaths(tree.dirs) => Succeeds(tree, new)
    BY <2>2, <2>3, <2>4 DEF Succeeds, TypeOK
  <2>6. \E frame \in FramesOf(version + 1, tree, new) : frames' = Append(frames, frame)
    BY <2>1 DEF FramesOf
  <2>7. \/ history' = << >>
        \/ \E k \in 1..Len(history) + 2 :
             LET all == Append(history, Link(version + 1, tree, new))
             IN  k \in 1..Len(all) + 1 /\ history' = SubSeq(all, k, Len(all))
    BY <2>1 DEF Remember, Link
  <2>8. QED
    BY <2>1, <2>3, <2>5, <2>6, <2>7
<1>4. QED
  BY <1>2, <1>3

\* What is published stays: versions and sent frames only grow.
LEMMA LogGrows ==
    ASSUME TypeOK, TypeOK', [Next]_vars
    PROVE  /\ version \in Nat \ {0} /\ version' \in Nat \ {0} /\ version <= version'
           /\ sent \in Nat /\ sent' \in Nat /\ sent <= sent' /\ sent < version /\ sent' < version'
           /\ \A v \in 1..version : log'[v] = log[v]
           /\ sent' = sent \/ sent' = Len(frames')
           /\ \/ version' = version /\ log' = log /\ frames' = frames
              \/ version' = version + 1 /\ log' = Append(log, tree')
<1>1. /\ version \in Nat \ {0} /\ log \in Seq(MountManifest) /\ Len(log) = version
      /\ Len(frames) = version - 1 /\ sent \in 0..Len(frames)
  BY DEF TypeOK
<1>2. /\ version' \in Nat \ {0} /\ Len(frames') = version' - 1 /\ sent' \in 0..Len(frames')
      /\ tree' \in MountManifest
  BY DEF TypeOK
<1>3. sent' = sent \/ sent' = Len(frames')
  BY DEF Next, Touch, StartWatcher, Settle, Scan, ScanFails, Apply, Send, vars
<1>4. \/ version' = version /\ log' = log /\ frames' = frames
      \/ version' = version + 1 /\ log' = Append(log, tree')
  <2>1. CASE Apply
    BY <2>1, PublishStep DEF treeVars
  <2>2. CASE UNCHANGED <<treeVars, frames>>
    BY <2>2 DEF treeVars
  <2>3. QED
    BY <2>1, <2>2 DEF Next, Touch, StartWatcher, Settle, Scan, ScanFails, Send, vars, treeVars
<1>5. version <= version'
  BY <1>1, <1>4
<1>6. \A v \in 1..version : log'[v] = log[v]
  BY <1>1, <1>2, <1>4, AppendProperties
<1>7. sent \in Nat /\ sent < version /\ sent' \in Nat /\ sent' < version' /\ sent <= sent'
  <2>1. \A s, v : v \in Nat \ {0} /\ s \in 0..v - 1 => s \in Nat /\ s < v
    OBVIOUS
  <2>2. sent \in Nat /\ sent < version
    BY <1>1, <2>1
  <2>3. sent' \in Nat /\ sent' < version'
    BY <1>2, <2>1
  <2>4. \A s, t, v, w \in Nat : v <= w /\ s < v /\ (t = s \/ t = w - 1) => s <= t
    OBVIOUS
  <2>5. sent' = sent \/ sent' = version' - 1
    BY <1>2, <1>3
  <2>6. sent <= sent'
    BY <1>1, <1>2, <1>5, <2>2, <2>3, <2>4, <2>5
  <2>7. QED
    BY <2>2, <2>3, <2>6
<1>8. QED
  BY <1>1, <1>2, <1>3, <1>4, <1>5, <1>6, <1>7

\* The differences a producer keeps and sends stay those of its log.
LEMMA DeltaStep == DeltaInv /\ [Next]_vars => DeltaInv'
<1> SUFFICES ASSUME DeltaInv, [Next]_vars  PROVE DeltaInv'
  OBVIOUS
<1>1. TypeOK /\ TypeOK'
  BY TypeStep DEF DeltaInv
<1>2. CASE UNCHANGED <<treeVars, frames>>
  BY <1>1, <1>2 DEF treeVars, DeltaInv, TreesSucceed, FramesAreTheirs, LinksAreTheirs
<1>3. CASE Apply /\ ~ UNCHANGED <<treeVars, frames>>
  <2>1. /\ UniquePaths(tree.dirs) => Succeeds(tree, tree')
        /\ UniquePaths(tree'.dirs)
        /\ version' = version + 1 /\ log' = Append(log, tree')
        /\ \E frame \in FramesOf(version + 1, tree, tree') : frames' = Append(frames, frame)
        /\ \/ history' = << >>
           \/ \E k \in 1..Len(history) + 2 :
                LET all == Append(history, Link(version + 1, tree, tree'))
                IN  k \in 1..Len(all) + 1 /\ history' = SubSeq(all, k, Len(all))
    BY <1>1, <1>3, PublishStep
  <2>2. /\ log \in Seq(MountManifest) /\ Len(log) = version /\ version \in Nat \ {0}
        /\ log[version] = tree /\ tree' \in MountManifest
        /\ IsSeq(frames) /\ Len(frames) = version - 1
    BY <1>1, LoggedTrees DEF TypeOK
  <2>3. (\A v \in 1..version : log'[v] = log[v]) /\ log'[version + 1] = tree'
    BY <2>1, <2>2, AppendProperties
  <2>4. TreesSucceed'
    <3>1. UniquePaths(tree.dirs)
      BY <2>2 DEF DeltaInv, TreesSucceed
    <3>2. \A v \in 1..version' : v \in 1..version \/ v = version + 1
      BY <2>1, <2>2
    <3>3. \A v \in 1..version' : UniquePaths(log'[v].dirs)
      BY <2>1, <2>3, <3>2 DEF DeltaInv, TreesSucceed
    <3>4. \A v \in 1..version' - 1 : Succeeds(log'[v], log'[v + 1])
      <4> SUFFICES ASSUME NEW v \in 1..version' - 1  PROVE Succeeds(log'[v], log'[v + 1])
        OBVIOUS
      <4>1. CASE v = version
        BY <2>1, <2>2, <2>3, <3>1, <4>1
      <4>2. CASE v # version
        <5>1. v \in 1..version - 1 /\ v \in 1..version /\ v + 1 \in 1..version
          BY <2>1, <2>2, <4>2
        <5>2. QED
          BY <2>3, <5>1 DEF DeltaInv, TreesSucceed
      <4>3. QED
        BY <4>1, <4>2
    <3>5. QED
      BY <3>3, <3>4 DEF TreesSucceed, UniquePaths
  <2>5. FramesAreTheirs'
    <3>1. PICK frame \in FramesOf(version + 1, tree, tree') : frames' = Append(frames, frame)
      BY <2>1
    <3>2. frames'[version] = frame /\ \A k \in 1..version - 1 : frames'[k] = frames[k]
      <4>1. Len(frames) + 1 = version /\ DOMAIN frames = 1..version - 1
        BY <2>2, LenProperties DEF IsSeq
      <4>2. QED
        BY <2>2, <3>1, <4>1, AppendIsSeq
    <3>3. \A k \in 1..version' - 1 : frames'[k] \in FramesOf(k + 1, log'[k], log'[k + 1])
      <4> SUFFICES ASSUME NEW k \in 1..version' - 1
                   PROVE  frames'[k] \in FramesOf(k + 1, log'[k], log'[k + 1])
        OBVIOUS
      <4>1. CASE k = version
        BY <2>2, <2>3, <3>1, <3>2, <4>1
      <4>2. CASE k # version
        <5>1. k \in 1..version - 1 /\ k \in 1..version /\ k + 1 \in 1..version
          BY <2>1, <2>2, <4>2
        <5>2. QED
          BY <2>3, <3>2, <5>1 DEF DeltaInv, FramesAreTheirs
      <4>3. QED
        BY <4>1, <4>2
    <3>4. QED
      BY <3>3 DEF FramesAreTheirs, FramesOf, DeltaFrame, ManifestFrame, Seal, Sign, DeltaBetween
  <2>6. LinksAreTheirs'
    <3> DEFINE entry == Link(version + 1, tree, tree')
               all == Append(history, entry)
    <3>1. IsSeq(all) /\ EntriesOf(all) \subseteq EntriesOf(history) \cup {entry}
      <4>1. history \in Seq(EntriesOf(history) \cup {entry})
        BY SeqMonotonic DEF DeltaInv, LinksAreTheirs, IsSeq
      <4>2. all \in Seq(EntriesOf(history) \cup {entry})
        <5> HIDE DEF entry
        <5> QED  BY <4>1, AppendProperties
      <4>3. QED
        <5> HIDE DEF all
        <5> QED  BY <4>2, SeqIsSeq
    <3>2. IsSeq(history') /\ EntriesOf(history') \subseteq EntriesOf(history) \cup {entry}
      <4> HIDE DEF entry, all
      <4>1. CASE history' = << >>
        <5>1. history' \in Seq({})
          BY <4>1, EmptySeq
        <5>2. QED
          BY <5>1, SeqIsSeq
      <4>2. ASSUME NEW k \in 1..Len(all) + 1, history' = SubSeq(all, k, Len(all))
            PROVE  IsSeq(history') /\ EntriesOf(history') \subseteq EntriesOf(history) \cup {entry}
        BY <3>1, <4>2, SubSeqEntries
      <4>3. QED
        BY <2>1, <4>1, <4>2 DEF entry, all
    <3>3. \A e \in EntriesOf(history) \cup {entry} :
            e.version \in 2..version' /\ e = Link(e.version, log'[e.version - 1], log'[e.version])
      <4> SUFFICES ASSUME NEW e \in EntriesOf(history) \cup {entry}
                   PROVE  e.version \in 2..version'
                          /\ e = Link(e.version, log'[e.version - 1], log'[e.version])
        OBVIOUS
      <4>1. CASE e \in EntriesOf(history)
        <5>1. e.version \in 2..version /\ e = Link(e.version, log[e.version - 1], log[e.version])
          BY <4>1 DEF DeltaInv, LinksAreTheirs
        <5>2. /\ e.version \in 2..version' /\ e.version \in 1..version
              /\ e.version - 1 \in 1..version
          BY <2>1, <2>2, <5>1
        <5>3. log'[e.version - 1] = log[e.version - 1] /\ log'[e.version] = log[e.version]
          BY <2>3, <5>2
        <5>4. QED
          BY <5>1, <5>2, <5>3
      <4>2. CASE e = entry
        <5>1. e.version = version + 1 /\ e = Link(version + 1, tree, tree')
          BY <4>2 DEF Link
        <5>2. version + 1 - 1 = version /\ version \in 1..version /\ version + 1 \in 2..version'
          BY <2>1, <2>2
        <5>3. log'[version] = tree /\ log'[version + 1] = tree'
          BY <2>2, <2>3, <5>2
        <5> HIDE DEF entry
        <5>4. QED
          BY <5>1, <5>2, <5>3
      <4>3. QED
        BY <4>1, <4>2
    <3>4. QED
      <4> HIDE DEF entry
      <4> QED  BY <3>2, <3>3 DEF LinksAreTheirs, Link, DeltaBetween
  <2>7. QED
    BY <1>1, <2>4, <2>5, <2>6 DEF DeltaInv
<1>4. QED
  BY <1>2, <1>3 DEF Next, Touch, StartWatcher, Settle, Scan, ScanFails, Send, vars, treeVars

-----------------------------------------------------------------------------

\* A chain applied link after link.
LEMMA ChainIs ==
    ASSUME NEW m, NEW ds, Len(ds) \in Nat
    PROVE  \E after :
             /\ after[0] = m /\ \A i \in 1..Len(ds) : after[i] = ApplyDelta(after[i - 1], ds[i])
             /\ ApplyChain(m, ds) = after[Len(ds)]
<1> DEFINE upto(g, n) == g = [i \in 0..n |-> IF i = 0 THEN m ELSE ApplyDelta(g[i - 1], ds[i])]
           S == {n \in Nat : \E g : upto(g, n)}
<1>1. 0 \in S
  <2>1. upto([i \in 0..0 |-> m], 0)
    OBVIOUS
  <2>2. QED
    BY <2>1
<1>2. ASSUME NEW n \in Nat, n \in S  PROVE n + 1 \in S
  <2>1. PICK g : upto(g, n)
    BY <1>2
  <2> DEFINE h == [i \in 0..n + 1 |-> IF i = n + 1 THEN ApplyDelta(g[n], ds[n + 1]) ELSE g[i]]
             body(i) == IF i = 0 THEN m ELSE ApplyDelta(h[i - 1], ds[i])
  <2>2. \A i \in 0..n + 1 : h[i] = body(i)
    <3> TAKE i \in 0..n + 1
    <3>1. CASE i = n + 1
      <4>1. h[i] = ApplyDelta(g[n], ds[i]) /\ h[i - 1] = g[n] /\ i # 0
        BY <3>1
      <4>2. QED
        <5> HIDE DEF h
        <5> QED  BY <4>1
    <3>2. CASE i # n + 1
      <4>1. i \in 0..n /\ h[i] = g[i] /\ (i # 0 => i - 1 \in 0..n /\ h[i - 1] = g[i - 1])
        BY <3>2
      <4>2. g[i] = IF i = 0 THEN m ELSE ApplyDelta(g[i - 1], ds[i])
        BY <2>1, <4>1
      <4>3. QED
        <5> HIDE DEF h
        <5> QED  BY <4>1, <4>2
    <3>3. QED
      BY <3>1, <3>2
  <2>3. h = [i \in 0..n + 1 |-> h[i]]
    OBVIOUS
  <2>4. upto(h, n + 1)
    <3> HIDE DEF h
    <3> QED  BY <2>2, <2>3
  <2>5. \E f : upto(f, n + 1)
    <3> HIDE DEF h, upto
    <3> QED  BY <2>4
  <2>6. QED
    <3> HIDE DEF upto
    <3> QED  BY <2>5
<1>3. Len(ds) \in S
  <2> HIDE DEF S
  <2> QED  BY <1>1, <1>2, SetInduction
<1>4. ApplyChain(m, ds) = (CHOOSE after : upto(after, Len(ds)))[Len(ds)]
  BY DEF ApplyChain
<1> DEFINE after == CHOOSE after : upto(after, Len(ds))
<1>5. upto(after, Len(ds))
  BY <1>3
<1>6. ApplyChain(m, ds) = after[Len(ds)]
  BY <1>4
<1> HIDE DEF after
<1>7. after[0] = m
  <2>1. 0 \in 0..Len(ds)
    OBVIOUS
  <2>2. QED
    BY <1>5, <2>1
<1>8. ASSUME NEW i \in 1..Len(ds)  PROVE after[i] = ApplyDelta(after[i - 1], ds[i])
  <2>1. i \in 0..Len(ds) /\ i # 0
    OBVIOUS
  <2>2. QED
    BY <1>5, <2>1
<1>9. QED
  BY <1>6, <1>7, <1>8

\* The first tree is a scan's, and nothing has been handed out.
LEMMA InitDelta == Init => DeltaInv
<1> SUFFICES ASSUME Init  PROVE DeltaInv
  OBVIOUS
<1>1. TypeOK
  BY InitSlots DEF SlotInv
<1>2. version = 1 /\ history = << >> /\ log[1] = tree
  BY DEF Init
<1>3. UniquePaths(tree.dirs)
  BY ListedOnce DEF Init
<1>4. TreesSucceed
  <2>1. \A v \in 1..version : v = 1
    BY <1>2
  <2>2. \A v \in 1..version - 1 : FALSE
    BY <1>2
  <2>3. QED
    BY <1>2, <1>3, <2>1, <2>2 DEF TreesSucceed
<1>5. FramesAreTheirs
  BY <1>2 DEF FramesAreTheirs
<1>6. LinksAreTheirs
  <2>1. history \in Seq({})
    BY <1>2, EmptySeq
  <2>2. IsSeq(history) /\ EntriesOf(history) = {}
    BY <2>1, SeqIsSeq
  <2>3. QED
    BY <2>2 DEF LinksAreTheirs
<1>7. QED
  BY <1>1, <1>4, <1>5, <1>6 DEF DeltaInv

\* Frames and remembered links are, at all times, the differences of the trees
\* they are numbered by.
THEOREM DeltasInvariant == Spec => []DeltaInv
<1>1. QED
  BY InitDelta, DeltaStep, PTL DEF Spec

\* What is remembered is between trees that were published, one after the other.
LEMMA LinksJoinTrees ==
    ASSUME DeltaInv, NEW e \in EntriesOf(history)
    PROVE  /\ e.version \in 2..version
           /\ e.delta = DeltaBetween(log[e.version - 1], log[e.version])
           /\ Succeeds(log[e.version - 1], log[e.version])
<1>1. e.version \in 2..version /\ e = Link(e.version, log[e.version - 1], log[e.version])
  BY DEF DeltaInv, LinksAreTheirs
<1>2. e.delta = DeltaBetween(log[e.version - 1], log[e.version])
  BY <1>1 DEF Link
<1>3. version \in Nat
  BY DEF DeltaInv, TypeOK
<1>4. e.version - 1 \in 1..version - 1 /\ e.version - 1 + 1 = e.version
  BY <1>1, <1>3
<1>5. Succeeds(log[e.version - 1], log[e.version - 1 + 1])
  BY <1>4 DEF DeltaInv, TreesSucceed
<1>6. QED
  BY <1>1, <1>2, <1>4, <1>5

\* The chain a producer answers with leads from the tree it is asked about to
\* its own, link by link.
LEMMA ChainsRebuild ==
    ASSUME DeltaInv, NEW since \in 1..version, CanAnswer(since)
    PROVE  SameContent(ApplyChain(log[since], DeltasSince(since).deltas), tree)
<1> DEFINE n == version - since
           links == Links(since)
           ds == DeltasSince(since).deltas
<1>1. /\ version \in Nat \ {0} /\ n \in Nat /\ log[version] = tree
      /\ log[since] \in MountManifest
  BY LoggedTrees DEF DeltaInv
<1>2. /\ DOMAIN links = 1..n /\ Len(links) = n
      /\ \A i \in 1..n : links[i] \in EntriesOf(history) /\ links[i].version = since + i
  <2>1. IsSeq(history)
    BY DEF DeltaInv, LinksAreTheirs
  <2> DEFINE keep == {e \in EntriesOf(history) : e.version > since}
  <2>2. links = Only(history, keep)
    BY DEF Links
  <2>3. links \in Seq(EntriesOf(history) \cap keep)
    <3> HIDE DEF links, keep
    <3> QED  BY <2>1, <2>2, OnlyIs
  <2>4. /\ Len(links) = n /\ \A i \in DOMAIN links : links[i].version = since + i
    BY DEF CanAnswer
  <2>5. QED
    <3> HIDE DEF links, keep, n
    <3>1. DOMAIN links = 1..n
      BY <2>3, <2>4, LenProperties
    <3>2. \A i \in 1..n : links[i] \in EntriesOf(history)
      BY <2>3, <2>4, ElementOfSeq
    <3>3. QED
      BY <2>4, <3>1, <3>2
<1>3. /\ ds = [i \in 1..n |-> links[i].delta]
  BY <1>2 DEF DeltasSince
<1>4. Len(ds) = n
  <2> HIDE DEF ds, n, links
  <2>1. \A i \in 1..n : ds[i] = links[i].delta
    BY <1>3
  <2>2. QED
    BY <1>1, <1>3
<1> HIDE DEF ds, n, links
<1>5. PICK after : /\ after[0] = log[since]
                   /\ \A i \in 1..n : after[i] = ApplyDelta(after[i - 1], ds[i])
                   /\ ApplyChain(log[since], ds) = after[n]
  BY <1>1, <1>4, ChainIs
<1> DEFINE Good(i) == IsSeq(after[i].dirs) /\ SameContent(after[i], log[since + i])
           S == {i \in Nat : i <= n => Good(i)}
<1>6. 0 \in S
  <2>1. IsSeq(log[since].dirs)
    BY <1>1, SeqIsSeq DEF MountManifest
  <2>2. since + 0 = since
    BY <1>1
  <2>3. QED
    BY <1>5, <2>1, <2>2 DEF SameContent
<1>7. ASSUME NEW k \in Nat, k \in S  PROVE k + 1 \in S
  <2> SUFFICES ASSUME k + 1 <= n  PROVE Good(k + 1)
    OBVIOUS
  <2> DEFINE i == k + 1
             v == since + i
  <2>1. i \in 1..n /\ i - 1 = k /\ v - 1 = since + k
    BY <1>1
  <2>2. Good(k)
    BY <1>1, <1>7
  <2> HIDE DEF i
  <2>3. /\ ds[i] = links[i].delta /\ links[i] \in EntriesOf(history) /\ links[i].version = v
    BY <1>2, <1>3, <2>1
  <2>4. ds[i] = DeltaBetween(log[v - 1], log[v]) /\ Succeeds(log[v - 1], log[v])
    BY <2>3, LinksJoinTrees
  <2>5. after[i] = ApplyDelta(after[k], ds[i])
    BY <1>5, <2>1
  <2> HIDE DEF v
  <2>6. IsSeq(after[k].dirs) /\ SameContent(after[k], log[v - 1])
    BY <2>1, <2>2
  <2>7. IsSeq(after[i].dirs) /\ SameContent(after[i], log[v])
    BY <2>4, <2>5, <2>6, DeltaFollows
  <2>8. QED
    BY <2>7 DEF v, i
<1>8. Good(n)
  <2>1. Nat \subseteq S
    <3> HIDE DEF S
    <3> QED  BY <1>6, <1>7, SetInduction
  <2>2. n \in S /\ n <= n
    BY <1>1, <2>1
  <2>3. QED
    BY <2>2
<1>9. since + n = version
  BY <1>1 DEF n
<1>10. QED
  BY <1>1, <1>5, <1>8, <1>9 DEF ds

\* Every chain of differences a producer hands out leads to its tree, and a
\* difference a reader already has changes nothing when it comes again.
\* LiveTree::apply, deltas_since, MountManifest::apply.
THEOREM DeltasStaySound == Spec => []DeltasAreSound
<1>1. DeltaInv => DeltasAreSound
  <2> SUFFICES ASSUME DeltaInv  PROVE DeltasAreSound
    OBVIOUS
  <2>1. DeltasRebuildTheTree
    BY ChainsRebuild DEF DeltasRebuildTheTree
  <2>2. RedeliveryIsHarmless
    <3> SUFFICES ASSUME NEW e \in EntriesOf(history)
                 PROVE  ApplyDelta(log[e.version], e.delta) = log[e.version]
      BY DEF RedeliveryIsHarmless
    <3>1. /\ e.delta = DeltaBetween(log[e.version - 1], log[e.version])
          /\ Succeeds(log[e.version - 1], log[e.version])
      BY LinksJoinTrees
    <3>2. IsSeq(log[e.version].dirs) /\ SameContent(log[e.version], log[e.version])
      BY <3>1, SeqIsSeq DEF Succeeds, MountManifest, SameContent
    <3>3. QED
      BY <3>1, <3>2, DeltaFollows
  <2>3. QED
    BY <2>1, <2>2 DEF DeltasAreSound
<1>2. QED
  BY <1>1, DeltasInvariant, PTL

-----------------------------------------------------------------------------
(* Watch: the mounts stay on published trees, and following by differences *)
(* implements PublishedTree.                                               *)

\* What the producer may have written for a version: the whole tree, or the
\* difference that leads to it from the one before.
TrueFrames(v) ==
    {ManifestFrame(Seal(v, log[v]))} \cup
        (IF v = 1 THEN {} ELSE FramesOf(v, log[v - 1], log[v]))

FrameVersion(frame) == IF frame.kind = "manifest" THEN frame.signed.version ELSE frame.version

\* The version a mount that held v holds at least, once it has read the first i
\* of some frames.
VersionAfter(v, inFlight, i) == IF i = 0 THEN v ELSE FrameVersion(inFlight[i])

\* Each difference in flight extends or repeats what is held when it is read.
InOrder(v, inFlight) ==
    \A i \in 1..Len(inFlight) :
        inFlight[i].kind = "delta" => inFlight[i].version <= VersionAfter(v, inFlight, i - 1) + 1

\* Nothing is held, or a published tree is, though its directories may be listed
\* in another order.
HeldIsTrue(h) ==
    \/ h = Nothing
    \/ h.version \in 1..version /\ IsSeq(h.manifest.dirs) /\ SameContent(h.manifest, log[h.version])

\* Frames in flight are ones the producer wrote.
WireIsTrue(w) ==
    IsSeq(w) /\ \A i \in 1..Len(w) : \E v \in 1..version : w[i] \in TrueFrames(v)

\* Without signatures no difference is refused: the frames in flight are in
\* order, and so is the next one to be written.
FollowsOn(f, c, w, h) ==
    /\ InOrder(h.version, w)
    /\ f = "live" => c + 1 <= VersionAfter(h.version, w, Len(w))

\* One mount: the feed, cursor, wire and link of its stream, and what it holds.
MountIsSound(f, c, w, l, h) ==
    /\ f \in {"none", "opening", "live"} /\ l \in {"detached", "retrying", "following", "ended"}
    /\ c \in 0..sent /\ Len(w) <= WireCap
    /\ WireIsTrue(w) /\ HeldIsTrue(h)
    /\ ~Signed => FollowsOn(f, c, w, h)

\* The invariant of the theorems: the producer's, and every mount sound.
WatchInv ==
    /\ DeltaInv /\ losses \in Nat
    /\ feed = [m \in Mounts |-> feed[m]] /\ cursor = [m \in Mounts |-> cursor[m]]
    /\ wire = [m \in Mounts |-> wire[m]] /\ link = [m \in Mounts |-> link[m]]
    /\ held = [m \in Mounts |-> held[m]]
    /\ \A m \in Mounts : MountIsSound(feed[m], cursor[m], wire[m], link[m], held[m])

-----------------------------------------------------------------------------

\* Reading takes the first of a sequence and leaves the rest.
LEMMA TailIsSeq ==
    ASSUME NEW s, IsSeq(s), s # << >>
    PROVE  /\ Len(s) \in Nat \ {0} /\ Head(s) = s[1]
           /\ IsSeq(Tail(s)) /\ Len(Tail(s)) = Len(s) - 1
           /\ \A i \in 1..Len(s) - 1 : Tail(s)[i] = s[i + 1]
<1>1. s \in Seq(EntriesOf(s))
  BY DEF IsSeq
<1>2. /\ Head(s) \in EntriesOf(s) /\ Tail(s) \in Seq(EntriesOf(s))
  BY <1>1, HeadTailProperties
<1>3. /\ Len(s) \in Nat /\ Len(s) # 0 /\ Head(s) = s[1] /\ Len(Tail(s)) = Len(s) - 1
      /\ \A i \in 1..Len(s) - 1 : Tail(s)[i] = s[i + 1]
  BY <1>1, HeadTailProperties, LenProperties, EmptySeq
<1>4. IsSeq(Tail(s))
  <2> DEFINE t == Tail(s)
             S == EntriesOf(s)
  <2>1. t \in Seq(S)
    BY <1>2
  <2> HIDE DEF t, S
  <2>2. QED
    BY <2>1, SeqIsSeq DEF t
<1>5. QED
  BY <1>3, <1>4

\* Whatever version one starts from, a later one serves as well.
LEMMA OrderRises ==
    ASSUME NEW s, IsSeq(s), NEW v \in Nat, NEW w \in Nat, v <= w,
           \A i \in 1..Len(s) : FrameVersion(s[i]) \in Nat, InOrder(v, s)
    PROVE  InOrder(w, s) /\ \A i \in 0..Len(s) : VersionAfter(v, s, i) <= VersionAfter(w, s, i)
<1>1. Len(s) \in Nat
  BY LenProperties DEF IsSeq
<1>2. ASSUME NEW i \in 0..Len(s)
      PROVE  /\ VersionAfter(v, s, i) \in Nat /\ VersionAfter(w, s, i) \in Nat
             /\ VersionAfter(v, s, i) <= VersionAfter(w, s, i)
  <2>1. i # 0 => i \in 1..Len(s)
    BY <1>1
  <2>2. QED
    BY <2>1 DEF VersionAfter
<1>3. ASSUME NEW i \in 1..Len(s), s[i].kind = "delta"
      PROVE  s[i].version <= VersionAfter(w, s, i - 1) + 1
  <2> DEFINE j == i - 1
  <2>1. j \in 0..Len(s)
    BY <1>1
  <2>2. s[i].version <= VersionAfter(v, s, i - 1) + 1
    BY <1>3 DEF InOrder
  <2>3. s[i].version = FrameVersion(s[i]) /\ s[i].version \in Nat
    BY <1>3 DEF FrameVersion
  <2> HIDE DEF j
  <2>4. /\ VersionAfter(v, s, j) \in Nat /\ VersionAfter(w, s, j) \in Nat
        /\ VersionAfter(v, s, j) <= VersionAfter(w, s, j)
    BY <1>2, <2>1
  <2>5. s[i].version <= VersionAfter(v, s, j) + 1
    BY <2>2 DEF j
  <2>6. s[i].version <= VersionAfter(w, s, j) + 1
    BY <2>3, <2>4, <2>5
  <2>7. QED
    BY <2>6 DEF j
<1>4. QED
  BY <1>2, <1>3 DEF InOrder

\* A frame written last is in order where it extends or repeats what comes before.
LEMMA OrderAppends ==
    ASSUME NEW s, IsSeq(s), NEW v, InOrder(v, s), NEW f,
           f.kind = "delta" => f.version <= VersionAfter(v, s, Len(s)) + 1
    PROVE  /\ InOrder(v, Append(s, f))
           /\ VersionAfter(v, Append(s, f), Len(Append(s, f))) = FrameVersion(f)
<1> DEFINE t == Append(s, f)
<1>1. /\ Len(s) \in Nat /\ DOMAIN s = 1..Len(s)
      /\ IsSeq(t) /\ Len(t) = Len(s) + 1 /\ t[Len(s) + 1] = f
      /\ \A i \in 1..Len(s) : t[i] = s[i]
  BY AppendIsSeq, LenProperties DEF IsSeq
<1> HIDE DEF t
<1>2. ASSUME NEW i \in 0..Len(s)  PROVE VersionAfter(v, t, i) = VersionAfter(v, s, i)
  <2>1. i # 0 => i \in 1..Len(s)
    BY <1>1
  <2>2. QED
    BY <1>1, <2>1 DEF VersionAfter
<1>3. ASSUME NEW i \in 1..Len(t), t[i].kind = "delta"
      PROVE  t[i].version <= VersionAfter(v, t, i - 1) + 1
  <2> DEFINE j == i - 1
  <2>1. j \in 0..Len(s)
    BY <1>1
  <2>2. VersionAfter(v, t, j) = VersionAfter(v, s, j)
    <3> HIDE DEF j
    <3> QED  BY <1>2, <2>1
  <2>3. CASE i = Len(s) + 1
    <3>1. t[i] = f /\ j = Len(s)
      BY <1>1, <2>3
    <3>2. QED
      BY <1>3, <2>2, <3>1
  <2>4. CASE i # Len(s) + 1
    <3>1. i \in 1..Len(s) /\ t[i] = s[i]
      BY <1>1, <2>4
    <3>2. QED
      BY <1>3, <2>2, <3>1 DEF InOrder
  <2>5. QED
    BY <2>3, <2>4
<1>4. VersionAfter(v, t, Len(t)) = FrameVersion(f)
  <2>1. Len(t) # 0 /\ t[Len(t)] = f
    BY <1>1
  <2>2. QED
    BY <2>1 DEF VersionAfter
<1>5. QED
  BY <1>3, <1>4 DEF InOrder, t

\* Once the first frame has been read, and at least its version is held, the
\* rest are in order.
LEMMA OrderGoesOn ==
    ASSUME NEW s, IsSeq(s), s # << >>, NEW v \in Nat, NEW w \in Nat, InOrder(v, s),
           \A i \in 1..Len(s) : FrameVersion(s[i]) \in Nat, FrameVersion(s[1]) <= w
    PROVE  /\ InOrder(w, Tail(s))
           /\ VersionAfter(v, s, Len(s)) <= VersionAfter(w, Tail(s), Len(Tail(s)))
<1> DEFINE t == Tail(s)
           n == Len(s)
<1>1. /\ n \in Nat \ {0} /\ IsSeq(t) /\ Len(t) = n - 1
      /\ \A i \in 1..n - 1 : t[i] = s[i + 1]
  BY TailIsSeq
<1>2. \A i \in 1..n : FrameVersion(s[i]) \in Nat
  OBVIOUS
<1>21. FrameVersion(s[1]) <= w /\ FrameVersion(s[1]) \in Nat
  BY <1>1
<1> HIDE DEF t, n
<1>3. ASSUME NEW i \in 0..n - 1
      PROVE  /\ VersionAfter(v, s, i + 1) \in Nat /\ VersionAfter(w, t, i) \in Nat
             /\ VersionAfter(v, s, i + 1) <= VersionAfter(w, t, i)
  <2> DEFINE j == i + 1
  <2>1. j \in 1..n /\ j # 0
    BY <1>1
  <2>2. VersionAfter(v, s, j) = FrameVersion(s[j])
    BY <2>1 DEF VersionAfter
  <2>3. FrameVersion(s[j]) \in Nat
    <3> HIDE DEF j
    <3> QED  BY <1>2, <2>1
  <2>4. CASE i = 0
    <3>1. VersionAfter(w, t, i) = w /\ j = 1
      BY <2>4 DEF VersionAfter
    <3>2. QED
      BY <1>21, <2>2, <3>1
  <2>5. CASE i # 0
    <3>1. i \in 1..n - 1
      BY <1>1, <2>5
    <3>2. VersionAfter(w, t, i) = FrameVersion(s[j])
      BY <1>1, <2>5, <3>1 DEF VersionAfter
    <3>3. QED
      <4> HIDE DEF j
      <4>1. VersionAfter(v, s, j) <= VersionAfter(w, t, i)
        BY <2>2, <2>3, <3>2
      <4>2. QED
        BY <2>2, <2>3, <3>2, <4>1 DEF j
  <2>6. QED
    BY <2>4, <2>5
<1>4. ASSUME NEW i \in 1..Len(t), t[i].kind = "delta"
      PROVE  t[i].version <= VersionAfter(w, t, i - 1) + 1
  <2> DEFINE j == i - 1
             k == i + 1
  <2>1. j \in 0..n - 1 /\ j + 1 = i /\ k \in 1..n /\ k - 1 = i /\ i \in 1..n - 1
    BY <1>1
  <2>2. t[i] = s[k]
    BY <1>1, <2>1
  <2> HIDE DEF j, k
  <2>3. s[k].version <= VersionAfter(v, s, k - 1) + 1
    BY <1>4, <2>1, <2>2 DEF InOrder, n
  <2>4. s[k].version \in Nat
    <3>1. FrameVersion(s[k]) \in Nat
      BY <1>2, <2>1
    <3>2. QED
      BY <1>4, <2>2, <3>1 DEF FrameVersion
  <2>5. /\ VersionAfter(v, s, j + 1) \in Nat /\ VersionAfter(w, t, j) \in Nat
        /\ VersionAfter(v, s, j + 1) <= VersionAfter(w, t, j)
    BY <1>3, <2>1
  <2>6. k - 1 = j + 1
    BY <2>1
  <2>7. s[k].version <= VersionAfter(v, s, j + 1) + 1
    BY <2>3, <2>6
  <2>8. t[i].version <= VersionAfter(w, t, j) + 1
    BY <2>2, <2>4, <2>5, <2>7
  <2>9. QED
    BY <2>8 DEF j
<1>5. VersionAfter(v, s, n) <= VersionAfter(w, t, Len(t))
  <2> DEFINE i == n - 1
  <2>1. i \in 0..n - 1 /\ i + 1 = n /\ Len(t) = i
    BY <1>1
  <2> HIDE DEF i
  <2>2. VersionAfter(v, s, i + 1) <= VersionAfter(w, t, i)
    BY <1>3, <2>1
  <2>3. QED
    BY <2>1, <2>2
<1>6. QED
  BY <1>4, <1>5 DEF InOrder, t, n

-----------------------------------------------------------------------------

\* A true frame says which version it leads to, and what it is.
LEMMA TrueFrameIs ==
    ASSUME DeltaInv, NEW v \in 1..version, NEW frame \in TrueFrames(v)
    PROVE  /\ v \in Nat \ {0} /\ FrameVersion(frame) = v
           /\ frame.kind \in {"manifest", "delta"}
           /\ frame.kind = "manifest" => frame.signed = Seal(v, log[v])
           /\ frame.kind = "delta" =>
                /\ v - 1 \in 1..version /\ frame.version = v
                /\ frame.signature = Sign(v, log[v])
                /\ frame.delta = DeltaBetween(log[v - 1], log[v])
                /\ Succeeds(log[v - 1], log[v])
<1>1. version \in Nat \ {0} /\ v \in Nat \ {0}
  BY LoggedTrees DEF DeltaInv
<1>2. CASE frame = ManifestFrame(Seal(v, log[v]))
  BY <1>1, <1>2 DEF ManifestFrame, Seal, FrameVersion
<1>3. CASE v # 1 /\ frame = DeltaFrame(v, Sign(v, log[v]), DeltaBetween(log[v - 1], log[v]))
  <2>1. /\ frame.kind = "delta" /\ frame.version = v /\ frame.signature = Sign(v, log[v])
        /\ frame.delta = DeltaBetween(log[v - 1], log[v])
    BY <1>3 DEF DeltaFrame
  <2> DEFINE u == v - 1
  <2>2. u \in 1..version - 1 /\ u \in 1..version /\ u + 1 = v
    BY <1>1, <1>3
  <2>3. Succeeds(log[u], log[u + 1])
    <3> HIDE DEF u
    <3> QED  BY <2>2 DEF DeltaInv, TreesSucceed
  <2>4. Succeeds(log[v - 1], log[v])
    BY <2>2, <2>3
  <2>5. FrameVersion(frame) = v
    BY <2>1 DEF FrameVersion
  <2>6. QED
    BY <1>1, <2>1, <2>2, <2>4, <2>5
<1>4. QED
  BY <1>2, <1>3 DEF TrueFrames, FramesOf

\* True frames stay true.
LEMMA TrueFramesStay ==
    ASSUME DeltaInv, DeltaInv', [Next]_vars, NEW v \in 1..version
    PROVE  TrueFrames(v)' = TrueFrames(v) /\ v \in 1..version'
<1>1. /\ version \in Nat \ {0} /\ version' \in Nat \ {0} /\ version <= version'
      /\ \A u \in 1..version : log'[u] = log[u]
  BY LogGrows DEF DeltaInv
<1>2. log'[v] = log[v] /\ (v # 1 => log'[v - 1] = log[v - 1])
  <2> DEFINE u == v - 1
  <2>1. v # 1 => u \in 1..version
    BY <1>1
  <2> HIDE DEF u
  <2>2. v # 1 => log'[u] = log[u]
    BY <1>1, <2>1
  <2>3. QED
    BY <1>1, <2>2 DEF u
<1>3. FramesOf(v, log[v - 1], log[v])' = FramesOf(v, log'[v - 1], log'[v])
  BY DEF FramesOf, DeltaFrame, ManifestFrame, Seal, Sign, DeltaBetween
<1>4. ManifestFrame(Seal(v, log[v]))' = ManifestFrame(Seal(v, log'[v]))
  BY DEF ManifestFrame, Seal, Sign
<1>5. TrueFrames(v)' = TrueFrames(v)
  BY <1>2, <1>3, <1>4 DEF TrueFrames
<1>6. QED
  BY <1>1, <1>5

\* What is broadcast is true.
LEMMA BroadcastIsTrue ==
    ASSUME DeltaInv, NEW k \in 1..version - 1
    PROVE  /\ k + 1 \in 1..version /\ frames[k] \in TrueFrames(k + 1)
           /\ FrameVersion(frames[k]) = k + 1
<1>1. version \in Nat \ {0}
  BY LoggedTrees DEF DeltaInv
<1> DEFINE v == k + 1
<1>2. v \in 1..version /\ v # 1 /\ v - 1 = k
  BY <1>1
<1>3. frames[k] \in FramesOf(v, log[k], log[v])
  BY DEF DeltaInv, FramesAreTheirs
<1> HIDE DEF v
<1>4. frames[k] \in TrueFrames(v)
  BY <1>2, <1>3 DEF TrueFrames
<1>5. FrameVersion(frames[k]) = v
  BY <1>2, <1>4, TrueFrameIs
<1>6. QED
  BY <1>2, <1>4, <1>5 DEF v

\* The frame that opens a stream is true.
LEMMA OpeningIsTrue ==
    ASSUME DeltaInv
    PROVE  /\ version \in 1..version /\ ManifestFrame(Envelope) \in TrueFrames(version)
           /\ FrameVersion(ManifestFrame(Envelope)) = version
           /\ ManifestFrame(Envelope).kind = "manifest"
<1>1. version \in 1..version /\ log[version] = tree
  BY LoggedTrees DEF DeltaInv
<1>2. ManifestFrame(Envelope) \in TrueFrames(version)
  BY <1>1 DEF TrueFrames, Envelope
<1>3. QED
  BY <1>1, <1>2, TrueFrameIs DEF ManifestFrame

\* A frame read in its place leaves a published tree held, and a later one if
\* nothing could refuse it.
LEMMA ReadingKeepsTrees ==
    ASSUME DeltaInv, NEW h, HeldIsTrue(h), NEW v \in 1..version, NEW frame \in TrueFrames(v),
           ~Signed => (frame.kind = "delta" => v <= h.version + 1)
    PROVE  LET after == ApplyWatchFrame(h, frame)
           IN  /\ HeldIsTrue(after)
               /\ h.version \in Nat /\ after.version \in Nat /\ h.version <= after.version
               /\ after = h \/ (after.version = v /\ HeldIsTrue(after) /\ after # Nothing)
               /\ ~Signed => v <= after.version
<1> DEFINE offered == Offered(h, frame)
           after == ApplyWatchFrame(h, frame)
<1>1. /\ v \in Nat \ {0} /\ frame.kind \in {"manifest", "delta"}
      /\ frame.kind = "manifest" => frame.signed = Seal(v, log[v])
      /\ frame.kind = "delta" =>
            /\ v - 1 \in 1..version /\ frame.version = v
            /\ frame.signature = Sign(v, log[v])
            /\ frame.delta = DeltaBetween(log[v - 1], log[v])
            /\ Succeeds(log[v - 1], log[v])
  BY TrueFrameIs
<1>2. version \in Nat \ {0} /\ log[v] \in MountManifest
  BY LoggedTrees DEF DeltaInv
<1>3. IsSeq(log[v].dirs)
  BY <1>2, SeqIsSeq DEF MountManifest
<1>4. h.version \in Nat /\ h.version <= version
  BY <1>2 DEF HeldIsTrue, Nothing
<1>5. offered.version = v
  BY <1>1 DEF Offered, Seal
<1>6. ASSUME Acceptable(offered, h.version)
      PROVE  IsSeq(offered.manifest.dirs) /\ SameContent(offered.manifest, log[v])
  <2>1. CASE frame.kind = "manifest"
    <3>1. offered.manifest = log[v]
      BY <1>1, <2>1 DEF Offered, Seal
    <3>2. QED
      BY <1>3, <3>1 DEF SameContent
  <2>2. CASE frame.kind = "delta" /\ Signed
    <3>1. offered.signature = <<v, log[v]>>
      BY <1>1, <2>2 DEF Offered, Sign
    <3>2. offered.signature = <<v, offered.manifest>>
      BY <1>5, <1>6, <2>2 DEF Acceptable, Verifies
    <3>3. offered.manifest = log[v]
      <4> HIDE DEF offered
      <4> QED  BY <3>1, <3>2
    <3>4. QED
      BY <1>3, <3>3 DEF SameContent
  <2>3. CASE frame.kind = "delta" /\ ~Signed
    <3> DEFINE m == h.manifest
               u == v - 1
    <3>1. u \in 1..version /\ Succeeds(log[u], log[v]) /\ frame.delta = DeltaBetween(log[u], log[v])
      BY <1>1, <2>3
    <3>2. h.version <= v /\ v <= h.version + 1
      BY <1>5, <1>6, <2>3 DEF Acceptable
    <3>3. h.version = v \/ h.version = u
      BY <1>1, <1>4, <3>2
    <3>4. h.version # 0
      BY <1>1, <3>1, <3>3
    <3>5. IsSeq(m.dirs) /\ (SameContent(m, log[u]) \/ SameContent(m, log[v]))
      BY <3>3, <3>4 DEF HeldIsTrue, Nothing
    <3>6. offered.manifest = ApplyDelta(m, DeltaBetween(log[u], log[v]))
      BY <2>3, <3>1 DEF Offered
    <3>7. QED
      <4> HIDE DEF m, u, offered
      <4> QED  BY <3>1, <3>5, <3>6, DeltaFollows
  <2>4. QED
    BY <1>1, <2>1, <2>2, <2>3
<1> HIDE DEF offered
<1>7. after = IF Acceptable(offered, h.version) THEN offered ELSE h
  BY DEF ApplyWatchFrame, Adopt, offered
<1>8. CASE Acceptable(offered, h.version)
  <2>1. after = offered /\ after.version = v /\ h.version <= v
    BY <1>5, <1>7, <1>8 DEF Acceptable
  <2>2. HeldIsTrue(after) /\ after # Nothing
    <3>1. IsSeq(offered.manifest.dirs) /\ SameContent(offered.manifest, log[v])
      BY <1>6, <1>8
    <3>2. offered # Nothing
      BY <1>1, <1>5 DEF Nothing
    <3>3. QED
      BY <1>5, <2>1, <3>1, <3>2 DEF HeldIsTrue
  <2>3. QED
    <3> HIDE DEF after
    <3> QED  BY <1>1, <1>4, <2>1, <2>2 DEF after
<1>9. CASE ~Acceptable(offered, h.version)
  <2>1. after = h
    BY <1>7, <1>9
  <2>2. ~Signed => v <= h.version
    BY <1>1, <1>4, <1>5, <1>9 DEF Acceptable, Verifies
  <2>3. QED
    <3> HIDE DEF after
    <3> QED  BY <1>4, <2>1, <2>2 DEF after
<1>10. QED
  BY <1>8, <1>9

-----------------------------------------------------------------------------

\* What is held is a version published so far, or none.
LEMMA HeldVersions ==
    ASSUME DeltaInv, NEW h, HeldIsTrue(h)
    PROVE  h.version \in 0..version /\ h.version \in Nat /\ version \in Nat \ {0}
<1>1. version \in Nat \ {0}
  BY LoggedTrees DEF DeltaInv
<1>2. QED
  BY <1>1 DEF HeldIsTrue, Nothing

\* The frames of a true wire have versions.
LEMMA WireVersions ==
    ASSUME DeltaInv, NEW w, WireIsTrue(w)
    PROVE  \A i \in 1..Len(w) : FrameVersion(w[i]) \in Nat
<1> SUFFICES ASSUME NEW i \in 1..Len(w)  PROVE FrameVersion(w[i]) \in Nat
  OBVIOUS
<1>1. PICK v \in 1..version : w[i] \in TrueFrames(v)
  BY DEF WireIsTrue
<1>2. QED
  BY <1>1, TrueFrameIs

\* Whatever the producer does, a mount that does nothing stays sound.
LEMMA SoundStays ==
    ASSUME DeltaInv, DeltaInv', [Next]_vars,
           NEW f, NEW c, NEW w, NEW l, NEW h, MountIsSound(f, c, w, l, h)
    PROVE  MountIsSound(f, c, w, l, h)'
<1>1. /\ version \in Nat \ {0} /\ version' \in Nat \ {0} /\ version <= version'
      /\ sent \in Nat /\ sent' \in Nat /\ sent <= sent'
      /\ \A v \in 1..version : log'[v] = log[v]
  BY LogGrows DEF DeltaInv
<1>2. WireIsTrue(w)'
  <2>1. \A v \in 1..version : TrueFrames(v)' = TrueFrames(v) /\ v \in 1..version'
    BY TrueFramesStay
  <2>2. QED
    BY <2>1 DEF MountIsSound, WireIsTrue
<1>3. HeldIsTrue(h)'
  <2>1. CASE h = Nothing
    BY <2>1 DEF HeldIsTrue
  <2>2. CASE /\ h.version \in 1..version /\ IsSeq(h.manifest.dirs)
             /\ SameContent(h.manifest, log[h.version])
    <3>1. h.version \in 1..version' /\ log'[h.version] = log[h.version]
      BY <1>1, <2>2
    <3>2. QED
      BY <2>2, <3>1 DEF HeldIsTrue
  <2>3. QED
    BY <2>1, <2>2 DEF MountIsSound, HeldIsTrue
<1>4. c \in 0..sent'
  BY <1>1 DEF MountIsSound
<1>5. QED
  BY <1>2, <1>3, <1>4 DEF MountIsSound

\* A step that changes one mount, and leaves it sound, leaves all of them sound.
LEMMA OneMountMoves ==
    ASSUME WatchInv, UNCHANGED vars, NEW m \in Mounts,
           NEW f, feed' = [feed EXCEPT ![m] = f], NEW c, cursor' = [cursor EXCEPT ![m] = c],
           NEW w, wire' = [wire EXCEPT ![m] = w], NEW l, link' = [link EXCEPT ![m] = l],
           NEW h, held' = [held EXCEPT ![m] = h],
           MountIsSound(f, c, w, l, h), losses' \in Nat
    PROVE  WatchInv'
<1>1. DeltaInv'
  BY DeltaStep DEF WatchInv
<1>2. /\ feed' = [n \in Mounts |-> feed'[n]] /\ cursor' = [n \in Mounts |-> cursor'[n]]
      /\ wire' = [n \in Mounts |-> wire'[n]] /\ link' = [n \in Mounts |-> link'[n]]
      /\ held' = [n \in Mounts |-> held'[n]]
  BY DEF WatchInv
<1>3. ASSUME NEW n \in Mounts
      PROVE  MountIsSound(feed[n], cursor[n], wire[n], link[n], held[n])'
  <2>1. PICK f1, c1, w1, l1, h1 :
            /\ f1 = feed'[n] /\ c1 = cursor'[n] /\ w1 = wire'[n] /\ l1 = link'[n] /\ h1 = held'[n]
    OBVIOUS
  <2>2. MountIsSound(f1, c1, w1, l1, h1)
    <3>1. CASE n = m
      <4>1. f1 = f /\ c1 = c /\ w1 = w /\ l1 = l /\ h1 = h
        BY <2>1, <3>1 DEF WatchInv
      <4>2. QED
        BY <4>1
    <3>2. CASE n # m
      <4>1. f1 = feed[n] /\ c1 = cursor[n] /\ w1 = wire[n] /\ l1 = link[n] /\ h1 = held[n]
        BY <2>1, <3>2 DEF WatchInv
      <4>2. QED
        BY <4>1 DEF WatchInv
    <3>3. QED
      BY <3>1, <3>2
  <2>3. MountIsSound(f1, c1, w1, l1, h1)'
    BY <1>1, <2>2, SoundStays DEF WatchInv
  <2>4. QED
    BY <2>1, <2>3
<1>4. QED
  BY <1>1, <1>2, <1>3 DEF WatchInv

\* Whatever one mount and its stream do, every mount stays sound.
LEMMA MountStep ==
    ASSUME WatchInv, UNCHANGED vars, NEW m \in Mounts, Follow(m) \/ Lose(m)
    PROVE  WatchInv'
<1> DEFINE f == feed[m]
           c == cursor[m]
           w == wire[m]
           l == link[m]
           h == held[m]
<1>1. MountIsSound(f, c, w, l, h) /\ DeltaInv /\ losses \in Nat
  BY DEF WatchInv
<1>2. /\ feed = [feed EXCEPT ![m] = f] /\ cursor = [cursor EXCEPT ![m] = c]
      /\ wire = [wire EXCEPT ![m] = w] /\ link = [link EXCEPT ![m] = l]
      /\ held = [held EXCEPT ![m] = h]
  <2>1. /\ feed = [n \in Mounts |-> feed[n]] /\ cursor = [n \in Mounts |-> cursor[n]]
        /\ wire = [n \in Mounts |-> wire[n]] /\ link = [n \in Mounts |-> link[n]]
        /\ held = [n \in Mounts |-> held[n]]
    BY DEF WatchInv
  <2>2. \A g : g = [n \in Mounts |-> g[n]] => g = [g EXCEPT ![m] = g[m]]
    OBVIOUS
  <2>3. QED
    BY <2>1, <2>2
<1>3. /\ WireIsTrue(w) /\ IsSeq(w) /\ HeldIsTrue(h) /\ Len(w) \in Nat
      /\ \A i \in 1..Len(w) : FrameVersion(w[i]) \in Nat
      /\ h.version \in Nat /\ h.version <= version /\ version \in Nat \ {0}
      /\ c \in Nat /\ c <= sent /\ sent \in Nat /\ sent < version
  <2>1. WireIsTrue(w) /\ IsSeq(w) /\ HeldIsTrue(h) /\ c \in 0..sent
    BY <1>1 DEF MountIsSound, WireIsTrue
  <2>2. Len(w) \in Nat
    BY <2>1, LenProperties DEF IsSeq
  <2>3. \A i \in 1..Len(w) : FrameVersion(w[i]) \in Nat
    BY <1>1, <2>1, WireVersions
  <2>4. h.version \in Nat /\ h.version <= version /\ version \in Nat \ {0}
    BY <1>1, <2>1, HeldVersions
  <2>5. sent \in Nat /\ sent < version
    <3>1. sent \in 0..Len(frames) /\ Len(frames) = version - 1
      BY <1>1 DEF DeltaInv, TypeOK
    <3>2. QED
      BY <2>4, <3>1
  <2>6. QED
    BY <2>1, <2>2, <2>3, <2>4, <2>5
<1>4. WireCap \in Nat \ {0} /\ Backlog \in Nat \ {0}
  BY WatchAssumption
<1>5. WireIsTrue(<< >>) /\ Len(<< >>) <= WireCap /\ \A v : InOrder(v, << >>)
  <2>1. << >> \in Seq({})
    OBVIOUS
  <2>2. IsSeq(<< >>) /\ Len(<< >>) = 0
    BY <2>1, SeqIsSeq
  <2>3. 1..0 = {}
    OBVIOUS
  <2>4. QED
    BY <1>4, <2>2, <2>3 DEF WireIsTrue, InOrder
<1>6. ASSUME NEW v \in 1..version, NEW frame \in TrueFrames(v), Len(w) < WireCap
      PROVE  WireIsTrue(Append(w, frame)) /\ Len(Append(w, frame)) <= WireCap
  <2> DEFINE t == Append(w, frame)
  <2>1. /\ IsSeq(t) /\ Len(t) = Len(w) + 1 /\ t[Len(w) + 1] = frame
        /\ \A i \in 1..Len(w) : t[i] = w[i]
    BY <1>3, AppendIsSeq, LenProperties DEF IsSeq
  <2> HIDE DEF t
  <2>2. \A i \in 1..Len(t) : i \in 1..Len(w) \/ i = Len(w) + 1
    BY <1>3, <2>1
  <2>3. WireIsTrue(t)
    BY <1>3, <1>6, <2>1, <2>2 DEF WireIsTrue
  <2>4. Len(t) <= WireCap
    BY <1>3, <1>4, <1>6, <2>1
  <2>5. QED
    BY <2>3, <2>4 DEF t
<1> HIDE DEF f, c, w, l, h
<1>7. CASE Attach(m)
  <2> DEFINE g == Envelope
  <2>1. /\ held' = [held EXCEPT ![m] = g] /\ link' = [link EXCEPT ![m] = "retrying"]
        /\ UNCHANGED <<feed, cursor, wire, losses>>
    BY <1>7 DEF Attach
  <2>2. HeldIsTrue(g) /\ g.version = version
    <3>1. g.version = version /\ g.manifest = tree
      BY DEF Envelope, Seal
    <3>2. log[version] = tree /\ version \in 1..version /\ IsSeq(tree.dirs)
      BY <1>1, LoggedTrees, SeqIsSeq DEF DeltaInv, MountManifest
    <3>3. QED
      BY <3>1, <3>2 DEF HeldIsTrue, SameContent
  <2> HIDE DEF g
  <2>3. ~Signed => FollowsOn(f, c, w, g)
    <3> SUFFICES ASSUME ~Signed  PROVE FollowsOn(f, c, w, g)
      OBVIOUS
    <3>1. /\ InOrder(h.version, w)
          /\ f = "live" => c + 1 <= VersionAfter(h.version, w, Len(w))
      BY <1>1 DEF MountIsSound, FollowsOn
    <3>2. /\ InOrder(g.version, w)
          /\ \A i \in 0..Len(w) : VersionAfter(h.version, w, i) <= VersionAfter(g.version, w, i)
      BY <1>3, <2>2, <3>1, OrderRises
    <3>3. /\ VersionAfter(h.version, w, Len(w)) \in Nat /\ VersionAfter(g.version, w, Len(w)) \in Nat
          /\ VersionAfter(h.version, w, Len(w)) <= VersionAfter(g.version, w, Len(w))
      <4>1. Len(w) \in 0..Len(w) /\ (Len(w) # 0 => Len(w) \in 1..Len(w))
        BY <1>3
      <4>2. QED
        BY <1>3, <2>2, <3>2, <4>1 DEF VersionAfter
    <3>4. QED
      BY <1>3, <3>1, <3>2, <3>3 DEF FollowsOn
  <2>4. MountIsSound(f, c, w, "retrying", g)
    BY <1>1, <2>2, <2>3 DEF MountIsSound
  <2>5. losses' \in Nat
    BY <1>1, <2>1
  <2>6. QED
    BY <1>2, <2>1, <2>4, <2>5, OneMountMoves
<1>8. CASE Subscribe(m)
  <2>1. /\ link' = [link EXCEPT ![m] = "following"] /\ feed' = [feed EXCEPT ![m] = "opening"]
        /\ cursor' = [cursor EXCEPT ![m] = sent] /\ UNCHANGED <<wire, held, losses>>
    BY <1>8 DEF Subscribe
  <2>2. sent \in 0..sent
    BY <1>3
  <2>3. MountIsSound("opening", sent, w, "following", h)
    BY <1>1, <2>2 DEF MountIsSound, FollowsOn
  <2>4. QED
    BY <1>1, <1>2, <2>1, <2>3, OneMountMoves
<1>9. CASE WriteOpening(m)
  <2> DEFINE frame == ManifestFrame(Envelope)
             t == Append(w, frame)
  <2>1. /\ Len(w) < WireCap /\ wire' = [wire EXCEPT ![m] = t]
        /\ feed' = [feed EXCEPT ![m] = "live"] /\ UNCHANGED <<cursor, link, held, losses>>
    BY <1>2, <1>9 DEF WriteOpening, w
  <2>2. /\ version \in 1..version /\ frame \in TrueFrames(version)
        /\ FrameVersion(frame) = version /\ frame.kind = "manifest"
    BY <1>1, OpeningIsTrue
  <2> HIDE DEF frame
  <2>3. WireIsTrue(t) /\ Len(t) <= WireCap
    BY <1>6, <2>1, <2>2
  <2>4. ~Signed => FollowsOn("live", c, t, h)
    <3> SUFFICES ASSUME ~Signed  PROVE FollowsOn("live", c, t, h)
      OBVIOUS
    <3>1. InOrder(h.version, w)
      BY <1>1 DEF MountIsSound, FollowsOn
    <3>2. InOrder(h.version, t) /\ VersionAfter(h.version, t, Len(t)) = version
      BY <1>3, <2>2, <3>1, OrderAppends
    <3>3. QED
      BY <1>3, <3>2 DEF FollowsOn
  <2> HIDE DEF t
  <2>5. MountIsSound("live", c, t, l, h)
    BY <1>1, <2>3, <2>4 DEF MountIsSound
  <2>6. QED
    BY <1>1, <1>2, <2>1, <2>5, OneMountMoves
<1>10. CASE WriteFrame(m)
  <2> DEFINE k == c + 1
             frame == frames[k]
             t == Append(w, frame)
  <2>1. /\ f = "live" /\ Len(w) < WireCap /\ c < sent
        /\ wire' = [wire EXCEPT ![m] = t] /\ cursor' = [cursor EXCEPT ![m] = k]
        /\ UNCHANGED <<feed, link, held, losses>>
    BY <1>2, <1>10 DEF WriteFrame, f, c, w
  <2>2. k \in 1..version - 1 /\ k \in 0..sent /\ k = c + 1
    BY <1>3, <2>1
  <2> HIDE DEF k
  <2>3. /\ k + 1 \in 1..version /\ frame \in TrueFrames(k + 1) /\ FrameVersion(frame) = k + 1
    BY <1>1, <2>2, BroadcastIsTrue
  <2> HIDE DEF frame
  <2>4. WireIsTrue(t) /\ Len(t) <= WireCap
    <3> DEFINE v == k + 1
    <3>1. v \in 1..version /\ frame \in TrueFrames(v)
      BY <2>3
    <3> HIDE DEF v
    <3>2. QED
      BY <1>6, <2>1, <3>1
  <2>5. ~Signed => FollowsOn(f, k, t, h)
    <3> SUFFICES ASSUME ~Signed  PROVE FollowsOn(f, k, t, h)
      OBVIOUS
    <3>1. InOrder(h.version, w) /\ c + 1 <= VersionAfter(h.version, w, Len(w))
      BY <1>1, <2>1 DEF MountIsSound, FollowsOn
    <3>2. VersionAfter(h.version, w, Len(w)) \in Nat
      BY <1>3 DEF VersionAfter
    <3>3. frame.kind = "delta" => frame.version <= VersionAfter(h.version, w, Len(w)) + 1
      <4>1. frame.kind = "delta" => frame.version = k + 1
        BY <2>3 DEF FrameVersion
      <4>2. k + 1 <= VersionAfter(h.version, w, Len(w)) + 1
        BY <1>3, <2>2, <3>1, <3>2
      <4>3. QED
        BY <4>1, <4>2
    <3>4. InOrder(h.version, t) /\ VersionAfter(h.version, t, Len(t)) = k + 1
      BY <1>3, <2>3, <3>1, <3>3, OrderAppends
    <3>5. QED
      BY <2>2, <3>4 DEF FollowsOn
  <2> HIDE DEF t
  <2>6. MountIsSound(f, k, t, l, h)
    BY <1>1, <2>2, <2>4, <2>5 DEF MountIsSound
  <2>7. QED
    BY <1>1, <1>2, <2>1, <2>6, OneMountMoves
<1>11. CASE Lag(m)
  <2>1. /\ cursor' = [cursor EXCEPT ![m] = Oldest] /\ feed' = [feed EXCEPT ![m] = "opening"]
        /\ UNCHANGED <<wire, link, held, losses>>
    BY <1>11 DEF Lag
  <2>2. Oldest \in 0..sent
    BY <1>3, <1>4 DEF Oldest
  <2> DEFINE o == Oldest
  <2> HIDE DEF o
  <2>3. MountIsSound("opening", o, w, l, h)
    BY <1>1, <2>2 DEF MountIsSound, FollowsOn, o
  <2>4. QED
    BY <1>1, <1>2, <2>1, <2>3, OneMountMoves DEF o
<1>12. CASE Receive(m)
  <2> DEFINE frame == Head(w)
             t == Tail(w)
             g == ApplyWatchFrame(h, frame)
  <2>1. /\ w # << >> /\ held' = [held EXCEPT ![m] = g] /\ wire' = [wire EXCEPT ![m] = t]
        /\ UNCHANGED <<feed, cursor, link, losses>>
    BY <1>2, <1>12 DEF Receive, w, h
  <2>2. /\ Len(w) \in Nat \ {0} /\ frame = w[1] /\ IsSeq(t) /\ Len(t) = Len(w) - 1
        /\ \A i \in 1..Len(w) - 1 : t[i] = w[i + 1]
    BY <1>3, <2>1, TailIsSeq
  <2>3. PICK v \in 1..version : frame \in TrueFrames(v)
    <3>1. 1 \in 1..Len(w)
      BY <2>2
    <3>2. QED
      BY <1>3, <2>2, <3>1 DEF WireIsTrue
  <2>4. FrameVersion(frame) = v /\ v \in Nat
    BY <1>1, <2>3, TrueFrameIs
  <2>5. ~Signed => InOrder(h.version, w)
    BY <1>1 DEF MountIsSound, FollowsOn
  <2>6. ~Signed => (frame.kind = "delta" => v <= h.version + 1)
    <3>1. 1 \in 1..Len(w) /\ 1 - 1 = 0
      BY <2>2
    <3>2. ~Signed /\ frame.kind = "delta" => w[1].version <= VersionAfter(h.version, w, 0) + 1
      BY <2>2, <2>5, <3>1 DEF InOrder
    <3>3. frame.kind = "delta" => w[1].version = v
      BY <2>2, <2>4 DEF FrameVersion
    <3>4. QED
      BY <3>2, <3>3 DEF VersionAfter
  <2> HIDE DEF frame, t
  <2>7. /\ HeldIsTrue(g) /\ g.version \in Nat /\ h.version <= g.version
        /\ ~Signed => v <= g.version
    BY <1>1, <1>3, <2>3, <2>6, ReadingKeepsTrees
  <2> HIDE DEF g
  <2>8. WireIsTrue(t)
    <3> SUFFICES ASSUME NEW i \in 1..Len(t)  PROVE \E u \in 1..version : t[i] \in TrueFrames(u)
      BY <2>2 DEF WireIsTrue
    <3> DEFINE k == i + 1
    <3>1. k \in 1..Len(w) /\ t[i] = w[k]
      BY <2>2
    <3> HIDE DEF k
    <3>2. QED
      BY <1>3, <3>1 DEF WireIsTrue
  <2>9. Len(t) <= WireCap
    <3>1. Len(w) <= WireCap
      BY <1>1 DEF MountIsSound
    <3>2. QED
      BY <1>4, <2>2, <3>1
  <2>10. ~Signed => FollowsOn(f, c, t, g)
    <3> SUFFICES ASSUME ~Signed  PROVE FollowsOn(f, c, t, g)
      OBVIOUS
    <3>1. /\ InOrder(h.version, w)
          /\ f = "live" => c + 1 <= VersionAfter(h.version, w, Len(w))
      BY <1>1 DEF MountIsSound, FollowsOn
    <3>2. /\ InOrder(g.version, t)
          /\ VersionAfter(h.version, w, Len(w)) <= VersionAfter(g.version, t, Len(t))
      BY <1>3, <2>1, <2>2, <2>4, <2>7, <3>1, OrderGoesOn DEF t
    <3>3. VersionAfter(h.version, w, Len(w)) \in Nat
      BY <1>3, <2>2 DEF VersionAfter
    <3>4. VersionAfter(g.version, t, Len(t)) \in Nat
      <4>1. \A i \in 1..Len(t) : FrameVersion(t[i]) \in Nat
        BY <1>1, <2>8, WireVersions
      <4>2. Len(t) # 0 => Len(t) \in 1..Len(t)
        BY <2>2
      <4>3. QED
        BY <2>7, <4>1, <4>2 DEF VersionAfter
    <3>5. QED
      BY <1>3, <3>1, <3>2, <3>3, <3>4 DEF FollowsOn
  <2>11. MountIsSound(f, c, t, l, g)
    BY <1>1, <2>7, <2>8, <2>9, <2>10 DEF MountIsSound
  <2>12. QED
    BY <1>1, <1>2, <2>1, <2>11, OneMountMoves
<1>13. ASSUME NEW a \in {"retrying", "ended"}, link' = [link EXCEPT ![m] = a],
              wire' = [wire EXCEPT ![m] = << >>], feed' = [feed EXCEPT ![m] = "none"],
              UNCHANGED <<cursor, held>>, losses' \in Nat
       PROVE  WatchInv'
  <2>1. MountIsSound("none", c, << >>, a, h)
    BY <1>1, <1>5 DEF MountIsSound, FollowsOn
  <2>2. QED
    BY <1>2, <1>13, <2>1, OneMountMoves
<1>14. CASE RefuseLength(m)
  BY <1>1, <1>13, <1>14 DEF RefuseLength
<1>15. CASE Lose(m)
  <2>1. PICK a \in {"retrying", "ended"} : link' = [link EXCEPT ![m] = a]
    BY <1>15 DEF Lose
  <2>2. /\ wire' = [wire EXCEPT ![m] = << >>] /\ feed' = [feed EXCEPT ![m] = "none"]
        /\ UNCHANGED <<cursor, held>> /\ losses' = losses + 1
    BY <1>15 DEF Lose
  <2>3. losses' \in Nat
    BY <1>1, <2>2
  <2>4. QED
    BY <1>13, <2>1, <2>2, <2>3
<1>16. QED
  BY <1>7, <1>8, <1>9, <1>10, <1>11, <1>12, <1>14, <1>15 DEF Follow

\* No mount is sound before it attaches: it is with nothing held.
LEMMA WatchStart == WatchInit => WatchInv
<1> SUFFICES ASSUME WatchInit  PROVE WatchInv
  OBVIOUS
<1>1. DeltaInv
  BY InitDelta DEF WatchInit
<1>2. sent \in Nat /\ 0 \in 0..sent
  <2>1. sent = 0
    BY DEF WatchInit, Init
  <2>2. QED
    BY <2>1
<1>3. /\ feed = [m \in Mounts |-> "none"] /\ cursor = [m \in Mounts |-> 0]
      /\ wire = [m \in Mounts |-> << >>] /\ link = [m \in Mounts |-> "detached"]
      /\ held = [m \in Mounts |-> Nothing] /\ losses \in Nat
  BY DEF WatchInit
<1>4. MountIsSound("none", 0, << >>, "detached", Nothing)
  <2>1. << >> \in Seq({})
    OBVIOUS
  <2>2. IsSeq(<< >>) /\ Len(<< >>) = 0
    BY <2>1, SeqIsSeq
  <2>3. 1..0 = {} /\ 0 <= WireCap
    BY WatchAssumption
  <2>4. QED
    BY <1>2, <2>2, <2>3 DEF MountIsSound, WireIsTrue, HeldIsTrue, FollowsOn, InOrder
<1>5. QED
  BY <1>1, <1>3, <1>4 DEF WatchInv

\* Whatever the producer does, every mount stays sound.
LEMMA ProducerStep ==
    ASSUME WatchInv, [Next]_vars, UNCHANGED watchVars
    PROVE  WatchInv'
<1>1. DeltaInv /\ DeltaInv'
  BY DeltaStep DEF WatchInv
<1>2. ASSUME NEW m \in Mounts
      PROVE  MountIsSound(feed[m], cursor[m], wire[m], link[m], held[m])'
  <2>1. PICK f, c, w, l, h :
            f = feed[m] /\ c = cursor[m] /\ w = wire[m] /\ l = link[m] /\ h = held[m]
    OBVIOUS
  <2>2. MountIsSound(f, c, w, l, h)
    BY <2>1 DEF WatchInv
  <2>3. MountIsSound(f, c, w, l, h)'
    BY <1>1, <2>2, SoundStays
  <2>4. QED
    BY <2>1, <2>3 DEF watchVars
<1>3. QED
  BY <1>1, <1>2 DEF WatchInv, watchVars

\* Every mount and every frame in flight stay sound.
LEMMA WatchStep == WatchInv /\ [WatchNext]_allVars => WatchInv'
<1> SUFFICES ASSUME WatchInv, [WatchNext]_allVars  PROVE WatchInv'
  OBVIOUS
<1>1. CASE Next /\ UNCHANGED watchVars
  BY <1>1, ProducerStep
<1>2. ASSUME NEW m \in Mounts, Follow(m) \/ Lose(m)  PROVE WatchInv'
  <2>1. UNCHANGED vars
    BY <1>2 DEF Follow, Lose, Attach, Subscribe, WriteOpening, WriteFrame, Lag, Receive,
                RefuseLength
  <2>2. QED
    BY <1>2, <2>1, MountStep
<1>3. CASE UNCHANGED allVars
  BY <1>3, ProducerStep DEF allVars
<1>4. QED
  BY <1>1, <1>2, <1>3 DEF WatchNext

\* Every mount holds nothing or a tree that was published under the version it
\* holds, and every frame in flight to it is one the producer wrote.
\* source.rs, consume.rs, MountManifest::apply.
THEOREM WatchInvariant == WatchSpec => []WatchInv
<1>1. QED
  BY WatchStart, WatchStep, PTL DEF WatchSpec

\* The invariant says what the types and the first two promises say.
LEMMA SoundMountsAre ==
    ASSUME WatchInv
    PROVE  WatchTypeOK /\ MountShowsAPublishedTree /\ MountSlotsArePublished
<1>1. \A m \in Mounts : /\ MountIsSound(feed[m], cursor[m], wire[m], link[m], held[m])
                        /\ HeldIsTrue(held[m]) /\ held[m].version \in 0..version
  BY HeldVersions DEF WatchInv, MountIsSound
<1>2. WatchTypeOK
  BY <1>1 DEF WatchInv, MountIsSound, WatchTypeOK
<1>3. \A m \in Mounts : held[m].version > 0 => SameContent(held[m].manifest, log[held[m].version])
  BY <1>1 DEF HeldIsTrue, Nothing
<1>4. QED
  BY <1>2, <1>3 DEF MountShowsAPublishedTree, MountSlotsArePublished, SameContent

\* Signed or not, whatever was lost, resent, repeated or skipped, the tree a
\* mount shows is the one published under its version: consume.rs, watch_tree.
THEOREM MountsShowPublishedTrees ==
    WatchSpec => [](WatchTypeOK /\ MountShowsAPublishedTree /\ MountSlotsArePublished)
<1>1. QED
  BY WatchInvariant, SoundMountsAre, PTL

\* On a share without signatures, where nothing but the order of the frames
\* keeps a difference from being applied to the wrong tree, no frame is skipped
\* either: source.rs, the resend after a lag.
THEOREM UnsignedMountsStayPublished == ~Signed => (WatchSpec => []MountsStayPublished)
<1> SUFFICES ASSUME ~Signed  PROVE WatchSpec => []MountsStayPublished
  OBVIOUS
<1>1. WatchInv => MountsStayPublished
  <2> SUFFICES ASSUME WatchInv  PROVE NoFrameIsSkipped
    BY SoundMountsAre DEF MountsStayPublished
  <2> SUFFICES ASSUME NEW m \in Mounts, wire[m] # << >>, Head(wire[m]).kind = "delta"
               PROVE  Head(wire[m]).version <= held[m].version + 1
    BY DEF NoFrameIsSkipped
  <2>1. InOrder(held[m].version, wire[m]) /\ IsSeq(wire[m])
    BY DEF WatchInv, MountIsSound, FollowsOn, WireIsTrue
  <2>2. 1 \in 1..Len(wire[m]) /\ Head(wire[m]) = wire[m][1] /\ 1 - 1 = 0
    BY <2>1, TailIsSeq
  <2>3. QED
    BY <2>1, <2>2 DEF InOrder, VersionAfter
<1>2. QED
  BY <1>1, WatchInvariant, PTL

\* With mounts about, the producer goes on as LiveTree says: what is proved of
\* it there holds here.
THEOREM WatchRunsLiveTree == WatchSpec => Spec
<1>1. WatchInit => Init
  BY DEF WatchInit
<1>2. [WatchNext]_allVars => [Next]_vars
  <2> SUFFICES ASSUME [WatchNext]_allVars  PROVE [Next]_vars
    OBVIOUS
  <2>1. ASSUME NEW m \in Mounts, Follow(m) \/ Lose(m)  PROVE UNCHANGED vars
    BY <2>1 DEF Follow, Lose, Attach, Subscribe, WriteOpening, WriteFrame, Lag, Receive,
                RefuseLength
  <2>2. QED
    BY <2>1 DEF WatchNext, allVars
<1>3. QED
  BY <1>1, <1>2, PTL DEF WatchSpec, Spec

-----------------------------------------------------------------------------

\* The trees that were published, as PublishedTree sees them.
LEMMA PublishedTrees ==
    ASSUME DeltaInv
    PROVE  LET trees == [v \in DOMAIN log |-> Content(log[v])]
           IN  /\ trees \in Seq({Content(log[v]) : v \in 1..version}) /\ Len(trees) = version
               /\ \A v \in 1..version : trees[v] = Content(log[v])
<1> DEFINE trees == [v \in DOMAIN log |-> Content(log[v])]
           S == {Content(log[v]) : v \in 1..version}
<1>1. version \in Nat \ {0} /\ DOMAIN log = 1..version
  BY LoggedTrees DEF DeltaInv
<1>2. /\ trees \in [1..version -> S] /\ DOMAIN trees = 1..version
      /\ \A v \in 1..version : trees[v] = Content(log[v])
  BY <1>1
<1> HIDE DEF trees, S
<1>3. trees \in Seq(S)
  BY <1>1, <1>2, SeqDef
<1>4. Len(trees) = version
  BY <1>1, <1>2, <1>3, LenProperties
<1>5. QED
  BY <1>2, <1>3, <1>4 DEF trees, S

\* What the producer does publishes a tree more, or none.
LEMMA ProducerPublishes ==
    ASSUME DeltaInv, DeltaInv', [Next]_vars, UNCHANGED watchVars
    PROVE  [Promise!Next]_Promise!vars
<1> DEFINE trees == [v \in DOMAIN log |-> Content(log[v])]
           after == [v \in DOMAIN log' |-> Content(log'[v])]
<1>1. /\ version \in Nat \ {0}
      /\ \A v \in 1..version : log'[v] = log[v]
      /\ \/ version' = version /\ log' = log
         \/ version' = version + 1 /\ log' = Append(log, tree')
  BY LogGrows DEF DeltaInv
<1>2. /\ trees \in Seq({Content(log[v]) : v \in 1..version}) /\ Len(trees) = version
      /\ \A v \in 1..version : trees[v] = Content(log[v])
  BY PublishedTrees
<1>3. held' = held
  BY DEF watchVars
<1>4. CASE log' = log
  BY <1>3, <1>4 DEF Promise!vars
<1>5. CASE version' = version + 1
  <2>1. /\ DOMAIN log' = 1..version + 1
    BY <1>5, LenProperties DEF DeltaInv, TypeOK
  <2> DEFINE S == {after[v] : v \in 1..version + 1}
  <2>2. after \in [1..version + 1 -> S] /\ \A v \in 1..version : after[v] = Content(log[v])
    BY <1>1, <2>1
  <2> HIDE DEF S, after, trees
  <2>3. after \in Seq(S) /\ Len(after) = version + 1
    BY <1>1, <2>2, SeqDef, LenProperties
  <2>4. SubSeq(after, 1, version) = trees
    <3>1. 1 \in 1..version + 1 /\ version \in 0..version + 1
      BY <1>1
    <3>2. /\ SubSeq(after, 1, version) \in Seq(S) /\ Len(SubSeq(after, 1, version)) = version
          /\ \A i \in 1..version : SubSeq(after, 1, version)[i] = after[i]
      BY <1>1, <2>3, <3>1, SubSeqProperties
    <3>3. QED
      BY <1>2, <2>2, <3>2, SeqEqual
  <2>5. Len(after) = Len(trees) + 1 /\ SubSeq(after, 1, Len(trees)) = trees
    BY <1>2, <2>3, <2>4
  <2>6. Promise!Publish
    BY <1>3, <2>5 DEF Promise!Publish, after, trees
  <2>7. QED
    BY <2>6 DEF Promise!Next
<1>6. QED
  BY <1>1, <1>4, <1>5

\* What a mount takes is a tree published by then, and none before the one shown.
LEMMA MountsShow ==
    ASSUME WatchInv, UNCHANGED vars, NEW m \in Mounts, NEW h,
           held' = [held EXCEPT ![m] = h], held[m].version <= h.version, HeldIsTrue(h), h # Nothing
    PROVE  Promise!Show(m)
<1> DEFINE trees == [v \in DOMAIN log |-> Content(log[v])]
           shown == [n \in Mounts |-> held[n].version]
           view == [n \in Mounts |-> Content(held[n].manifest)]
<1>1. /\ trees \in Seq({Content(log[v]) : v \in 1..version}) /\ Len(trees) = version
      /\ \A v \in 1..version : trees[v] = Content(log[v])
  BY PublishedTrees DEF WatchInv
<1>2. /\ version \in Nat \ {0} /\ h.version \in 1..version
      /\ SameContent(h.manifest, log[h.version])
      /\ held[m].version \in Nat /\ held = [n \in Mounts |-> held[n]]
  BY HeldVersions DEF WatchInv, HeldIsTrue, MountIsSound
<1>3. held'[m] = h /\ \A n \in Mounts : n # m => held'[n] = held[n]
  BY <1>2
<1>4. shown'[m] = h.version /\ shown'[m] \in shown[m]..version
  BY <1>2, <1>3
<1>5. shown' = [shown EXCEPT ![m] = shown'[m]]
  <2>1. shown' = [n \in Mounts |-> shown'[n]] /\ shown = [n \in Mounts |-> shown[n]]
    OBVIOUS
  <2>2. \A n \in Mounts : n # m => shown'[n] = shown[n]
    BY <1>3
  <2> HIDE DEF shown
  <2>3. QED
    BY <2>1, <2>2
<1>6. Content(h.manifest) = trees[h.version] /\ h.version # 0
  BY <1>1, <1>2 DEF Content, SameContent
<1>7. view' = [view EXCEPT ![m] = IF shown'[m] = 0 THEN Promise!NothingShown ELSE trees[shown'[m]]]
  <2> HIDE DEF trees
  <2>1. shown'[m] = h.version
    BY <1>4
  <2> HIDE DEF shown
  <2>2. view' = [view EXCEPT ![m] = Content(h.manifest)]
    <3>1. view' = [n \in Mounts |-> view'[n]] /\ view = [n \in Mounts |-> view[n]]
      OBVIOUS
    <3>2. view'[m] = Content(h.manifest) /\ \A n \in Mounts : n # m => view'[n] = view[n]
      BY <1>3
    <3> HIDE DEF view
    <3>3. QED
      BY <3>1, <3>2
  <2>3. QED
    BY <1>6, <2>1, <2>2
<1>8. UNCHANGED trees
  BY DEF vars
<1>9. QED
  BY <1>1, <1>4, <1>5, <1>7, <1>8 DEF Promise!Show, Promise!TreeAt

\* Each step of the mounts and the producer is one the promise allows.
LEMMA PromiseKept ==
    ASSUME WatchInv, WatchInv', [WatchNext]_allVars
    PROVE  [Promise!Next]_Promise!vars
<1>1. DeltaInv /\ DeltaInv'
  BY DEF WatchInv
<1>2. CASE (Next /\ UNCHANGED watchVars) \/ UNCHANGED allVars
  BY <1>1, <1>2, ProducerPublishes DEF allVars
<1>3. CASE UNCHANGED <<vars, held>>
  BY <1>3 DEF Promise!vars, vars
<1>4. ASSUME NEW m \in Mounts, Attach(m)  PROVE Promise!Show(m)
  <2> DEFINE g == Envelope
  <2>1. held' = [held EXCEPT ![m] = g] /\ UNCHANGED vars
    BY <1>4 DEF Attach
  <2>2. g.version = version /\ g.manifest = tree
    BY DEF Envelope, Seal
  <2>3. version \in 1..version /\ log[version] = tree /\ IsSeq(tree.dirs) /\ version # 0
    BY <1>1, LoggedTrees, SeqIsSeq DEF DeltaInv, MountManifest
  <2>4. HeldIsTrue(g) /\ g # Nothing
    BY <2>2, <2>3 DEF HeldIsTrue, SameContent, Nothing
  <2>5. held[m].version <= version
    BY HeldVersions DEF WatchInv, MountIsSound
  <2>6. QED
    <3> HIDE DEF g
    <3> QED  BY <2>1, <2>2, <2>4, <2>5, MountsShow
<1>5. ASSUME NEW m \in Mounts, Receive(m)  PROVE Promise!Show(m) \/ UNCHANGED <<vars, held>>
  <2> DEFINE w == wire[m]
             h == held[m]
             frame == Head(w)
             g == ApplyWatchFrame(h, frame)
  <2>1. /\ w # << >> /\ held' = [held EXCEPT ![m] = g] /\ UNCHANGED vars
    BY <1>5 DEF Receive
  <2>2. /\ WireIsTrue(w) /\ IsSeq(w) /\ HeldIsTrue(h)
        /\ ~Signed => InOrder(h.version, w)
        /\ held = [n \in Mounts |-> held[n]]
    BY DEF WatchInv, MountIsSound, FollowsOn, WireIsTrue
  <2>3. Len(w) \in Nat \ {0} /\ frame = w[1] /\ 1 \in 1..Len(w) /\ 1 - 1 = 0
    BY <2>1, <2>2, TailIsSeq
  <2>4. PICK v \in 1..version : frame \in TrueFrames(v)
    BY <2>2, <2>3 DEF WireIsTrue
  <2>5. ~Signed => (frame.kind = "delta" => v <= h.version + 1)
    <3>1. FrameVersion(frame) = v
      BY <1>1, <2>4, TrueFrameIs
    <3>2. QED
      BY <2>2, <2>3, <3>1 DEF InOrder, VersionAfter, FrameVersion
  <2> HIDE DEF frame
  <2>6. /\ HeldIsTrue(g) /\ h.version <= g.version /\ (g = h \/ g # Nothing)
    BY <1>1, <2>2, <2>4, <2>5, ReadingKeepsTrees
  <2> HIDE DEF g
  <2>7. CASE g = h
    BY <2>1, <2>2, <2>7
  <2>8. CASE g # Nothing
    BY <2>1, <2>6, <2>8, MountsShow
  <2>9. QED
    BY <2>6, <2>7, <2>8
<1>6. ASSUME NEW m \in Mounts, Follow(m) \/ Lose(m)
      PROVE  Attach(m) \/ Receive(m) \/ UNCHANGED <<vars, held>>
  BY <1>6 DEF Follow, Lose, Subscribe, WriteOpening, WriteFrame, Lag, RefuseLength
<1>7. QED
  BY <1>2, <1>3, <1>4, <1>5, <1>6 DEF WatchNext, Promise!Next

\* Following a share by differences implements PublishedTree: whatever is lost,
\* resent, repeated or refused, each mount shows a published tree, whole, and
\* moves forward only.  live.rs, source.rs, consume.rs.
THEOREM WatchImplementsPublishedTree == WatchSpec => ImplementsPublishedTree
<1>1. WatchInit => Promise!Init
  <2> SUFFICES ASSUME WatchInit  PROVE Promise!Init
    OBVIOUS
  <2>1. /\ log = <<tree>> /\ held = [m \in Mounts |-> Nothing] /\ version = 1
    BY DEF WatchInit, Init
  <2>2. Len([v \in DOMAIN log |-> Content(log[v])]) = 1
    <3>1. DeltaInv
      BY InitDelta DEF WatchInit
    <3>2. QED
      BY <2>1, <3>1, PublishedTrees
  <2>3. EntriesOf(Nothing.manifest.dirs) = {}
    BY DEF EntriesOf, Nothing
  <2>4. Content(Nothing.manifest) = Promise!NothingShown
    BY <2>3 DEF Content, Nothing, Promise!NothingShown
  <2>5. [m \in Mounts |-> held[m].version] = [m \in Mounts |-> 0]
    BY <2>1 DEF Nothing
  <2>6. [m \in Mounts |-> Content(held[m].manifest)] = [m \in Mounts |-> Promise!NothingShown]
    BY <2>1, <2>4
  <2>7. QED
    BY <2>2, <2>5, <2>6 DEF Promise!Init
<1>2. WatchInv /\ WatchInv' /\ [WatchNext]_allVars => [Promise!Next]_Promise!vars
  BY PromiseKept
<1>3. QED
  BY <1>1, <1>2, WatchInvariant, PTL DEF WatchSpec, ImplementsPublishedTree, Promise!Spec

-----------------------------------------------------------------------------
(* Mirror: copies are exact.                                               *)

\* The paths a share may ever have fit its manifest.
PathsFit == Cardinality(DirPaths) + Cardinality(FilePaths) <= MaxManifest

\* Every slot is some path's, for good: a tree never outgrows the paths.
TreeIsBounded ==
    /\ Len(tree.dirs) <= Cardinality(DirPaths)
    /\ \A i \in DOMAIN tree.files : \E p \in FilePaths : index_of[p] = i

\* The steps of a run: those before any file, those of one file, those after the
\* sidecar is written, those after its manifest is, and those that have a
\* manifest to go on with.
Starting == {"since", "whole", "record", "manifest", "secret", "author"}
Fetching == {"row", "bytes", "open", "write", "check"}
Copying == {"next", "done"} \cup Fetching
Recorded == {"secret", "author"} \cup Copying
Holding == {"record", "manifest"} \cup Recorded

\* A run, a sidecar and a copy, whatever they hold.
RunIsShaped(r) ==
    /\ r = [pc |-> r.pc, life |-> r.life, protected |-> r.protected,
            wanted |-> r.wanted, held |-> r.held, slot |-> r.slot, row |-> r.row]
    /\ r.life \in Nat /\ r.life <= life
SideIsShaped(s) ==
    s = [manifest |-> s.manifest, secret |-> s.secret, author |-> s.author, auth |-> s.auth]
FilesAreShaped(c) == c = [p \in FilePaths |-> c[p]]

\* What a run goes on with is what the life it was begun in published.
HoldsPublished(r) ==
    Signed /\ r.pc \in Holding /\ r.life = life =>
        r.held.version \in 1..version /\ r.held.manifest = log[r.held.version]

\* The listed files a run has been through.
Passed(r) == {i \in Listed(tree) : i < r.slot \/ r.pc = "done" \/ (r.pc = "next" /\ i = r.slot)}

\* A copy has a listed file, whole and as it is listed.
HasWhole(c, i) ==
    c[tree.files[i].path] = [stamp |-> tree.files[i].stamp, size |-> SizeOf[tree.files[i].stamp]]

\* What a run has done so far, when the producer has rested since it began: it
\* never failed, and each of its steps left what this life of the share says.
SoFarExact(r, s, c) ==
    /\ r.pc # "idle" => r.life = life /\ r.protected = protected
    /\ PathsFit => r.pc # "failed"
    /\ r.slot \in Nat /\ (r.pc \in Starting => r.slot = 0)
    /\ r.pc \in Holding => r.held = Envelope
    /\ r.pc \in Recorded => s.manifest = Envelope
    /\ r.pc \in {"author"} \cup Copying => s.secret = life
    /\ r.pc \in Copying =>
          /\ s.author = life /\ (protected => s.auth = life)
          /\ \A i \in Passed(r) : tree.files[i].path \in r.wanted => HasWhole(c, i)
    /\ r.pc \in Fetching => r.slot \in Listed(tree)
    /\ r.pc \in Fetching \ {"row"} => r.row = tree.files[r.slot].stamp
    /\ r.pc = "check" => HasWhole(c, r.slot)

\* The invariant of the theorems: the producer's, and the copy's.
CopyInv ==
    /\ SlotInv /\ TreeIsBounded
    /\ life \in Nat /\ (~PasswordMayChange => protected = TRUE)
    /\ RunIsShaped(run) /\ SideIsShaped(side) /\ FilesAreShaped(copy)
    /\ HoldsPublished(run)
    /\ Signed /\ settled => Published /\ SoFarExact(run, side, copy)

-----------------------------------------------------------------------------

\* A share put up again is as one put up for the first time.
LEMMA RestartIsFresh == TypeOK /\ Restart => Fresh'
<1> SUFFICES ASSUME TypeOK, Restart PROVE Fresh'
  OBVIOUS
<1>1. disk' = disk /\ touches' = touches /\ failures' = failures
  BY DEF Restart, diskVars
<1>2. disk' \in Disk /\ touches' \in Nat /\ failures' \in Nat
  BY <1>1 DEF TypeOK, Disk
<1> DEFINE Scanned(d) ==
      \E ds \in Listings(PresentDirs(d)), fs \in Listings(PresentFiles(d)) :
        /\ tree' = [dirs |-> Entries(d.dirs, ds), files |-> Entries(d.files, fs)]
        /\ served' = fs
        /\ index_of' = [p \in FilePaths |->
                         IF p \in PresentFiles(d)
                         THEN CHOOSE i \in DOMAIN fs : fs[i] = p ELSE 0]
<1>3. Scanned(disk)
  BY DEF Restart
<1>4. Scanned(disk')
  <2> HIDE DEF Scanned
  <2>1. QED
    BY <1>1, <1>3
<1>5. /\ watching' = FALSE /\ pending' = FALSE
      /\ task' = "waiting" /\ scanned' = NoScan
      /\ version' = 1 /\ log' = <<tree'>>
      /\ frames' = << >> /\ sent' = 0
  BY DEF Restart
<1>6. QED
  BY <1>2, <1>4, <1>5, Zenon DEF Fresh, NoScan

\* The tree of a share just put up lists each path once.
LEMMA FreshIsBounded == Fresh => TreeIsBounded
<1> SUFFICES ASSUME Fresh PROVE TreeIsBounded
  OBVIOUS
<1>1. PICK ds \in Listings(PresentDirs(disk)), fs \in Listings(PresentFiles(disk)) :
        tree = [dirs |-> Entries(disk.dirs, ds), files |-> Entries(disk.files, fs)]
  BY DEF Fresh
<1>2. disk \in Disk
  BY DEF Fresh
<1>3. Len(tree.dirs) <= Cardinality(DirPaths)
  BY <1>1, <1>2, ScannedDirs
<1>4. ASSUME NEW i \in DOMAIN tree.files  PROVE \E p \in FilePaths : index_of[p] = i
  <2>1. TypeOK /\ SlotsAreRecorded /\ log = <<tree>>
    BY FreshSlots DEF SlotInv, Fresh
  <2>2. tree.files[i] \in FileEntry
    <3>1. tree.files \in Seq(FileEntry)
      BY <1>1, <1>2, ScannedFiles
    <3>2. QED
      BY <3>1, ElementOfSeq, LenProperties
  <2>3. tree.files[i] # Tombstone /\ tree.files[i].path \in FilePaths
    BY <2>2, PathsAssumption DEF FileEntry, Tombstone
  <2>4. index_of[tree.files[i].path] = i
    BY <2>1, <2>3 DEF SlotsAreRecorded
  <2>5. QED
    BY <2>3, <2>4
<1>5. QED
  BY <1>3, <1>4 DEF TreeIsBounded

\* Put up again, its slots are as they should be.
LEMMA FreshSlotsNext == Fresh' => SlotInv' /\ TreeIsBounded'
<1>1. QED
  BY FreshSlots, FreshIsBounded, PTL

\* An apply adds slots for new paths only.
LEMMA BoundedStep ==
    ASSUME SlotInv, SlotInv', TreeIsBounded, [Next]_vars
    PROVE  TreeIsBounded'
<1>1. TypeOK /\ TypeOK'
  BY DEF SlotInv
<1>2. CASE UNCHANGED treeVars
  BY <1>2 DEF treeVars, TreeIsBounded
<1>3. CASE Apply /\ ~UNCHANGED treeVars
  <2>1. /\ Len(tree'.dirs) <= Cardinality(DirPaths)
        /\ \A i \in DOMAIN tree'.files : i > Len(tree.files) => tree'.files[i] # Tombstone
        /\ \A i \in DOMAIN tree'.files : tree'.files[i] # Tombstone =>
              index_of'[tree'.files[i].path] = i
        /\ \A p \in FilePaths : index_of[p] # 0 => index_of'[p] = index_of[p]
    BY <1>1, <1>3, ApplyStep
  <2>2. ASSUME NEW i \in DOMAIN tree'.files  PROVE \E p \in FilePaths : index_of'[p] = i
    <3>1. /\ tree.files \in Seq(FileEntry \cup {Tombstone})
          /\ tree'.files \in Seq(FileEntry \cup {Tombstone})
      BY <1>1 DEF TypeOK, MountManifest
    <3>2. /\ i \in Nat \ {0} /\ Len(tree.files) \in Nat /\ DOMAIN tree.files = 1..Len(tree.files)
          /\ tree'.files[i] \in FileEntry \cup {Tombstone}
      BY <3>1, ElementOfSeq, LenProperties
    <3>3. CASE i > Len(tree.files)
      <4>1. tree'.files[i] \in FileEntry /\ index_of'[tree'.files[i].path] = i
        BY <2>1, <3>2, <3>3
      <4>2. QED
        BY <4>1 DEF FileEntry
    <3>4. CASE i \in 1..Len(tree.files)
      <4>1. PICK p \in FilePaths : index_of[p] = i
        BY <3>2, <3>4 DEF TreeIsBounded
      <4>2. QED
        BY <2>1, <3>2, <4>1
    <3>5. QED
      BY <3>2, <3>3, <3>4
  <2>3. QED
    BY <2>1, <2>2 DEF TreeIsBounded
<1>4. QED
  BY <1>2, <1>3 DEF Next, Touch, StartWatcher, Settle, Scan, ScanFails, Send, vars, treeVars

\* A tree bounded by the paths is within the cap a reader sets, when they are.
LEMMA TreeFits ==
    ASSUME TypeOK, TreeIsBounded, PathsFit
    PROVE  ManifestSize(tree) <= MaxManifest
<1> DEFINE n == Len(tree.files)
           S == {p \in FilePaths : index_of[p] \in 1..n}
           f == [p \in S |-> index_of[p]]
<1>1. /\ n \in Nat /\ DOMAIN tree.files = 1..n /\ Len(tree.dirs) \in Nat
  BY LenProperties DEF TypeOK, MountManifest
<1>2. IsFiniteSet(S) /\ Cardinality(S) <= Cardinality(FilePaths)
  <2>1. S \subseteq FilePaths
    OBVIOUS
  <2> HIDE DEF S
  <2>2. QED
    BY <2>1, FS_Subset, PathsAssumption
<1>3. f \in Surjection(S, 1..n)
  BY <1>1 DEF TreeIsBounded, Surjection
<1>4. Cardinality(1..n) <= Cardinality(S)
  <2> HIDE DEF S, f, n
  <2>1. QED
    BY <1>2, <1>3, FS_Surjection
<1>5. Cardinality(1..n) = n
  <2> HIDE DEF n
  <2>1. QED
    BY <1>1, FS_Interval
<1>6. /\ Cardinality(S) \in Nat /\ Cardinality(FilePaths) \in Nat /\ Cardinality(DirPaths) \in Nat
  BY <1>2, FS_CardinalityType, PathsAssumption
<1>7. n <= Cardinality(FilePaths)
  BY <1>1, <1>2, <1>4, <1>5, <1>6
<1>8. Len(tree.dirs) <= Cardinality(DirPaths)
  BY DEF TreeIsBounded
<1>9. Cardinality(DirPaths) + Cardinality(FilePaths) <= MaxManifest /\ MaxManifest \in Nat
  BY BudgetAssumption DEF PathsFit
<1>10. Len(tree.dirs) + n <= MaxManifest
  <2> HIDE DEF n
  <2>1. QED
    BY <1>1, <1>6, <1>7, <1>8, <1>9
<1>11. QED
  BY <1>10 DEF ManifestSize

-----------------------------------------------------------------------------

\* While the producer rests, what it opens at a listed slot is what it listed.
LEMMA RestingRows ==
    ASSUME SlotInv, Published, NEW i \in Listed(tree)
    PROVE  /\ tree.files[i].path \in FilePaths /\ tree.files[i].stamp \in Stamps
           /\ tree.files[i].stamp # 0 /\ i \in Nat \ {0}
           /\ run.life = life => OriginRow(i) = tree.files[i].stamp
<1> DEFINE p == tree.files[i].path
<1>1. TypeOK /\ ServedMatchesListing
  BY DEF SlotInv
<1>2. i \in DOMAIN tree.files /\ tree.files[i] # Tombstone
  BY DEF Listed
<1>3. tree.files[i] \in FileEntry /\ i \in Nat \ {0}
  BY <1>1, <1>2, ElementOfSeq, LenProperties DEF TypeOK, MountManifest
<1>4. p \in FilePaths /\ p # 0 /\ tree.files[i].stamp \in Stamps /\ tree.files[i].stamp # 0
  BY <1>3, PathsAssumption DEF FileEntry
<1>5. i \in DOMAIN served /\ served[i] = p
  BY <1>1, <1>2 DEF TypeOK, ServedMatchesListing
<1>6. tree.files[i] \in EntriesOf(tree.files) \ {Tombstone}
  BY <1>2 DEF EntriesOf
<1>7. \E q \in PresentFiles(disk) : tree.files[i] = [path |-> q, stamp |-> disk.files[q]]
  BY <1>6 DEF Published
<1>8. tree.files[i].stamp = disk.files[p]
  BY <1>7
<1>9. run.life = life => OriginRow(i) = disk.files[p]
  BY <1>4, <1>5 DEF OriginRow, Reachable
<1>10. QED
  BY <1>3, <1>4, <1>8, <1>9

\* Two listed slots are two paths.
LEMMA SlotsAreApart ==
    ASSUME SlotInv, NEW i \in Listed(tree), NEW j \in Listed(tree),
           tree.files[i].path = tree.files[j].path
    PROVE  i = j
<1>1. version \in DOMAIN log /\ log[version] = tree
  BY LoggedTrees DEF SlotInv
<1>2. index_of[tree.files[i].path] = i /\ index_of[tree.files[j].path] = j
  BY <1>1 DEF Listed, SlotInv, SlotsAreRecorded
<1>3. QED
  BY <1>2

\* A step of a run that leaves the producer alone need only answer for itself.
LEMMA RunKeeps ==
    ASSUME CopyInv, UNCHANGED <<vars, life, protected, settled>>, NEW r, NEW s, NEW c,
           run' = r, side' = s, copy' = c, RunIsShaped(r), SideIsShaped(s),
           FilesAreShaped(c), HoldsPublished(r),
           Signed /\ settled => SoFarExact(r, s, c)
    PROVE  CopyInv'
<1>1. SlotInv'
  BY SlotStep DEF CopyInv
<1>2. UNCHANGED <<tree, index_of, version, log, disk, sent, frames>>
  BY DEF vars
<1>3. TreeIsBounded'
  BY <1>2 DEF CopyInv, TreeIsBounded
<1>4. RunIsShaped(r)' /\ SideIsShaped(s)' /\ FilesAreShaped(c)'
  BY DEF RunIsShaped, SideIsShaped, FilesAreShaped
<1>5. HoldsPublished(r)'
  BY <1>2 DEF HoldsPublished
<1>6. ASSUME Signed, settled'  PROVE Published' /\ SoFarExact(r, s, c)'
  <2>1. Published'
    BY <1>2, <1>6 DEF CopyInv, Published
  <2>2. SoFarExact(r, s, c)
    BY <1>6
  <2>3. Envelope' = Envelope /\ Passed(r)' = Passed(r)
    BY <1>2 DEF Envelope, Passed
  <2>4. \A i : HasWhole(c, i)' <=> HasWhole(c, i)
    BY <1>2 DEF HasWhole
  <2>5. QED
    BY <1>2, <2>1, <2>2, <2>3, <2>4 DEF SoFarExact
<1>7. QED
  BY <1>1, <1>3, <1>4, <1>5, <1>6 DEF CopyInv

\* A run that went on: its life and its errand are as they were.
Went(r, pc, holds, slot, row) ==
    /\ r.pc = pc /\ r.life = run.life /\ r.protected = run.protected /\ r.wanted = run.wanted
    /\ r.held = holds /\ r.slot = slot /\ r.row = row
    /\ RunIsShaped(r)

\* So is a run whose step changed, and at most one more field.
LEMMA Going ==
    ASSUME RunIsShaped(run), NEW x, NEW y, NEW r
    PROVE  /\ r = [run EXCEPT !.pc = x] => Went(r, x, run.held, run.slot, run.row)
           /\ r = [run EXCEPT !.pc = x, !.held = y] => Went(r, x, y, run.slot, run.row)
           /\ r = [run EXCEPT !.pc = x, !.slot = y] => Went(r, x, run.held, y, run.row)
           /\ r = [run EXCEPT !.pc = x, !.row = y] => Went(r, x, run.held, run.slot, y)
<1>1. run = [pc |-> run.pc, life |-> run.life, protected |-> run.protected,
             wanted |-> run.wanted, held |-> run.held, slot |-> run.slot, row |-> run.row]
  BY DEF RunIsShaped
<1>2. PICK pc, l, p, w, h, i, o : /\ run.pc = pc /\ run.life = l /\ run.protected = p
                                  /\ run.wanted = w /\ run.held = h /\ run.slot = i /\ run.row = o
  OBVIOUS
<1>3. run = [pc |-> pc, life |-> l, protected |-> p, wanted |-> w,
             held |-> h, slot |-> i, row |-> o]
  BY <1>1, <1>2, Zenon
<1>4. PICK q : q = [pc |-> x, life |-> l, protected |-> p, wanted |-> w,
                    held |-> h, slot |-> i, row |-> o]
  OBVIOUS
<1>5. [run EXCEPT !.pc = x] = q
  BY <1>3, <1>4
<1>6. /\ [run EXCEPT !.pc = x, !.held = y] = [[run EXCEPT !.pc = x] EXCEPT !.held = y]
      /\ [run EXCEPT !.pc = x, !.slot = y] = [[run EXCEPT !.pc = x] EXCEPT !.slot = y]
      /\ [run EXCEPT !.pc = x, !.row = y] = [[run EXCEPT !.pc = x] EXCEPT !.row = y]
  OBVIOUS
<1>7. /\ [q EXCEPT !.held = y] = [pc |-> x, life |-> l, protected |-> p,
                                  wanted |-> w, held |-> y, slot |-> i, row |-> o]
      /\ [q EXCEPT !.slot = y] = [pc |-> x, life |-> l, protected |-> p,
                                  wanted |-> w, held |-> h, slot |-> y, row |-> o]
      /\ [q EXCEPT !.row = y] = [pc |-> x, life |-> l, protected |-> p,
                                 wanted |-> w, held |-> h, slot |-> i, row |-> y]
  BY <1>4
<1>8. l \in Nat /\ l <= life
  BY <1>2, Zenon DEF RunIsShaped
<1>9. ASSUME NEW g, NEW j, NEW k,
             r = [pc |-> x, life |-> l, protected |-> p, wanted |-> w,
                  held |-> g, slot |-> j, row |-> k]
      PROVE  Went(r, x, g, j, k)
  <2>1. /\ r.pc = x /\ r.life = l /\ r.protected = p /\ r.wanted = w
        /\ r.held = g /\ r.slot = j /\ r.row = k
    BY <1>9
  <2>2. r = [pc |-> r.pc, life |-> r.life, protected |-> r.protected,
             wanted |-> r.wanted, held |-> r.held, slot |-> r.slot, row |-> r.row]
    BY <1>9
  <2>3. RunIsShaped(r)
    BY <1>8, <2>1, <2>2, Zenon DEF RunIsShaped
  <2>4. QED
    BY <1>2, <2>1, <2>3, Zenon DEF Went
<1>10. QED
  BY <1>2, <1>4, <1>5, <1>6, <1>7, <1>8, <1>9, Zenon

\* What every step of a run leaves alone, and what it starts from.
LEMMA GoesOn ==
    ASSUME CopyInv, RunStep
    PROVE  /\ UNCHANGED <<vars, life, protected, settled>>
           /\ SlotInv /\ TypeOK /\ TreeIsBounded
           /\ RunIsShaped(run) /\ SideIsShaped(side) /\ FilesAreShaped(copy)
           /\ HoldsPublished(run)
           /\ Signed /\ settled => Published /\ SoFarExact(run, side, copy)
<1>1. UNCHANGED <<vars, life, protected, settled>>
  BY DEF RunStep, lifeVars, Since, Whole, OpenSidecar, WriteManifest, WriteSecret, WriteAuthor,
         NextFile, AskRow, FetchBytes, OpenFile, WriteFile, Record
<1>2. QED
  BY <1>1, Zenon DEF CopyInv, SlotInv, RunIsShaped

\* A step of the run, with what it leaves.
LEMMA OnlyGoes ==
    ASSUME CopyInv, RunStep, NEW r, run' = r, RunIsShaped(r),
           SideIsShaped(side'), FilesAreShaped(copy'), HoldsPublished(r),
           Signed /\ settled => SoFarExact(r, side', copy')
    PROVE  CopyInv'
<1>1. PICK s, c : s = side' /\ c = copy'
  OBVIOUS
<1>2. SideIsShaped(s) /\ FilesAreShaped(c) /\ (Signed /\ settled => SoFarExact(r, s, c))
  BY <1>1
<1>3. QED
  BY <1>1, <1>2, GoesOn, RunKeeps

\* Reading the manifest: a difference that does not lead to what was signed is
\* not taken, and the whole manifest is what it says.
LEMMA SinceKeeps == CopyInv /\ Since => CopyInv'
<1> SUFFICES ASSUME CopyInv, Since  PROVE CopyInv'
  OBVIOUS
<1>1. RunStep
  BY DEF RunStep
<1>2. /\ TypeOK /\ RunIsShaped(run) /\ SideIsShaped(side) /\ FilesAreShaped(copy)
      /\ HoldsPublished(run)
      /\ Signed /\ settled => Published /\ SoFarExact(run, side, copy)
  BY <1>1, GoesOn
<1>3. /\ run.pc = "since" /\ side' = side /\ copy' = copy
      /\ \/ /\ Acceptable(CaughtUp, run.held.version)
            /\ run' = [run EXCEPT !.pc = "record", !.held = CaughtUp]
         \/ run' = [run EXCEPT !.pc = "whole", !.held = NoEnvelope]
  BY DEF Since, Go
<1>4. SideIsShaped(side') /\ FilesAreShaped(copy')
  BY <1>2, <1>3
<1>5. PICK r : r = run'
  OBVIOUS
<1>6. CASE /\ Acceptable(CaughtUp, run.held.version)
           /\ run' = [run EXCEPT !.pc = "record", !.held = CaughtUp]
  <2>1. CaughtUp.version = version /\ (Signed => CaughtUp.manifest = tree /\ CaughtUp = Envelope)
    BY <1>6 DEF Acceptable, Verifies, CaughtUp, DeltasSince, Sign, Envelope, Seal
  <2>2. Went(r, "record", CaughtUp, run.slot, run.row)
    BY <1>2, <1>5, <1>6, Going
  <2>3. HoldsPublished(r)
    BY <1>2, <2>1, <2>2, LoggedTrees DEF HoldsPublished, Went
  <2>4. Signed /\ settled => SoFarExact(r, side', copy')
    BY <1>2, <1>3, <2>1, <2>2 DEF SoFarExact, Starting, Recorded, Copying, Fetching, Went
  <2>5. QED
    BY <1>1, <1>4, <1>5, <2>2, <2>3, <2>4, OnlyGoes DEF Went
<1>7. CASE run' = [run EXCEPT !.pc = "whole", !.held = NoEnvelope]
  <2>1. Went(r, "whole", NoEnvelope, run.slot, run.row)
    BY <1>2, <1>5, <1>7, Going
  <2>2. HoldsPublished(r)
    BY <2>1 DEF HoldsPublished, Holding, Recorded, Copying, Fetching, Went
  <2>3. Signed /\ settled => SoFarExact(r, side', copy')
    BY <1>2, <1>3, <2>1 DEF SoFarExact, Starting, Holding, Recorded, Copying, Fetching, Went
  <2>4. QED
    BY <1>1, <1>4, <1>5, <2>1, <2>2, <2>3, OnlyGoes DEF Went
<1>8. QED
  BY <1>3, <1>6, <1>7

\* A run that fails had something against it: the producer moved on, or the
\* share may outgrow what readers accept.
LEMMA FailKeeps ==
    ASSUME CopyInv, RunStep, Fail, UNCHANGED <<side, copy>>,
           ~ (Signed /\ settled /\ PathsFit), run.pc # "idle"
    PROVE  CopyInv'
<1>1. /\ RunIsShaped(run) /\ SideIsShaped(side') /\ FilesAreShaped(copy')
      /\ Signed /\ settled => SoFarExact(run, side, copy)
  BY GoesOn
<1>2. PICK r : r = run'
  OBVIOUS
<1>3. Went(r, "failed", run.held, run.slot, run.row)
  BY <1>1, <1>2, Going DEF Fail, Go
<1>4. HoldsPublished(r)
  BY <1>3 DEF HoldsPublished, Holding, Recorded, Copying, Fetching, Went
<1>5. Signed /\ settled => SoFarExact(r, side', copy')
  BY <1>1, <1>3 DEF SoFarExact, Starting, Holding, Recorded, Copying, Fetching, Went
<1>6. QED
  BY <1>1, <1>2, <1>3, <1>4, <1>5, OnlyGoes DEF Went

\* The whole manifest verifies as the producer signed it.
LEMMA WholeKeeps == CopyInv /\ Whole => CopyInv'
<1> SUFFICES ASSUME CopyInv, Whole  PROVE CopyInv'
  OBVIOUS
<1>1. RunStep
  BY DEF RunStep
<1>2. /\ TypeOK /\ TreeIsBounded /\ RunIsShaped(run) /\ SideIsShaped(side) /\ FilesAreShaped(copy)
      /\ HoldsPublished(run)
      /\ Signed /\ settled => Published /\ SoFarExact(run, side, copy)
  BY <1>1, GoesOn
<1>3. /\ run.pc = "whole" /\ side' = side /\ copy' = copy
      /\ IF Reachable /\ Acceptable(Envelope, 0) /\ ManifestSize(tree) <= MaxManifest
         THEN run' = [run EXCEPT !.pc = "record", !.held = Envelope]
         ELSE Fail
  BY DEF Whole, Go
<1>4. PICK r : r = run'
  OBVIOUS
<1>5. version \in 1..version /\ log[version] = tree
  BY <1>2, LoggedTrees
<1>6. CASE run' = [run EXCEPT !.pc = "record", !.held = Envelope]
  <2>1. Envelope.version = version /\ Envelope.manifest = tree
    BY DEF Envelope, Seal
  <2>2. Went(r, "record", Envelope, run.slot, run.row)
    BY <1>2, <1>4, <1>6, Going
  <2>3. HoldsPublished(r)
    BY <1>5, <2>1, <2>2 DEF HoldsPublished, Went
  <2>4. Signed /\ settled => SoFarExact(r, side', copy')
    BY <1>2, <1>3, <2>2 DEF SoFarExact, Starting, Recorded, Copying, Fetching, Went
  <2>5. QED
    BY <1>1, <1>2, <1>3, <1>4, <2>2, <2>3, <2>4, OnlyGoes DEF Went
<1>7. CASE ~ (Reachable /\ Acceptable(Envelope, 0) /\ ManifestSize(tree) <= MaxManifest)
  <2>1. Acceptable(Envelope, 0)
    BY <1>5 DEF Acceptable, Verifies, Envelope, Seal, Sign
  <2>2. Signed /\ settled => Reachable
    BY <1>2, <1>3 DEF SoFarExact, Reachable
  <2>3. PathsFit => ManifestSize(tree) <= MaxManifest
    BY <1>2, TreeFits
  <2>4. QED
    BY <1>1, <1>3, <1>7, <2>1, <2>2, <2>3, FailKeeps
<1>8. QED
  BY <1>3, <1>6, <1>7

\* The sidecar is written one file after another, each from what the run holds
\* and was given.
LEMMA SidecarKeeps ==
    ASSUME CopyInv, OpenSidecar \/ WriteManifest \/ WriteSecret \/ WriteAuthor
    PROVE  CopyInv'
<1>1. RunStep
  BY DEF RunStep
<1>2. /\ RunIsShaped(run) /\ SideIsShaped(side) /\ FilesAreShaped(copy)
      /\ HoldsPublished(run)
      /\ Signed /\ settled => Published /\ SoFarExact(run, side, copy)
  BY <1>1, GoesOn
<1>3. PICK r, s : r = run' /\ s = side'
  OBVIOUS
<1>4. copy' = copy /\ FilesAreShaped(copy')
  BY <1>2 DEF OpenSidecar, WriteManifest, WriteSecret, WriteAuthor
<1>5. PICK m, k, a, t : /\ side.manifest = m /\ side.secret = k
                        /\ side.author = a /\ side.auth = t
  OBVIOUS
<1>6. side = [manifest |-> m, secret |-> k, author |-> a, auth |-> t]
  BY <1>2, <1>5, Zenon DEF SideIsShaped
<1>7. ASSUME NEW n, NEW l, NEW b, NEW u,
             s = [manifest |-> n, secret |-> l, author |-> b, auth |-> u]
      PROVE  /\ s.manifest = n /\ s.secret = l /\ s.author = b /\ s.auth = u
             /\ SideIsShaped(s)
  <2>1. /\ s.manifest = n /\ s.secret = l /\ s.author = b /\ s.auth = u
    BY <1>7
  <2>2. s = [manifest |-> s.manifest, secret |-> s.secret, author |-> s.author, auth |-> s.auth]
    BY <1>7
  <2>3. QED
    BY <2>1, <2>2, Zenon DEF SideIsShaped
<1>8. CASE OpenSidecar
  <2>1. Went(r, "manifest", run.held, run.slot, run.row) /\ run.pc = "record"
    BY <1>2, <1>3, <1>8, Going DEF OpenSidecar, Go
  <2>2. s = [manifest |-> Torn, secret |-> k, author |-> a, auth |-> t]
    BY <1>3, <1>6, <1>8 DEF OpenSidecar
  <2>3. SideIsShaped(s)
    BY <1>7, <2>2
  <2>4. HoldsPublished(r)
    BY <1>2, <2>1 DEF HoldsPublished, Holding, Went
  <2>5. Signed /\ settled => SoFarExact(r, s, copy)
    BY <1>2, <2>1 DEF SoFarExact, Starting, Holding, Recorded, Copying, Fetching, Went
  <2>6. QED
    BY <1>1, <1>3, <1>4, <2>1, <2>3, <2>4, <2>5, OnlyGoes DEF Went
<1>9. CASE WriteManifest
  <2>1. Went(r, "secret", run.held, run.slot, run.row) /\ run.pc = "manifest"
    BY <1>2, <1>3, <1>9, Going DEF WriteManifest, Go
  <2>2. s = [manifest |-> run.held, secret |-> k, author |-> a, auth |-> t]
    BY <1>3, <1>6, <1>9 DEF WriteManifest
  <2>3. SideIsShaped(s) /\ s.manifest = run.held
    BY <1>7, <2>2
  <2>4. HoldsPublished(r)
    BY <1>2, <2>1 DEF HoldsPublished, Holding, Recorded, Went
  <2>5. Signed /\ settled => SoFarExact(r, s, copy)
    BY <1>2, <2>1, <2>3 DEF SoFarExact, Starting, Holding, Recorded, Copying, Fetching, Went
  <2>6. QED
    BY <1>1, <1>3, <1>4, <2>1, <2>3, <2>4, <2>5, OnlyGoes DEF Went
<1>10. CASE WriteSecret
  <2>1. Went(r, "author", run.held, run.slot, run.row) /\ run.pc = "secret"
    BY <1>2, <1>3, <1>10, Going DEF WriteSecret, Go
  <2>2. s = [manifest |-> m, secret |-> run.life, author |-> a, auth |-> t]
    BY <1>3, <1>6, <1>10 DEF WriteSecret
  <2>3. SideIsShaped(s) /\ s.manifest = side.manifest /\ s.secret = run.life
    BY <1>5, <1>7, <2>2
  <2>4. HoldsPublished(r)
    BY <1>2, <2>1 DEF HoldsPublished, Holding, Recorded, Went
  <2>5. Signed /\ settled => SoFarExact(r, s, copy)
    BY <1>2, <2>1, <2>3 DEF SoFarExact, Starting, Holding, Recorded, Copying, Fetching, Went
  <2>6. QED
    BY <1>1, <1>3, <1>4, <2>1, <2>3, <2>4, <2>5, OnlyGoes DEF Went
<1>11. CASE WriteAuthor
  <2>1. Went(r, "next", run.held, run.slot, run.row) /\ run.pc = "author"
    BY <1>2, <1>3, <1>11, Going DEF WriteAuthor, Go
  <2>2. s = [manifest |-> m, secret |-> k, author |-> IF Signed THEN run.life ELSE a,
             auth |-> IF run.protected THEN run.life ELSE t]
    BY <1>3, <1>6, <1>11 DEF WriteAuthor
  <2>3. /\ SideIsShaped(s) /\ s.manifest = side.manifest /\ s.secret = side.secret
        /\ Signed => s.author = run.life
        /\ run.protected => s.auth = run.life
    BY <1>5, <1>7, <2>2
  <2>4. HoldsPublished(r)
    BY <1>2, <2>1 DEF HoldsPublished, Holding, Recorded, Went
  <2>5. ASSUME Signed, settled  PROVE SoFarExact(r, s, copy)
    <3>1. run.slot = 0 /\ Published
      BY <1>2, <2>1, <2>5 DEF SoFarExact, Starting
    <3>2. Passed(r) = {}
      <4>1. SlotInv
        BY DEF CopyInv
      <4>2. \A i \in Listed(tree) : i \in Nat \ {0}
        BY <3>1, <4>1, RestingRows
      <4>3. QED
        BY <2>1, <3>1, <4>2 DEF Passed, Went
    <3>3. QED
      BY <1>2, <2>1, <2>3, <2>5, <3>2
         DEF SoFarExact, Starting, Holding, Recorded, Copying, Fetching, Went
  <2>6. QED
    BY <1>1, <1>3, <1>4, <2>1, <2>3, <2>4, <2>5, OnlyGoes DEF Went
<1>12. QED
  BY <1>8, <1>9, <1>10, <1>11

\* A set of numbers has a first one.
LEMMA FirstOf ==
    ASSUME NEW S, S \subseteq Nat, S # {}
    PROVE  LET n == CHOOSE i \in S : \A j \in S : i <= j
           IN  n \in S /\ \A j \in S : n <= j
<1>1. PICK n \in S : \A m \in S : ~ (<<m, n>> \in OpToRel(<, Nat))
  BY NatLessThanWellFounded, WFMin
<1>2. \A m \in S : ~ (m < n)
  BY <1>1 DEF OpToRel
<1>3. \A m \in S : n <= m
  BY <1>2
<1>4. QED
  BY <1>3

\* The next file is the next of the listed ones that was asked for: none is
\* passed over.
LEMMA NextFileKeeps == CopyInv /\ NextFile => CopyInv'
<1> SUFFICES ASSUME CopyInv, NextFile  PROVE CopyInv'
  OBVIOUS
<1> DEFINE left == {i \in Listed(run.held.manifest) : i > run.slot /\ Wanted(i)}
           n == CHOOSE i \in left : \A j \in left : i <= j
<1>1. RunStep
  BY DEF RunStep
<1>2. /\ SlotInv /\ RunIsShaped(run) /\ SideIsShaped(side) /\ FilesAreShaped(copy)
      /\ HoldsPublished(run)
      /\ Signed /\ settled => Published /\ SoFarExact(run, side, copy)
  BY <1>1, GoesOn
<1>3. /\ run.pc = "next" /\ side' = side /\ copy' = copy
      /\ \/ left = {} /\ run' = [run EXCEPT !.pc = "done"]
         \/ left # {} /\ run' = [run EXCEPT !.pc = "row", !.slot = n]
  BY DEF NextFile, Go
<1>4. PICK r : r = run'
  OBVIOUS
<1>5. ASSUME Signed, settled
      PROVE  /\ Published /\ SoFarExact(run, side, copy) /\ run.slot \in Nat
             /\ \A i \in Listed(tree) : i \in Nat \ {0}
             /\ left = {i \in Listed(tree) : i > run.slot /\ tree.files[i].path \in run.wanted}
             /\ \A i \in Listed(tree) : i <= run.slot => i \in Passed(run)
  <2>1. Published /\ SoFarExact(run, side, copy)
    BY <1>2, <1>5
  <2>2. run.held.manifest = tree
    BY <1>3, <2>1 DEF SoFarExact, Holding, Recorded, Copying, Envelope, Seal
  <2>3. left = {i \in Listed(tree) : i > run.slot /\ tree.files[i].path \in run.wanted}
    BY <2>2 DEF Wanted, PathAt
  <2>4. \A i \in Listed(tree) : i \in Nat \ {0}
    BY <1>2, <2>1, RestingRows
  <2>5. \A i \in Listed(tree) : i <= run.slot => i \in Passed(run)
    BY <1>3, <2>1, <2>4 DEF Passed, SoFarExact
  <2>6. QED
    BY <2>1, <2>3, <2>4, <2>5 DEF SoFarExact
<1> HIDE DEF left
<1>6. CASE left = {} /\ run' = [run EXCEPT !.pc = "done"]
  <2>1. Went(r, "done", run.held, run.slot, run.row)
    BY <1>2, <1>4, <1>6, Going
  <2>2. HoldsPublished(r)
    BY <1>2, <1>3, <2>1 DEF HoldsPublished, Holding, Recorded, Copying, Went
  <2>3. ASSUME Signed, settled  PROVE SoFarExact(r, side, copy)
    <3>1. \A i \in Passed(r) : tree.files[i].path \in r.wanted => i \in Passed(run)
      BY <1>2, <1>5, <1>6, <2>1, <2>3 DEF Passed, Went
    <3>2. QED
      BY <1>3, <1>5, <2>1, <2>3, <3>1
         DEF SoFarExact, Starting, Holding, Recorded, Copying, Fetching, Went
  <2>4. QED
    BY <1>1, <1>2, <1>3, <1>4, <2>1, <2>2, <2>3, OnlyGoes DEF Went
<1>7. CASE left # {} /\ run' = [run EXCEPT !.pc = "row", !.slot = n]
  <2>1. Went(r, "row", run.held, n, run.row)
    BY <1>2, <1>4, <1>7, Going
  <2>2. HoldsPublished(r)
    BY <1>2, <1>3, <2>1 DEF HoldsPublished, Holding, Recorded, Copying, Fetching, Went
  <2>3. ASSUME Signed, settled  PROVE SoFarExact(r, side, copy)
    <3>1. left \subseteq Nat
      BY <1>5, <2>3
    <3>2. n \in left /\ \A j \in left : n <= j
      BY <1>7, <3>1, FirstOf
    <3> HIDE DEF n
    <3>3. n \in Nat /\ n \in Listed(tree)
      BY <1>5, <2>3, <3>1, <3>2
    <3>4. \A i \in Passed(r) : tree.files[i].path \in r.wanted => i \in Passed(run)
      <4> SUFFICES ASSUME NEW i \in Passed(r), tree.files[i].path \in run.wanted
                   PROVE  i \in Passed(run)
        BY <2>1 DEF Went
      <4>1. i \in Listed(tree) /\ i < n
        BY <2>1 DEF Passed, Went
      <4>2. i \in Nat /\ i \notin left
        BY <1>5, <2>3, <3>2, <3>3, <4>1
      <4>3. i <= run.slot
        BY <1>5, <2>3, <4>1, <4>2
      <4>4. QED
        BY <1>5, <2>3, <4>1, <4>3
    <3>5. QED
      BY <1>3, <1>5, <2>1, <2>3, <3>3, <3>4
         DEF SoFarExact, Starting, Holding, Recorded, Copying, Fetching, Went
  <2>4. QED
    BY <1>1, <1>2, <1>3, <1>4, <2>1, <2>2, <2>3, OnlyGoes DEF Went
<1>8. QED
  BY <1>3, <1>6, <1>7

\* Fetching a file changes that file of the copy only, and while the producer
\* rests every answer is the one that is listed.
LEMMA FetchKeeps ==
    ASSUME CopyInv, AskRow \/ FetchBytes \/ OpenFile \/ WriteFile \/ Record
    PROVE  CopyInv'
<1>1. RunStep
  BY DEF RunStep
<1>2. /\ SlotInv /\ RunIsShaped(run) /\ SideIsShaped(side) /\ FilesAreShaped(copy)
      /\ HoldsPublished(run)
      /\ Signed /\ settled => Published /\ SoFarExact(run, side, copy)
  BY <1>1, GoesOn
<1>3. /\ run.pc \in Fetching /\ side' = side /\ SideIsShaped(side')
  BY <1>2 DEF AskRow, FetchBytes, OpenFile, WriteFile, Record, Fetching
<1>4. PICK r : r = run'
  OBVIOUS
<1>5. ASSUME Signed, settled
      PROVE  /\ Published /\ SoFarExact(run, side, copy)
             /\ run.slot \in Listed(tree) /\ run.slot \in Nat /\ Reachable
             /\ OriginRow(run.slot) = tree.files[run.slot].stamp
             /\ tree.files[run.slot].stamp # 0
             /\ tree.files[run.slot].path \in FilePaths
             /\ Path = tree.files[run.slot].path
             /\ \A i \in Passed(run) : i \in Listed(tree) /\ i \in Nat /\ i < run.slot
             /\ \A i \in Listed(tree) : i \in Nat
  <2>1. Published /\ SoFarExact(run, side, copy)
    BY <1>2, <1>5
  <2>2. run.slot \in Listed(tree) /\ run.slot \in Nat /\ run.life = life
    BY <1>3, <2>1 DEF SoFarExact, Fetching
  <2>3. run.held.manifest = tree
    BY <1>3, <2>1 DEF SoFarExact, Holding, Recorded, Copying, Envelope, Seal
  <2>4. /\ OriginRow(run.slot) = tree.files[run.slot].stamp
        /\ tree.files[run.slot].stamp # 0
        /\ tree.files[run.slot].path \in FilePaths
    BY <1>2, <2>1, <2>2, RestingRows
  <2>5. \A i \in Listed(tree) : i \in Nat
    BY <1>2, <2>1, RestingRows
  <2>6. \A i \in Passed(run) : i \in Listed(tree) /\ i < run.slot
    BY <1>3 DEF Passed, Fetching
  <2>7. QED
    BY <2>1, <2>2, <2>3, <2>4, <2>5, <2>6 DEF Path, PathAt, Reachable
<1>6. ASSUME NEW pc \in Fetching \cup {"next"}, NEW row, Went(r, pc, run.held, run.slot, row)
      PROVE  HoldsPublished(r)
  BY <1>2, <1>3, <1>6 DEF HoldsPublished, Holding, Recorded, Copying, Went
<1>7. CASE AskRow
  <2>1. /\ run.pc = "row" /\ copy' = copy
        /\ \/ OriginRow(run.slot) = 0 /\ Fail
           \/ run' = [run EXCEPT !.pc = "bytes", !.row = OriginRow(run.slot)]
    BY <1>7 DEF AskRow, Go
  <2>2. CASE OriginRow(run.slot) = 0 /\ Fail
    BY <1>1, <1>3, <1>5, <2>1, <2>2, FailKeeps
  <2>3. CASE run' = [run EXCEPT !.pc = "bytes", !.row = OriginRow(run.slot)]
    <3>1. Went(r, "bytes", run.held, run.slot, OriginRow(run.slot))
      BY <1>2, <1>4, <2>3, Going
    <3>2. ASSUME Signed, settled  PROVE SoFarExact(r, side, copy)
      <4>1. Passed(r) = Passed(run)
        BY <2>1, <3>1 DEF Passed, Went
      <4>2. QED
        BY <1>5, <2>1, <3>1, <3>2, <4>1
           DEF SoFarExact, Starting, Holding, Recorded, Copying, Fetching, Went
    <3>3. HoldsPublished(r)
      BY <1>6, <3>1 DEF Fetching
    <3>4. QED
      BY <1>1, <1>2, <1>3, <1>4, <2>1, <3>1, <3>2, <3>3, OnlyGoes DEF Went
  <2>4. QED
    BY <2>1, <2>2, <2>3
<1>8. CASE FetchBytes
  <2>1. /\ run.pc = "bytes" /\ copy' = copy
        /\ \/ OriginRow(run.slot) # run.row /\ Fail
           \/ run' = [run EXCEPT !.pc = "open"]
    BY <1>8 DEF FetchBytes, Go
  <2>2. Signed /\ settled => OriginRow(run.slot) = run.row
    BY <1>5, <2>1 DEF SoFarExact, Fetching
  <2>3. CASE OriginRow(run.slot) # run.row /\ Fail
    BY <1>1, <1>3, <2>1, <2>2, <2>3, FailKeeps
  <2>4. CASE run' = [run EXCEPT !.pc = "open"]
    <3>1. Went(r, "open", run.held, run.slot, run.row)
      BY <1>2, <1>4, <2>4, Going
    <3>2. ASSUME Signed, settled  PROVE SoFarExact(r, side, copy)
      <4>1. Passed(r) = Passed(run)
        BY <2>1, <3>1 DEF Passed, Went
      <4>2. QED
        BY <1>5, <2>1, <3>1, <3>2, <4>1
           DEF SoFarExact, Starting, Holding, Recorded, Copying, Fetching, Went
    <3>3. HoldsPublished(r)
      BY <1>6, <3>1 DEF Fetching
    <3>4. QED
      BY <1>1, <1>2, <1>3, <1>4, <2>1, <3>1, <3>2, <3>3, OnlyGoes DEF Went
  <2>5. QED
    BY <2>1, <2>3, <2>4
<1>9. ASSUME NEW c, NEW file, c = [copy EXCEPT ![Path] = file]
      PROVE  /\ FilesAreShaped(c)
             /\ Signed /\ settled =>
                   /\ c[tree.files[run.slot].path] = file
                   /\ \A i \in Passed(run) : HasWhole(copy, i) => HasWhole(c, i)
  <2>1. copy = [p \in FilePaths |-> copy[p]]
    BY <1>2 DEF FilesAreShaped
  <2>2. c = [p \in FilePaths |-> IF p = Path THEN file ELSE copy[p]]
    BY <1>9, <2>1
  <2>3. FilesAreShaped(c)
    BY <2>2 DEF FilesAreShaped
  <2>4. ASSUME Signed, settled
        PROVE  /\ c[tree.files[run.slot].path] = file
               /\ \A i \in Passed(run) : HasWhole(copy, i) => HasWhole(c, i)
    <3>1. c[tree.files[run.slot].path] = file
      BY <1>5, <2>2, <2>4
    <3>2. ASSUME NEW i \in Passed(run), HasWhole(copy, i)  PROVE HasWhole(c, i)
      <4>1. i # run.slot /\ i \in Listed(tree)
        BY <1>5, <2>4
      <4>2. tree.files[i].path # Path /\ tree.files[i].path \in FilePaths
        BY <1>2, <1>5, <2>4, <4>1, SlotsAreApart, RestingRows
      <4>3. c[tree.files[i].path] = copy[tree.files[i].path]
        BY <2>2, <4>2
      <4>4. QED
        BY <3>2, <4>3 DEF HasWhole
    <3>3. QED
      BY <3>1, <3>2
  <2>5. QED
    BY <2>3, <2>4
<1>10. CASE OpenFile
  <2>1. /\ run.pc = "open" /\ run' = [run EXCEPT !.pc = "write"]
        /\ \E file : copy' = [copy EXCEPT ![Path] = file]
    BY <1>10 DEF OpenFile, Go
  <2>2. PICK file, c : copy' = c /\ c = [copy EXCEPT ![Path] = file]
    BY <2>1
  <2>3. Went(r, "write", run.held, run.slot, run.row)
    BY <1>2, <1>4, <2>1, Going
  <2>4. ASSUME Signed, settled  PROVE SoFarExact(r, side, c)
    <3>1. Passed(r) = Passed(run)
      BY <2>1, <2>3 DEF Passed, Went
    <3>2. \A i \in Passed(run) : HasWhole(copy, i) => HasWhole(c, i)
      BY <1>9, <2>2, <2>4
    <3>3. QED
      BY <1>5, <2>1, <2>3, <2>4, <3>1, <3>2
         DEF SoFarExact, Starting, Holding, Recorded, Copying, Fetching, Went
  <2>5. HoldsPublished(r)
    BY <1>6, <2>3 DEF Fetching
  <2>6. FilesAreShaped(c)
    BY <1>9, <2>2
  <2>7. QED
    BY <1>1, <1>3, <1>4, <2>2, <2>3, <2>4, <2>5, <2>6, OnlyGoes DEF Went
<1>11. CASE WriteFile
  <2> DEFINE file == [stamp |-> run.row, size |-> SizeOf[run.row]]
  <2>1. /\ run.pc = "write" /\ run' = [run EXCEPT !.pc = "check"]
        /\ copy' = [copy EXCEPT ![Path] = file]
    BY <1>11 DEF WriteFile, Go
  <2>2. PICK c : copy' = c /\ c = [copy EXCEPT ![Path] = file]
    BY <2>1
  <2>3. Went(r, "check", run.held, run.slot, run.row)
    BY <1>2, <1>4, <2>1, Going
  <2>4. ASSUME Signed, settled  PROVE SoFarExact(r, side, c)
    <3>1. Passed(r) = Passed(run)
      BY <2>1, <2>3 DEF Passed, Went
    <3>2. /\ \A i \in Passed(run) : HasWhole(copy, i) => HasWhole(c, i)
          /\ c[tree.files[run.slot].path] = file
      <4> HIDE DEF file
      <4>1. QED
        BY <1>9, <2>2, <2>4
    <3>3. HasWhole(c, run.slot)
      <4>1. run.row = tree.files[run.slot].stamp
        BY <1>5, <2>1, <2>4 DEF SoFarExact, Fetching
      <4>2. QED
        BY <3>2, <4>1 DEF HasWhole
    <3>4. QED
      BY <1>5, <2>1, <2>3, <2>4, <3>1, <3>2, <3>3
         DEF SoFarExact, Starting, Holding, Recorded, Copying, Fetching, Went
  <2>5. HoldsPublished(r)
    BY <1>6, <2>3 DEF Fetching
  <2>6. FilesAreShaped(c)
    BY <1>9, <2>2
  <2>7. QED
    BY <1>1, <1>3, <1>4, <2>2, <2>3, <2>4, <2>5, <2>6, OnlyGoes DEF Went
<1>12. CASE Record
  <2>1. /\ run.pc = "check" /\ copy' = copy
        /\ \/ ~ (Reachable /\ OriginRow(run.slot) \in {0, run.row}) /\ Fail
           \/ run' = [run EXCEPT !.pc = "next"]
    BY <1>12 DEF Record, Go
  <2>2. Signed /\ settled => Reachable /\ OriginRow(run.slot) = run.row
    BY <1>5, <2>1 DEF SoFarExact, Fetching
  <2>3. CASE ~ (Reachable /\ OriginRow(run.slot) \in {0, run.row}) /\ Fail
    BY <1>1, <1>3, <2>1, <2>2, <2>3, FailKeeps
  <2>4. CASE run' = [run EXCEPT !.pc = "next"]
    <3>1. Went(r, "next", run.held, run.slot, run.row)
      BY <1>2, <1>4, <2>4, Going
    <3>2. ASSUME Signed, settled  PROVE SoFarExact(r, side, copy)
      <4>1. \A i \in Passed(r) : i \in Passed(run) \/ i = run.slot
        BY <2>1, <3>1 DEF Passed, Went
      <4>2. HasWhole(copy, run.slot) /\ SoFarExact(run, side, copy)
        BY <1>5, <2>1, <3>2 DEF SoFarExact
      <4>3. \A i \in Passed(r) : tree.files[i].path \in r.wanted => HasWhole(copy, i)
        <5>1. \A i \in Passed(run) : tree.files[i].path \in run.wanted => HasWhole(copy, i)
          BY <2>1, <4>2 DEF SoFarExact, Copying, Fetching
        <5>2. r.wanted = run.wanted
          BY <3>1 DEF Went
        <5>3. QED
          BY <4>1, <4>2, <5>1, <5>2
      <4>4. QED
        BY <2>1, <3>1, <4>2, <4>3
           DEF SoFarExact, Starting, Holding, Recorded, Copying, Fetching, Went
    <3>3. HoldsPublished(r)
      BY <1>6, <3>1
    <3>4. QED
      BY <1>1, <1>2, <1>3, <1>4, <2>1, <3>1, <3>2, <3>3, OnlyGoes DEF Went
  <2>5. QED
    BY <2>1, <2>3, <2>4
<1>13. QED
  BY <1>7, <1>8, <1>10, <1>11, <1>12

-----------------------------------------------------------------------------

\* A run begins with nothing of its own, and a killed one leaves nothing.
LEMMA BeginKeeps ==
    ASSUME CopyInv, Crash \/ \E wanted \in Selections : Begin(wanted)
    PROVE  CopyInv'
<1>1. UNCHANGED <<vars, life, protected, side, copy>>
  BY DEF Crash, Begin, lifeVars
<1>2. SlotInv'
  BY <1>1, SlotStep DEF CopyInv
<1>3. UNCHANGED <<tree, index_of, version, log, disk, sent, frames>>
  BY <1>1 DEF vars
<1>4. TreeIsBounded'
  BY <1>3 DEF CopyInv, TreeIsBounded
<1>5. SideIsShaped(side') /\ FilesAreShaped(copy')
  BY <1>1 DEF CopyInv
<1>6. PICK r, s, c : r = run' /\ s = side' /\ c = copy'
  OBVIOUS
<1>7. life \in Nat /\ Published' = Published
  BY <1>3 DEF CopyInv, Published
<1>8. ASSUME RunIsShaped(r)', HoldsPublished(r)',
             Signed /\ settled' => Published' /\ SoFarExact(r, s, c)'
      PROVE  CopyInv'
  BY <1>1, <1>2, <1>4, <1>5, <1>6, <1>8 DEF CopyInv
<1>9. CASE Crash
  <2>1. r = NotRunning /\ settled' = settled
    BY <1>6, <1>9 DEF Crash, Go
  <2>2. r.pc = "idle" /\ r.life = 0 /\ r.slot = 0 /\ RunIsShaped(r)
    BY <1>7, <2>1 DEF NotRunning, RunIsShaped
  <2>3. RunIsShaped(r)' /\ HoldsPublished(r)'
    BY <1>1, <2>2 DEF RunIsShaped, HoldsPublished, Holding, Recorded, Copying, Fetching
  <2>4. SoFarExact(r, s, c)'
    BY <2>2 DEF SoFarExact, Starting, Holding, Recorded, Copying, Fetching
  <2>5. Signed /\ settled' => Published'
    BY <1>7, <2>1 DEF CopyInv
  <2>6. QED
    BY <1>8, <2>3, <2>4, <2>5
<1>10. ASSUME NEW wanted \in Selections, Begin(wanted)
       PROVE  CopyInv'
  <2>1. PICK x, h : /\ x = IF side.manifest.version > 0 THEN "since" ELSE "whole"
                    /\ h = IF side.manifest.version > 0 THEN side.manifest ELSE NoEnvelope
    OBVIOUS
  <2>2. /\ r = [NotRunning EXCEPT !.pc = x, !.life = life, !.protected = protected,
                                  !.wanted = wanted, !.held = h]
        /\ settled' = Published
    BY <1>6, <1>10, <2>1 DEF Begin, Go
  <2>3. r = [pc |-> x, life |-> life, protected |-> protected, wanted |-> wanted,
             held |-> h, slot |-> 0, row |-> 0]
    BY <2>2 DEF NotRunning
  <2>4. /\ r.pc \in {"since", "whole"} /\ r.life = life /\ r.protected = protected
        /\ r.slot = 0
    BY <2>1, <2>3
  <2>5. RunIsShaped(r)
    <3>1. r = [pc |-> r.pc, life |-> r.life, protected |-> r.protected,
               wanted |-> r.wanted, held |-> r.held, slot |-> r.slot, row |-> r.row]
      BY <2>3
    <3>2. r.life \in Nat /\ r.life <= life
      BY <1>7, <2>4
    <3>3. QED
      BY <3>1, <3>2, Zenon DEF RunIsShaped
  <2>6. RunIsShaped(r)' /\ HoldsPublished(r)'
    BY <1>1, <2>4, <2>5 DEF RunIsShaped, HoldsPublished, Holding, Recorded, Copying, Fetching
  <2>7. SoFarExact(r, s, c)'
    BY <1>1, <2>4 DEF SoFarExact, Starting, Holding, Recorded, Copying, Fetching
  <2>8. QED
    BY <1>7, <1>8, <2>2, <2>6, <2>7
<1>11. QED
  BY <1>9, <1>10

\* What the producer does while a run is under way: what it published stays, and
\* the run is only spoken of while nothing else changed.
LEMMA OriginKeeps == CopyInv /\ OriginStep => CopyInv'
<1> SUFFICES ASSUME CopyInv, OriginStep  PROVE CopyInv'
  OBVIOUS
<1>1. /\ Next /\ settled' = (settled /\ UNCHANGED <<diskVars, treeVars>>)
      /\ UNCHANGED <<life, protected, side, copy, run>>
  BY Zenon DEF OriginStep, lifeVars
<1>2. SlotInv /\ SlotInv' /\ TypeOK /\ TypeOK'
  BY <1>1, SlotStep DEF CopyInv, SlotInv
<1>3. TreeIsBounded'
  BY <1>1, <1>2, BoundedStep DEF CopyInv
<1>4. PICK r, s, c : r = run /\ s = side /\ c = copy
  OBVIOUS
<1>5. /\ RunIsShaped(r) /\ SideIsShaped(s) /\ FilesAreShaped(c) /\ HoldsPublished(r)
      /\ Signed /\ settled => Published /\ SoFarExact(r, s, c)
  BY <1>4 DEF CopyInv
<1>6. RunIsShaped(r)' /\ SideIsShaped(s)' /\ FilesAreShaped(c)'
  BY <1>1, <1>5 DEF RunIsShaped, SideIsShaped, FilesAreShaped
<1>7. /\ version \in Nat \ {0} /\ version' \in Nat \ {0} /\ version <= version'
      /\ \A v \in 1..version : log'[v] = log[v]
      /\ sent' = sent \/ sent' = Len(frames')
      /\ \/ version' = version /\ frames' = frames
         \/ version' = version + 1
  BY <1>1, <1>2, LogGrows
<1>8. HoldsPublished(r)'
  <2> SUFFICES ASSUME Signed, r.pc \in Holding, r.life = life
               PROVE  r.held.version \in 1..version' /\ r.held.manifest = log'[r.held.version]
    BY <1>1 DEF HoldsPublished
  <2>1. r.held.version \in 1..version /\ r.held.manifest = log[r.held.version]
    BY <1>5 DEF HoldsPublished
  <2>2. QED
    BY <1>7, <2>1
<1>9. ASSUME Signed, settled'  PROVE Published' /\ SoFarExact(r, s, c)'
  <2>1. settled /\ UNCHANGED <<tree, version, disk>>
    BY <1>1, <1>9 DEF diskVars, treeVars
  <2>2. Published /\ SoFarExact(r, s, c)
    BY <1>5, <1>9, <2>1
  <2>3. frames' = frames
    BY <1>7, <2>1
  <2>4. sent' = Len(frames')
    BY <1>7, <2>2, <2>3 DEF Published
  <2>5. Published'
    BY <2>1, <2>2, <2>4 DEF Published
  <2>6. Envelope' = Envelope /\ Passed(r)' = Passed(r)
    BY <2>1 DEF Envelope, Passed
  <2>7. \A i : HasWhole(c, i)' <=> HasWhole(c, i)
    BY <2>1 DEF HasWhole
  <2>8. QED
    BY <1>1, <2>1, <2>2, <2>5, <2>6, <2>7 DEF SoFarExact
<1>10. QED
  BY <1>1, <1>3, <1>2, <1>4, <1>6, <1>8, <1>9 DEF CopyInv

\* A restart is another life: what a run of an earlier one holds is not asked of
\* it.
LEMMA RestartKeeps == CopyInv /\ Restart => CopyInv'
<1> SUFFICES ASSUME CopyInv, Restart  PROVE CopyInv'
  OBVIOUS
<1>1. /\ life' = life + 1 /\ settled' = FALSE /\ UNCHANGED <<side, copy, run>>
      /\ protected' \in IF PasswordMayChange THEN BOOLEAN ELSE {protected}
  BY Zenon DEF Restart
<1>2. Fresh'
  BY RestartIsFresh DEF CopyInv, SlotInv
<1>3. SlotInv' /\ TreeIsBounded'
  BY <1>2, FreshSlotsNext
<1>4. life \in Nat /\ (~PasswordMayChange => protected = TRUE)
  BY DEF CopyInv
<1>5. PICK r, s, c : r = run /\ s = side /\ c = copy
  OBVIOUS
<1>6. RunIsShaped(r) /\ SideIsShaped(s) /\ FilesAreShaped(c)
  BY <1>5 DEF CopyInv
<1>7. r.life \in Nat /\ r.life <= life
  BY <1>6, Zenon DEF RunIsShaped
<1>8. r.life <= life' /\ r.life # life' /\ life' \in Nat
  BY <1>1, <1>4, <1>7
<1>9. RunIsShaped(r)'
  BY <1>6, <1>8, Zenon DEF RunIsShaped
<1>10. SideIsShaped(s)' /\ FilesAreShaped(c)'
  BY <1>6 DEF SideIsShaped, FilesAreShaped
<1>11. HoldsPublished(r)'
  BY <1>8 DEF HoldsPublished
<1>12. ~PasswordMayChange => protected' = TRUE
  BY <1>1, <1>4
<1>13. QED
  BY <1>1, <1>3, <1>5, <1>8, <1>9, <1>10, <1>11, <1>12 DEF CopyInv

\* Before the first run nothing has been copied.
LEMMA CopyStart == MirrorInit => CopyInv
<1> SUFFICES ASSUME MirrorInit  PROVE CopyInv
  OBVIOUS
<1>1. Fresh
  BY InitIsFresh DEF MirrorInit
<1>2. SlotInv /\ TreeIsBounded
  BY <1>1, FreshSlots, FreshIsBounded
<1>3. /\ life = 1 /\ protected = TRUE /\ settled = FALSE /\ run = NotRunning
      /\ side = [manifest |-> NoEnvelope, secret |-> 0, author |-> 0, auth |-> 0]
      /\ copy = [p \in FilePaths |-> NoFile]
  BY Zenon DEF MirrorInit
<1>4. RunIsShaped(run) /\ HoldsPublished(run)
  BY <1>3 DEF RunIsShaped, HoldsPublished, NotRunning, Holding, Recorded, Copying, Fetching
<1>5. SideIsShaped(side) /\ FilesAreShaped(copy)
  BY <1>3 DEF SideIsShaped, FilesAreShaped
<1>6. QED
  BY <1>2, <1>3, <1>4, <1>5 DEF CopyInv

\* Every step of the producer and of a run keeps the invariant.
LEMMA CopyStep == CopyInv /\ [MirrorNext]_copyingVars => CopyInv'
<1> SUFFICES ASSUME CopyInv, [MirrorNext]_copyingVars  PROVE CopyInv'
  OBVIOUS
<1>1. CASE RunStep
  BY <1>1, SinceKeeps, WholeKeeps, SidecarKeeps, NextFileKeeps, FetchKeeps DEF RunStep
<1>2. CASE OriginStep
  BY <1>2, OriginKeeps
<1>3. CASE Restart
  BY <1>3, RestartKeeps
<1>4. CASE Crash \/ \E wanted \in Selections : Begin(wanted)
  BY <1>4, BeginKeeps
<1>5. CASE UNCHANGED copyingVars
  <2>1. UNCHANGED <<vars, life, protected, side, copy, run, settled>>
    BY <1>5 DEF copyingVars, lifeVars, mirrorVars
  <2>2. PICK r, s, c : r = run /\ s = side /\ c = copy
    OBVIOUS
  <2>3. /\ RunIsShaped(r) /\ SideIsShaped(s) /\ FilesAreShaped(c) /\ HoldsPublished(r)
        /\ Signed /\ settled => SoFarExact(r, s, c)
    BY <2>2 DEF CopyInv
  <2>4. run' = r /\ side' = s /\ copy' = c
    BY <2>1, <2>2
  <2>5. QED
    BY <2>1, <2>3, <2>4, RunKeeps
<1>6. QED
  BY <1>1, <1>2, <1>3, <1>4, <1>5 DEF MirrorNext

\* The inductive invariant of mirroring holds throughout.
THEOREM CopyInvariant == MirrorSpec => []CopyInv
<1>1. QED
  BY CopyStart, CopyStep, PTL DEF MirrorSpec

\* A run goes on with a manifest its share published, whatever an earlier share
\* left in the sidecar: the signature is what tells them apart.
THEOREM RunsHoldWhatWasPublished == Signed => (MirrorSpec => []RunsHoldAPublishedManifest)
<1> SUFFICES ASSUME Signed  PROVE MirrorSpec => []RunsHoldAPublishedManifest
  OBVIOUS
<1>1. CopyInv => RunsHoldAPublishedManifest
  <2> SUFFICES ASSUME CopyInv, run.pc = "record", run.life = life
               PROVE  /\ run.held.version \in DOMAIN log
                      /\ run.held.manifest = log[run.held.version]
    BY DEF RunsHoldAPublishedManifest
  <2>1. run.held.version \in 1..version /\ run.held.manifest = log[run.held.version]
    BY DEF CopyInv, HoldsPublished, Holding
  <2>2. DOMAIN log = 1..version
    BY LoggedTrees DEF CopyInv, SlotInv
  <2>3. QED
    BY <2>1, <2>2
<1>2. QED
  BY <1>1, CopyInvariant, PTL

\* Of a signed share that keeps its password and whose paths fit a manifest: what
\* a run goes on with was published, a run that ends well with the producer at
\* rest leaves an exact copy that can be served, and none fails.
THEOREM CopiesStayExact ==
    Signed /\ ~PasswordMayChange /\ PathsFit => (MirrorSpec => []CopiesAreExact)
<1> SUFFICES ASSUME Signed, ~PasswordMayChange, PathsFit  PROVE MirrorSpec => []CopiesAreExact
  OBVIOUS
<1>1. CopyInv => RestingSharesAreMirrored
  BY DEF CopyInv, SoFarExact, RestingSharesAreMirrored
<1>2. CopyInv => CompletedCopiesAreExact
  <2> SUFFICES ASSUME CopyInv, run.pc = "done", settled
               PROVE  /\ side.manifest = Envelope
                      /\ side.secret = life
                      /\ side.author = (IF Signed THEN life ELSE 0)
                      /\ side.auth = (IF protected THEN life ELSE 0)
                      /\ \A i \in Listed(tree) : PathAt(tree, i) \in run.wanted =>
                             Exact(tree, i) /\ i \in CopyServes
    BY DEF CompletedCopiesAreExact
  <2>1. SoFarExact(run, side, copy) /\ protected
    BY DEF CopyInv
  <2>2. /\ side.manifest = Envelope /\ side.secret = life
        /\ side.author = life /\ (protected => side.auth = life)
        /\ \A i \in Passed(run) : tree.files[i].path \in run.wanted => HasWhole(copy, i)
    BY <2>1 DEF SoFarExact, Recorded, Copying
  <2>3. Passed(run) = Listed(tree)
    BY DEF Passed
  <2>4. side.manifest.manifest = tree
    BY <2>2 DEF Envelope, Seal
  <2>5. ASSUME NEW i \in Listed(tree), PathAt(tree, i) \in run.wanted
        PROVE  Exact(tree, i) /\ i \in CopyServes
    <3>1. HasWhole(copy, i)
      BY <2>2, <2>3, <2>5 DEF PathAt
    <3>2. Exact(tree, i)
      BY <3>1 DEF HasWhole, Exact, PathAt
    <3>3. copy[PathAt(tree, i)].size = SizeOf[tree.files[i].stamp]
      BY <3>2 DEF Exact
    <3>4. QED
      BY <2>4, <3>2, <3>3 DEF CopyServes
  <2>6. QED
    BY <2>1, <2>2, <2>5
<1>3. MirrorSpec => []RunsHoldAPublishedManifest
  BY RunsHoldWhatWasPublished
<1>4. RunsHoldAPublishedManifest /\ CompletedCopiesAreExact /\ RestingSharesAreMirrored
         => CopiesAreExact
  BY DEF CopiesAreExact
<1>5. QED
  BY <1>1, <1>2, <1>3, <1>4, CopyInvariant, PTL
==============================================================================
