--------------------------- MODULE WebProducerProofs ---------------------------
(***************************************************************************)
(* Theorems of WebProducer, for any folder, contents, requests in flight   *)
(* and watchers.                                                           *)
(***************************************************************************)
EXTENDS WebProducer, TLAPS, FiniteSetTheorems, SequenceTheorems, WellFoundedInduction

Files == [content : DOMAIN Chunks, mtime : Nat]
Entries == [path : Nat, size : Nat, mtime : Nat]
Finds == {f \in [entry : Entries, file : Files] :
             f.entry.path \in Paths /\ f.entry = Entry(f.entry.path, f.file)}
Trees == [files : Seq(Entries), slots : Seq(Files \cup {Absent}),
          index_of : Seq(Paths), version : Nat \ {0}]

\* A slot was never anything but its path: retired, or what was found there.
SlotIsSound(t, i) ==
    \/ t.files[i] = Tombstone /\ t.slots[i] = Absent
    \/ t.slots[i] \in Files /\ t.files[i] = Entry(t.index_of[i], t.slots[i])

TreeIsSound(t) ==
    /\ t \in Trees /\ Len(t.slots) = Len(t.files) /\ Len(t.index_of) = Len(t.files)
    /\ \A i \in 1..Len(t.files) : SlotIsSound(t, i)
    /\ \A i, j \in 1..Len(t.files) : t.index_of[i] = t.index_of[j] => i = j

\* The slots of t keep their paths in u.
Keeps(t, u) ==
    /\ Len(t.files) <= Len(u.files)
    /\ \A i \in 1..Len(t.files) : u.index_of[i] = t.index_of[i]

\* An envelope e was a state of the tree t, or of one before it.
Precedes(e, t) ==
    /\ e.version \in Nat /\ e.version <= t.version /\ Len(e.files) \in Nat
    /\ e.version = t.version => e = Envelope(t)
    /\ DOMAIN e.files \subseteq 1..Len(t.files)
    /\ \A i \in DOMAIN e.files : e.files[i].path \in {0, t.index_of[i]}

SealsAreSound ==
    /\ TreeIsSound(tree) /\ envelope = Envelope(tree) /\ envelope \in sealed
    /\ \A e \in sealed : Precedes(e, tree)
    /\ OneTreePerVersion
    /\ feeds \in [Watchers -> {NoFrame, envelope}]

RowsAreSound == TableIsCoherent /\ DOMAIN rows \subseteq 1..Len(tree.files)

\* Which phases a request goes through, and whose slot it is at.
TaskIsSound(r) ==
    /\ DOMAIN r = DOMAIN NoTask /\ r.built \in Seq(Nat)
    /\ r.phase \in {"reading", "rereading"} => r.op = "read"
    /\ r.phase \in {"sizing", "building"} =>
           r.op \in {"map", "have"} /\ r.index \in 1..Len(tree.files) /\ r.path \in Paths
    /\ r.phase = "fetching" => r.op = "chunk"
    /\ r.op = "chunk" /\ r.phase = "done" => r.answer \in {<< >>, <<r.address>>}

TasksAreSound == DOMAIN task = Tasks /\ \A t \in Tasks : TaskIsSound(task[t])

DiskIsSound == disk \in [Paths -> {Absent} \cup Files]

\* What is on disk at p, as a scan finds it.
Find(p) == [entry |-> Entry(p, disk[p]), file |-> disk[p]]

\* What a scan has found, the file it is opening included.
Seen(s) == ToSet(s.found) \cup (IF s.phase = "opening" THEN {Find(s.at)} ELSE {})

\* A scan of a folder that held still has seen all it has passed.
ScanIsSound ==
    /\ DOMAIN scan = DOMAIN Resting
    /\ scan.phase \in {"sleeping", "walking", "opening"}
    /\ scan.left \subseteq Paths /\ scan.found \in Seq(Finds)
    /\ scan.phase # "sleeping" /\ scan.quiet =>
           Seen(scan) = {Find(p) : p \in OnDisk(disk) \ scan.left}

\* The invariant of the theorems.
ProducerInv ==
    /\ DiskIsSound /\ ScanIsSound /\ SealsAreSound /\ RowsAreSound /\ TasksAreSound

-----------------------------------------------------------------------------
(* Numbers, and entries.                                                    *)

(* The least of some numbers is one of them and at most each. *)
LEMMA LeastNumber ==
    ASSUME NEW numbers, numbers \subseteq Nat, numbers # {}
    PROVE  Min(numbers) \in numbers /\ \A n \in numbers : Min(numbers) <= n
<1>1. PICK n \in numbers : \A m \in numbers : ~ (<<m, n>> \in OpToRel(<, Nat))
  <2>1. numbers \subseteq Nat
    OBVIOUS
  <2>2. QED
    BY <2>1, NatLessThanWellFounded, WFMin
<1>2. \E k \in numbers : \A m \in numbers : k <= m
  <2>1. \A m \in numbers : ~ (m < n)
    BY <1>1 DEF OpToRel
  <2>2. QED
    BY <2>1
<1>3. QED
  BY <1>2 DEF Min

\* A set of numbers that holds 0 and with each number the next holds them all.
LEMMA SetInduction ==
    ASSUME NEW S, 0 \in S, \A n \in Nat : n \in S => n + 1 \in S
    PROVE  Nat \subseteq S
<1> DEFINE rest == Nat \ S
<1> SUFFICES ASSUME rest # {}  PROVE FALSE
  OBVIOUS
<1>1. PICK n \in rest : \A m \in rest : n <= m
  <2>1. rest \subseteq Nat
    OBVIOUS
  <2> HIDE DEF rest
  <2>2. QED
    BY <2>1, LeastNumber
<1>3. n \in Nat /\ n # 0 /\ n - 1 \in Nat /\ ~ (n <= n - 1) /\ n = (n - 1) + 1
  OBVIOUS
<1>4. n - 1 \in S
  BY <1>1, <1>3
<1>5. QED
  BY <1>3, <1>4

\* The entry of a file says where it is, and is no tombstone.
LEMMA EntryIs ==
    ASSUME NEW p \in Paths, NEW file \in Files
    PROVE  /\ Entry(p, file) \in Entries /\ Entry(p, file).path = p /\ p \in Nat \ {0}
           /\ Entry(p, file) # Tombstone /\ file # Absent
<1>1. p \in Nat \ {0} /\ file.content \in DOMAIN Chunks /\ file.mtime \in Nat /\ file.content # 0
  BY WebProducerAssumption DEF WebProducerAssumption, Files
<1>2. Len(Chunks[file.content]) \in Nat
  BY <1>1, WebProducerAssumption, LenProperties DEF WebProducerAssumption
<1>3. QED
  BY <1>1, <1>2 DEF Entry, Entries, Tombstone, Absent

(* A tombstone is an entry, and an absent file is not a file. *)
LEMMA Tombs == Tombstone \in Entries /\ Absent \notin Files
  BY WebProducerAssumption DEF WebProducerAssumption, Tombstone, Entries, Absent, Files

\* A sound tree, taken apart.
LEMMA TreeIs ==
    ASSUME NEW t, TreeIsSound(t)
    PROVE  /\ t \in Trees /\ Len(t.files) \in Nat /\ t.version \in Nat \ {0}
           /\ t.files \in Seq(Entries) /\ t.slots \in Seq(Files \cup {Absent})
           /\ t.index_of \in Seq(Paths)
           /\ DOMAIN t.files = 1..Len(t.files) /\ DOMAIN t.slots = 1..Len(t.files)
           /\ DOMAIN t.index_of = 1..Len(t.files)
           /\ \A i \in 1..Len(t.files) :
                 t.files[i] \in Entries /\ t.slots[i] \in Files \cup {Absent} /\ t.index_of[i] \in Paths
<1>1. t \in Trees /\ Len(t.slots) = Len(t.files) /\ Len(t.index_of) = Len(t.files)
  BY DEF TreeIsSound
<1>2. /\ t.files \in Seq(Entries) /\ t.slots \in Seq(Files \cup {Absent})
      /\ t.index_of \in Seq(Paths) /\ t.version \in Nat \ {0}
  BY <1>1 DEF Trees
<1>3. QED
  BY <1>1, <1>2, LenProperties, ElementOfSeq

\* A slot's listed path is its own.
LEMMA ListedPaths ==
    ASSUME NEW t, TreeIsSound(t), NEW i \in 1..Len(t.files)
    PROVE  /\ t.files[i].path \in {0, t.index_of[i]}
           /\ t.files[i] # Tombstone => t.files[i].path = t.index_of[i]
           /\ t.files[i] = Tombstone <=> t.slots[i] = Absent
<1>1. t.index_of[i] \in Paths /\ SlotIsSound(t, i)
  BY TreeIs DEF TreeIsSound
<1>2. QED
  BY <1>1, EntryIs DEF SlotIsSound, Tombstone

-----------------------------------------------------------------------------
(* Applying a listing.                                                      *)

(* The slot of a path is 0 when it never had one, and else the slot recorded for it. *)
LEMMA SlotOfIs ==
    ASSUME NEW t, TreeIsSound(t), NEW p
    PROVE  \/ SlotOf(t, p) = 0 /\ \A i \in 1..Len(t.files) : t.index_of[i] # p
           \/ SlotOf(t, p) \in 1..Len(t.files) /\ t.index_of[SlotOf(t, p)] = p
<1>1. SlotsOf(t, p) = {i \in 1..Len(t.files) : t.index_of[i] = p}
  BY TreeIs DEF SlotsOf
<1>2. CASE SlotsOf(t, p) = {}
  BY <1>1, <1>2 DEF SlotOf
<1>3. CASE SlotsOf(t, p) # {}
  <2>1. SlotOf(t, p) \in SlotsOf(t, p)
    BY <1>3 DEF SlotOf
  <2>2. QED
    BY <1>1, <2>1
<1>4. QED
  BY <1>2, <1>3

\* The tree u is t with one found file in it.
Takes(t, u, found) ==
    /\ TreeIsSound(u) /\ u.version = t.version /\ Keeps(t, u)
    /\ \E i \in 1..Len(u.files) : u.index_of[i] = found.entry.path
    /\ \A i \in 1..Len(u.files) :
          \/ u.index_of[i] = found.entry.path /\ u.files[i] = found.entry
          \/ u.index_of[i] # found.entry.path /\ i <= Len(t.files) /\ u.files[i] = t.files[i]

(* Folding one find into a tree takes it in, and nothing else. *)
LEMMA FoldIs ==
    ASSUME NEW t, TreeIsSound(t), NEW found \in Finds
    PROVE  Takes(t, Fold(t, found), found)
<1> DEFINE p == found.entry.path
           n == Len(t.files)
<1>1. /\ p \in Paths /\ found.file \in Files /\ found.entry = Entry(p, found.file)
      /\ found.entry \in Entries
  BY DEF Finds
<1>2. /\ t \in Trees /\ n \in Nat /\ t.files \in Seq(Entries)
      /\ t.slots \in Seq(Files \cup {Absent}) /\ t.index_of \in Seq(Paths)
      /\ Len(t.slots) = n /\ Len(t.index_of) = n
      /\ DOMAIN t.files = 1..n /\ DOMAIN t.slots = 1..n /\ DOMAIN t.index_of = 1..n
  BY TreeIs DEF TreeIsSound
<1>3. CASE SlotOf(t, p) = 0
  <2>1. PICK f : f = Append(t.files, found.entry)
    OBVIOUS
  <2>2. PICK s : s = Append(t.slots, found.file)
    OBVIOUS
  <2>3. PICK x : x = Append(t.index_of, p)
    OBVIOUS
  <2>4. /\ f \in Seq(Entries) /\ Len(f) = n + 1 /\ f[n + 1] = found.entry
        /\ \A i \in 1..n : f[i] = t.files[i]
    BY <1>1, <1>2, <2>1, AppendProperties
  <2>5. /\ s \in Seq(Files \cup {Absent}) /\ Len(s) = n + 1 /\ s[n + 1] = found.file
        /\ \A i \in 1..n : s[i] = t.slots[i]
    BY <1>1, <1>2, <2>2, AppendProperties
  <2>6. /\ x \in Seq(Paths) /\ Len(x) = n + 1 /\ x[n + 1] = p
        /\ \A i \in 1..n : x[i] = t.index_of[i]
    BY <1>1, <1>2, <2>3, AppendProperties
  <2>7. PICK u : u = Fold(t, found)
    OBVIOUS
  <2>8. u.files = f /\ u.slots = s /\ u.index_of = x /\ u.version = t.version /\ u \in Trees
    <3>1. u = [t EXCEPT !.files = f, !.slots = s, !.index_of = x]
      BY <1>3, <2>1, <2>2, <2>3, <2>7 DEF Fold
    <3>2. QED
      BY <1>2, <2>4, <2>5, <2>6, <3>1 DEF Trees
  <2>9. \A i \in 1..n : t.index_of[i] # p
    BY <1>1, <1>3, SlotOfIs
  <2>10. \A i \in 1..n + 1 : i = n + 1 \/ i \in 1..n
    BY <1>2
  <2>11. \A i \in 1..n + 1 : SlotIsSound(u, i)
    <3> TAKE i \in 1..n + 1
    <3>1. CASE i = n + 1
      BY <1>1, <2>4, <2>5, <2>6, <2>8, <3>1 DEF SlotIsSound
    <3>2. CASE i \in 1..n
      <4>1. SlotIsSound(t, i)
        BY <3>2 DEF TreeIsSound
      <4>2. QED
        BY <2>4, <2>5, <2>6, <2>8, <3>2, <4>1 DEF SlotIsSound
    <3>3. QED
      BY <2>10, <3>1, <3>2
  <2>12. \A i, j \in 1..n + 1 : x[i] = x[j] => i = j
    <3>1. \A i, j \in 1..n : t.index_of[i] = t.index_of[j] => i = j
      BY DEF TreeIsSound
    <3>2. QED
      BY <2>6, <2>9, <2>10, <3>1
  <2>13. TreeIsSound(u)
    BY <2>4, <2>5, <2>6, <2>8, <2>11, <2>12 DEF TreeIsSound
  <2>14. n + 1 \in 1..n + 1 /\ n <= n + 1 /\ (\A i \in 1..n : i \in 1..n + 1 /\ i <= n)
    BY <1>2
  <2>15. Keeps(t, u)
    BY <2>4, <2>6, <2>8, <2>14 DEF Keeps
  <2>16. \A i \in 1..n + 1 : \/ x[i] = p /\ f[i] = found.entry
                             \/ x[i] # p /\ i <= n /\ f[i] = t.files[i]
    BY <2>4, <2>6, <2>9, <2>10, <2>14
  <2>17. QED
    BY <2>4, <2>6, <2>7, <2>8, <2>13, <2>14, <2>15, <2>16 DEF Takes
<1>4. CASE SlotOf(t, p) # 0
  <2>1. PICK k \in 1..n : k = SlotOf(t, p) /\ t.index_of[k] = p
    BY <1>1, <1>4, SlotOfIs
  <2>2. \A i \in 1..n : t.index_of[i] = p => i = k
    BY <2>1 DEF TreeIsSound
  <2>3. CASE t.files[k] = found.entry
    <3>1. Fold(t, found) = t
      BY <1>4, <2>1, <2>3 DEF Fold
    <3>2. Keeps(t, t) /\ \A i \in 1..n : i <= n
      BY <1>2 DEF Keeps
    <3>3. \A i \in 1..n : \/ t.index_of[i] = p /\ t.files[i] = found.entry
                          \/ t.index_of[i] # p /\ i <= n
      BY <2>1, <2>2, <2>3, <3>2
    <3>4. QED
      BY <2>1, <3>1, <3>2, <3>3 DEF Takes
  <2>4. CASE t.files[k] # found.entry
    <3>1. PICK f : f = [t.files EXCEPT ![k] = found.entry]
      OBVIOUS
    <3>2. PICK s : s = [t.slots EXCEPT ![k] = found.file]
      OBVIOUS
    <3>3. /\ f \in Seq(Entries) /\ Len(f) = n /\ f[k] = found.entry
          /\ \A i \in 1..n : i # k => f[i] = t.files[i]
      BY <1>1, <1>2, <2>1, <3>1, ExceptSeq
    <3>4. /\ s \in Seq(Files \cup {Absent}) /\ Len(s) = n /\ s[k] = found.file
          /\ \A i \in 1..n : i # k => s[i] = t.slots[i]
      BY <1>1, <1>2, <2>1, <3>2, ExceptSeq
    <3>5. PICK u : u = Fold(t, found)
      OBVIOUS
    <3>6. /\ u.files = f /\ u.slots = s /\ u.index_of = t.index_of /\ u.version = t.version
          /\ u \in Trees
      <4>1. u = [t EXCEPT !.files = f, !.slots = s]
        BY <1>2, <1>4, <2>1, <2>4, <3>1, <3>2, <3>5 DEF Fold, Trees
      <4>2. QED
        BY <1>2, <3>3, <3>4, <4>1 DEF Trees
    <3>7. \A i \in 1..n : SlotIsSound(u, i)
      <4> TAKE i \in 1..n
      <4>1. SlotIsSound(t, i)
        BY DEF TreeIsSound
      <4>2. CASE i = k
        BY <1>1, <2>1, <3>3, <3>4, <3>6, <4>2 DEF SlotIsSound
      <4>3. CASE i # k
        BY <3>3, <3>4, <3>6, <4>1, <4>3 DEF SlotIsSound
      <4>4. QED
        BY <4>2, <4>3
    <3>8. TreeIsSound(u)
      BY <1>2, <3>3, <3>4, <3>6, <3>7 DEF TreeIsSound
    <3>9. Keeps(t, u) /\ \A i \in 1..n : i <= n
      BY <1>2, <3>3, <3>6 DEF Keeps
    <3>10. \A i \in 1..n : \/ t.index_of[i] = p /\ f[i] = found.entry
                           \/ t.index_of[i] # p /\ i <= n /\ f[i] = t.files[i]
      BY <2>1, <2>2, <3>3, <3>9
    <3>11. QED
      BY <2>1, <3>3, <3>5, <3>6, <3>8, <3>9, <3>10 DEF Takes
  <2>5. QED
    BY <2>3, <2>4
<1>5. QED
  BY <1>3, <1>4

\* The trees on the way through a listing.
Way(upto, t, listing) ==
    upto = [n \in 0..Len(listing) |-> IF n = 0 THEN t ELSE Fold(upto[n - 1], listing[n])]

(* Folding a listing goes from tree to tree, a find at a time. *)
LEMMA FoldedWay ==
    ASSUME NEW t, NEW listing, Len(listing) \in Nat
    PROVE  \E upto : /\ upto[0] = t /\ Folded(t, listing) = upto[Len(listing)]
                     /\ \A n \in 1..Len(listing) : upto[n] = Fold(upto[n - 1], listing[n])
<1> DEFINE upto(g, m) == g = [n \in 0..m |-> IF n = 0 THEN t ELSE Fold(g[n - 1], listing[n])]
           S == {m \in Nat : \E g : upto(g, m)}
<1>1. 0 \in S
  <2>1. upto([n \in 0..0 |-> t], 0)
    OBVIOUS
  <2>2. QED
    BY <2>1
<1>2. ASSUME NEW m \in Nat, m \in S  PROVE m + 1 \in S
  <2>1. PICK g : upto(g, m)
    BY <1>2
  <2> DEFINE h == [n \in 0..m + 1 |-> IF n = m + 1 THEN Fold(g[m], listing[m + 1]) ELSE g[n]]
  <2>2. \A n \in 0..m + 1 : h[n] = IF n = 0 THEN t ELSE Fold(h[n - 1], listing[n])
    <3> TAKE n \in 0..m + 1
    <3>1. CASE n = m + 1
      <4>1. h[n] = Fold(g[m], listing[m + 1]) /\ h[n - 1] = g[m] /\ n # 0 /\ n - 1 = m
        BY <3>1
      <4>2. QED
        BY <3>1, <4>1
    <3>2. CASE n # m + 1
      <4>1. n \in 0..m /\ h[n] = g[n] /\ (n # 0 => n - 1 \in 0..m /\ h[n - 1] = g[n - 1])
        BY <3>2
      <4>2. g[n] = IF n = 0 THEN t ELSE Fold(g[n - 1], listing[n])
        BY <2>1, <4>1
      <4>3. QED
        <5> HIDE DEF h
        <5> QED  BY <4>1, <4>2
    <3>3. QED
      BY <3>1, <3>2
  <2>3. h = [n \in 0..m + 1 |-> h[n]]
    OBVIOUS
  <2>4. upto(h, m + 1)
    <3> HIDE DEF h
    <3> QED  BY <2>2, <2>3
  <2>5. \E f : upto(f, m + 1)
    <3> HIDE DEF h, upto
    <3> QED  BY <2>4
  <2>6. QED
    <3> HIDE DEF upto
    <3> QED  BY <2>5
<1>3. Len(listing) \in S
  <2> HIDE DEF S
  <2> QED  BY <1>1, <1>2, SetInduction
<1>4. \E g : Way(g, t, listing)
  BY <1>3 DEF Way
<1>5. Folded(t, listing) = (CHOOSE g : Way(g, t, listing))[Len(listing)]
  BY DEF Folded, Way
<1>6. PICK g : Way(g, t, listing) /\ Folded(t, listing) = g[Len(listing)]
  BY <1>4, <1>5
<1>7. 0 \in 0..Len(listing) /\ \A n \in 1..Len(listing) : n \in 0..Len(listing) /\ n # 0
  OBVIOUS
<1>8. g[0] = t /\ \A n \in 1..Len(listing) : g[n] = Fold(g[n - 1], listing[n])
  BY <1>6, <1>7 DEF Way
<1>9. QED
  BY <1>6, <1>8

\* A listing that says one thing of a path.
Coherent(listing) ==
    \A k, l \in 1..Len(listing) :
        listing[k].entry.path = listing[l].entry.path => listing[k].entry = listing[l].entry

\* The tree u is t with the first n files of a listing in it.
TakesAll(t, u, listing, n) ==
    /\ TreeIsSound(u) /\ u.version = t.version /\ Keeps(t, u)
    /\ \A k \in 1..n : \E i \in 1..Len(u.files) : u.index_of[i] = listing[k].entry.path
    /\ \A i \in 1..Len(u.files) :
          \/ \E k \in 1..n : u.index_of[i] = listing[k].entry.path
          \/ i <= Len(t.files)
    /\ Coherent(listing) =>
          \A i \in 1..Len(u.files), k \in 1..n :
              u.index_of[i] = listing[k].entry.path => u.files[i] = listing[k].entry

(* Folding a listing into a tree takes in all of it. *)
LEMMA FoldedIs ==
    ASSUME NEW t, TreeIsSound(t), NEW listing \in Seq(Finds)
    PROVE  TakesAll(t, Folded(t, listing), listing, Len(listing))
<1> DEFINE n == Len(listing)
<1>1. n \in Nat /\ \A k \in 1..n : listing[k] \in Finds
  BY ElementOfSeq, LenProperties
<1>2. PICK upto : /\ upto[0] = t /\ Folded(t, listing) = upto[n]
                  /\ \A k \in 1..n : upto[k] = Fold(upto[k - 1], listing[k])
  BY <1>1, FoldedWay
<1> HIDE DEF n
<1> DEFINE S == {m \in Nat : m <= n => TakesAll(t, upto[m], listing, m)}
<1>3. 0 \in S
  <2>1. Keeps(t, t) /\ \A i \in 1..Len(t.files) : i <= Len(t.files)
    BY TreeIs DEF Keeps
  <2>2. 1..0 = {}
    OBVIOUS
  <2>3. TakesAll(t, t, listing, 0)
    BY <2>1, <2>2 DEF TakesAll
  <2>4. QED
    BY <1>2, <2>3
<1>4. ASSUME NEW m \in Nat, m \in S  PROVE m + 1 \in S
  <2> SUFFICES ASSUME m + 1 <= n  PROVE TakesAll(t, upto[m + 1], listing, m + 1)
    OBVIOUS
  <2>1. m <= n /\ m + 1 \in 1..n /\ m + 1 - 1 = m
    BY <1>1
  <2>2. PICK u : u = upto[m] /\ TakesAll(t, u, listing, m)
    BY <1>4, <2>1
  <2>3. PICK found \in Finds : found = listing[m + 1]
    BY <1>1, <2>1
  <2>4. PICK v : v = upto[m + 1] /\ v = Fold(u, found)
    BY <1>2, <2>1, <2>2, <2>3
  <2>5. TreeIsSound(u) /\ u.version = t.version /\ Keeps(t, u)
    BY <2>2 DEF TakesAll
  <2>6. Takes(u, v, found)
    BY <2>4, <2>5, FoldIs
  <2>7. TreeIsSound(v) /\ v.version = t.version /\ Keeps(u, v)
    BY <2>5, <2>6 DEF Takes
  <2>8. /\ Len(t.files) \in Nat /\ Len(u.files) \in Nat /\ Len(v.files) \in Nat
        /\ Len(t.files) <= Len(u.files) /\ Len(u.files) <= Len(v.files)
    BY <2>5, <2>7, TreeIs DEF Keeps
  <2>9. Keeps(t, v)
    BY <2>5, <2>7, <2>8 DEF Keeps
  <2>10. \A k \in 1..m + 1 : k = m + 1 \/ k \in 1..m
    OBVIOUS
  <2>11. ASSUME NEW k \in 1..m + 1
         PROVE  \E i \in 1..Len(v.files) : v.index_of[i] = listing[k].entry.path
    <3>1. CASE k = m + 1
      BY <2>3, <2>6, <3>1 DEF Takes
    <3>2. CASE k \in 1..m
      <4>1. PICK i \in 1..Len(u.files) : u.index_of[i] = listing[k].entry.path
        BY <2>2, <3>2 DEF TakesAll
      <4>2. i \in 1..Len(v.files) /\ v.index_of[i] = u.index_of[i]
        BY <2>7, <2>8 DEF Keeps
      <4>3. QED
        BY <4>1, <4>2
    <3>3. QED
      BY <2>10, <3>1, <3>2
  <2>12. ASSUME NEW i \in 1..Len(v.files)
         PROVE  \/ \E k \in 1..m + 1 : v.index_of[i] = listing[k].entry.path
                \/ i <= Len(t.files)
    <3>1. CASE v.index_of[i] = found.entry.path
      <4>1. m + 1 \in 1..m + 1
        OBVIOUS
      <4>2. QED
        BY <2>3, <3>1, <4>1
    <3>2. CASE v.index_of[i] # found.entry.path
      <4>1. i \in 1..Len(u.files)
        BY <2>6, <2>8, <3>2 DEF Takes
      <4>2. v.index_of[i] = u.index_of[i]
        BY <2>7, <4>1 DEF Keeps
      <4>3. \/ \E k \in 1..m : u.index_of[i] = listing[k].entry.path
            \/ i <= Len(t.files)
        BY <2>2, <4>1 DEF TakesAll
      <4>4. \A k \in 1..m : k \in 1..m + 1
        OBVIOUS
      <4>5. QED
        BY <4>2, <4>3, <4>4
    <3>3. QED
      BY <3>1, <3>2
  <2>13. ASSUME Coherent(listing), NEW i \in 1..Len(v.files), NEW k \in 1..m + 1,
                v.index_of[i] = listing[k].entry.path
         PROVE  v.files[i] = listing[k].entry
    <3>1. CASE v.index_of[i] = found.entry.path
      <4>1. v.files[i] = found.entry
        BY <2>6, <3>1 DEF Takes
      <4>2. k \in 1..n
        BY <1>1, <2>1
      <4>3. listing[k].entry = found.entry
        BY <2>1, <2>3, <2>13, <3>1, <4>2 DEF Coherent, n
      <4>4. QED
        BY <4>1, <4>3
    <3>2. CASE v.index_of[i] # found.entry.path
      <4>1. i \in 1..Len(u.files) /\ v.files[i] = u.files[i]
        BY <2>6, <2>8, <3>2 DEF Takes
      <4>2. v.index_of[i] = u.index_of[i]
        BY <2>7, <4>1 DEF Keeps
      <4>3. k \in 1..m
        BY <2>3, <2>10, <2>13, <3>2
      <4>4. QED
        BY <2>2, <2>13, <4>1, <4>2, <4>3 DEF TakesAll
    <3>3. QED
      BY <3>1, <3>2
  <2>14. QED
    BY <2>4, <2>7, <2>9, <2>11, <2>12, <2>13 DEF TakesAll
<1>5. n \in S
  <2> HIDE DEF S
  <2> QED  BY <1>1, <1>3, <1>4, SetInduction
<1>6. QED
  BY <1>1, <1>2, <1>5 DEF n

\* A tuple of n things of S is a sequence.
LEMMA TupleIsSeq ==
    ASSUME NEW S, NEW n \in Nat, NEW f \in [1..n -> S]
    PROVE  f \in Seq(S) /\ Len(f) = n
<1>1. f \in Seq(S)
  BY SeqDef
<1>2. QED
  BY <1>1, LenProperties

\* The tree u is t without what a listing does not have.
Loses(t, u, listing) ==
    /\ TreeIsSound(u) /\ u.version = t.version /\ u.index_of = t.index_of
    /\ Len(u.files) = Len(t.files)
    /\ \A i \in 1..Len(t.files) :
          IF \E k \in 1..Len(listing) : t.index_of[i] = listing[k].entry.path
          THEN u.files[i] = t.files[i] ELSE u.files[i] = Tombstone

(* Retiring loses exactly the files that the listing does not have. *)
LEMMA RetireIs ==
    ASSUME NEW t, TreeIsSound(t), NEW listing \in Seq(Finds)
    PROVE  Loses(t, Retire(t, listing), listing)
<1> DEFINE here == {listing[k].entry.path : k \in DOMAIN listing}
           gone == {i \in DOMAIN t.files : t.index_of[i] \notin here}
<1>1. PICK n \in Nat : n = Len(t.files)
  BY TreeIs
<1> DEFINE u == Retire(t, listing)
<1>2. /\ t \in Trees /\ Len(t.slots) = n /\ Len(t.index_of) = n
      /\ DOMAIN t.files = 1..n /\ DOMAIN t.slots = 1..n
      /\ \A i \in 1..n : t.files[i] \in Entries /\ t.slots[i] \in Files \cup {Absent}
  BY <1>1, TreeIs DEF TreeIsSound
<1>3. PICK f : f = [i \in 1..n |-> IF i \in gone THEN Tombstone ELSE t.files[i]]
  OBVIOUS
<1>4. PICK s : s = [i \in 1..n |-> IF i \in gone THEN Absent ELSE t.slots[i]]
  OBVIOUS
<1>5. u = [t EXCEPT !.files = f, !.slots = s]
  BY <1>2, <1>3, <1>4 DEF Retire, Trees
<1>6. \A i \in 1..n : i \in gone <=> ~ \E k \in 1..Len(listing) : t.index_of[i] = listing[k].entry.path
  BY <1>2, LenProperties
<1> HIDE DEF gone, u
<1>7. f \in [1..n -> Entries] /\ s \in [1..n -> Files \cup {Absent}]
  BY <1>2, <1>3, <1>4, Tombs
<1>8. f \in Seq(Entries) /\ Len(f) = n /\ s \in Seq(Files \cup {Absent}) /\ Len(s) = n
  BY <1>7, TupleIsSeq
<1>9. /\ u \in Trees /\ u.files = f /\ u.slots = s /\ u.index_of = t.index_of
      /\ u.version = t.version
  BY <1>2, <1>5, <1>8 DEF Trees
<1>10. \A i \in 1..n : SlotIsSound(u, i)
  <2> TAKE i \in 1..n
  <2>1. SlotIsSound(t, i)
    BY <1>1 DEF TreeIsSound
  <2>2. CASE i \in gone
    BY <1>3, <1>4, <1>9, <2>2 DEF SlotIsSound
  <2>3. CASE i \notin gone
    BY <1>3, <1>4, <1>9, <2>1, <2>3 DEF SlotIsSound
  <2>4. QED
    BY <2>2, <2>3
<1>11. TreeIsSound(u)
  BY <1>1, <1>2, <1>8, <1>9, <1>10 DEF TreeIsSound
<1>12. \A i \in 1..n : IF i \in gone THEN u.files[i] = Tombstone ELSE u.files[i] = t.files[i]
  BY <1>3, <1>9
<1>13. QED
  BY <1>1, <1>6, <1>8, <1>9, <1>11, <1>12 DEF Loses, u

\* What a listing says of the folder.
Says(listing) == {listing[k].entry : k \in 1..Len(listing)}
PathsOf(listing) == {listing[k].entry.path : k \in 1..Len(listing)}

\* A tree to publish: slots keep their paths, and its version is its own.
LEMMA AppliedIs ==
    ASSUME NEW t, TreeIsSound(t), NEW listing \in Seq(Finds), NEW u, u = Applied(t, listing)
    PROVE  /\ TreeIsSound(u) /\ Keeps(t, u) /\ (u = t \/ u.version = t.version + 1)
           /\ u = t \/ ToSet(u.index_of) = ToSet(t.index_of) \cup PathsOf(listing)
           /\ Coherent(listing) => ToSet(u.files) \ {Tombstone} = Says(listing)
<1>1. PICK f : f = Folded(t, listing)
  OBVIOUS
<1>2. PICK r : r = Retire(f, listing)
  OBVIOUS
<1>3. TakesAll(t, f, listing, Len(listing))
  BY <1>1, FoldedIs
<1>4. TreeIsSound(f) /\ f.version = t.version /\ Keeps(t, f)
  BY <1>3 DEF TakesAll
<1>5. /\ TreeIsSound(r) /\ r.version = t.version /\ r.index_of = f.index_of
      /\ Len(r.files) = Len(f.files)
      /\ \A i \in 1..Len(f.files) :
            IF \E k \in 1..Len(listing) : f.index_of[i] = listing[k].entry.path
            THEN r.files[i] = f.files[i] ELSE r.files[i] = Tombstone
  <2>1. Loses(f, r, listing)
    BY <1>2, <1>4, RetireIs
  <2>2. QED
    BY <1>4, <2>1 DEF Loses
<1>6. \A k \in 1..Len(listing) : listing[k] \in Finds
  BY ElementOfSeq
<1>7. Coherent(listing) => ToSet(r.files) \ {Tombstone} = Says(listing)
  <2> SUFFICES ASSUME Coherent(listing)
               PROVE  ToSet(r.files) \ {Tombstone} = Says(listing)
    OBVIOUS
  <2>1. DOMAIN r.files = 1..Len(f.files)
    BY <1>5, TreeIs
  <2>2. ASSUME NEW i \in 1..Len(f.files), r.files[i] # Tombstone  PROVE r.files[i] \in Says(listing)
    <3>1. PICK k \in 1..Len(listing) : f.index_of[i] = listing[k].entry.path
      BY <1>5, <2>2
    <3>2. r.files[i] = f.files[i] /\ f.files[i] = listing[k].entry
      BY <1>3, <1>5, <3>1 DEF TakesAll
    <3>3. QED
      BY <3>2 DEF Says
  <2>3. ASSUME NEW k \in 1..Len(listing)
        PROVE  listing[k].entry # Tombstone /\ \E i \in 1..Len(f.files) : r.files[i] = listing[k].entry
    <3>1. PICK i \in 1..Len(f.files) : f.index_of[i] = listing[k].entry.path
      BY <1>3 DEF TakesAll
    <3>2. r.files[i] = f.files[i] /\ f.files[i] = listing[k].entry
      BY <1>3, <1>5, <3>1 DEF TakesAll
    <3>3. listing[k].entry # Tombstone
      BY <1>6, EntryIs DEF Finds
    <3>4. QED
      BY <3>2, <3>3
  <2>4. QED
    BY <2>1, <2>2, <2>3 DEF ToSet, Says
<1>8. CASE r.files = t.files
  <2>1. u = t
    BY <1>1, <1>2, <1>8 DEF Applied
  <2>2. Keeps(t, t)
    BY TreeIs DEF Keeps
  <2>3. QED
    BY <1>7, <1>8, <2>1, <2>2
<1>9. CASE r.files # t.files
  <2>1. u = [r EXCEPT !.version = t.version + 1]
    BY <1>1, <1>2, <1>5, <1>9 DEF Applied
  <2>2. r \in Trees /\ t.version + 1 \in Nat \ {0}
    BY <1>5, TreeIs
  <2>3. /\ u \in Trees /\ u.files = r.files /\ u.slots = r.slots /\ u.index_of = f.index_of
        /\ u.version = t.version + 1
    BY <1>5, <2>1, <2>2 DEF Trees
  <2>4. TreeIsSound(u)
    <3>1. \A i \in 1..Len(r.files) : SlotIsSound(r, i)
      BY <1>5 DEF TreeIsSound
    <3>2. \A i \in 1..Len(r.files) : SlotIsSound(u, i)
      BY <1>5, <2>3, <3>1 DEF SlotIsSound
    <3>3. /\ Len(r.slots) = Len(r.files) /\ Len(r.index_of) = Len(r.files)
          /\ \A i, j \in 1..Len(r.files) : r.index_of[i] = r.index_of[j] => i = j
      BY <1>5 DEF TreeIsSound
    <3>4. QED
      BY <1>5, <2>3, <3>2, <3>3 DEF TreeIsSound
  <2>5. Keeps(t, u)
    BY <1>4, <1>5, <2>3 DEF Keeps
  <2>6. ToSet(f.index_of) = ToSet(t.index_of) \cup PathsOf(listing)
    <3>1. DOMAIN f.index_of = 1..Len(f.files) /\ DOMAIN t.index_of = 1..Len(t.files)
      BY <1>4, TreeIs
    <3>2. \A i \in 1..Len(t.files) : i \in 1..Len(f.files) /\ f.index_of[i] = t.index_of[i]
      BY <1>4, TreeIs DEF Keeps
    <3>3. \A k \in 1..Len(listing) : \E i \in 1..Len(f.files) : f.index_of[i] = listing[k].entry.path
      BY <1>3 DEF TakesAll
    <3>4. ASSUME NEW i \in 1..Len(f.files)
          PROVE  \/ \E k \in 1..Len(listing) : f.index_of[i] = listing[k].entry.path
                 \/ \E j \in 1..Len(t.files) : f.index_of[i] = t.index_of[j]
      <4>1. \/ \E k \in 1..Len(listing) : f.index_of[i] = listing[k].entry.path
            \/ i <= Len(t.files)
        BY <1>3 DEF TakesAll
      <4>2. i <= Len(t.files) => i \in 1..Len(t.files)
        BY TreeIs
      <4>3. QED
        BY <3>2, <4>1, <4>2
    <3>5. /\ ToSet(f.index_of) = {f.index_of[i] : i \in 1..Len(f.files)}
          /\ ToSet(t.index_of) = {t.index_of[i] : i \in 1..Len(t.files)}
      BY <3>1 DEF ToSet
    <3>6. \A p \in ToSet(f.index_of) : p \in ToSet(t.index_of) \cup PathsOf(listing)
      BY <3>4, <3>5 DEF PathsOf
    <3>7. \A p \in PathsOf(listing) : p \in ToSet(f.index_of)
      BY <3>3, <3>5 DEF PathsOf
    <3>8. \A p \in ToSet(t.index_of) : p \in ToSet(f.index_of)
      BY <3>2, <3>5
    <3>9. QED
      BY <3>6, <3>7, <3>8
  <2>7. QED
    BY <1>7, <2>3, <2>4, <2>5, <2>6
<1>10. QED
  BY <1>8, <1>9

\* A tree has one slot for each path it knows.
LEMMA SlotsAreCounted ==
    ASSUME NEW t, TreeIsSound(t)
    PROVE  Cardinality(ToSet(t.index_of)) = Len(t.files)
<1>1. PICK n \in Nat : n = Len(t.files)
  BY TreeIs
<1> DEFINE S == ToSet(t.index_of)
<1>2. DOMAIN t.index_of = 1..n /\ t.index_of \in Seq(Paths) /\ Len(t.index_of) = n
  BY <1>1, TreeIs DEF TreeIsSound
<1>3. t.index_of \in [1..n -> S]
  BY <1>2, LenProperties DEF ToSet
<1>4. t.index_of \in Bijection(1..n, S)
  BY <1>1, <1>2, <1>3 DEF TreeIsSound, Bijection, Injection, Surjection, IsInjective, ToSet
<1>5. ExistsBijection(1..n, S)
  BY <1>4 DEF ExistsBijection
<1> HIDE DEF S
<1>6. Cardinality(S) = n
  BY <1>5, FS_CountingElements
<1>7. QED
  BY <1>1, <1>6 DEF S

-----------------------------------------------------------------------------
(* The chunk table.                                                         *)

\* The table's indices agree; TableIsCoherent says it of the tab's.
Agrees(table) ==
    /\ \A a \in DOMAIN table.byChunk :
          /\ table.byChunk[a].slot \in DOMAIN table.rows
          /\ table.byChunk[a].at \in DOMAIN table.rows[table.byChunk[a].slot]
          /\ table.rows[table.byChunk[a].slot][table.byChunk[a].at] = a
    /\ \A r \in DOMAIN table.byRoot :
          table.byRoot[r] \in DOMAIN table.rows /\ table.rows[table.byRoot[r]] = r

\* What is forgotten takes its own addresses and its own root with it.
LEMMA ForgetIs ==
    ASSUME NEW table, Agrees(table), NEW i
    PROVE  Agrees(Forget(table, i)) /\ DOMAIN Forget(table, i).rows = DOMAIN table.rows \ {i}
<1>1. CASE i \notin DOMAIN table.rows
  <2>1. Forget(table, i) = table
    BY <1>1 DEF Forget
  <2>2. QED
    BY <1>1, <2>1
<1>2. CASE i \in DOMAIN table.rows
  <2> DEFINE row == table.rows[i]
             kept == DOMAIN table.byChunk \
                        {a \in DOMAIN table.byChunk : a \in ToSet(row) /\ table.byChunk[a].slot = i}
  <2>1. PICK u : u = Forget(table, i)
    OBVIOUS
  <2>2. /\ u.rows = [k \in DOMAIN table.rows \ {i} |-> table.rows[k]]
        /\ u.byRoot = [k \in DOMAIN table.byRoot \ {row} |-> table.byRoot[k]]
        /\ u.byChunk = [k \in kept |-> table.byChunk[k]]
    BY <1>2, <2>1 DEF Forget, WithoutKeys
  <2>3. ASSUME NEW a \in kept
        PROVE  /\ u.byChunk[a] = table.byChunk[a] /\ table.byChunk[a].slot \in DOMAIN u.rows
               /\ table.byChunk[a].at \in DOMAIN table.rows[table.byChunk[a].slot]
               /\ table.rows[table.byChunk[a].slot][table.byChunk[a].at] = a
    <3>1. /\ table.byChunk[a].slot \in DOMAIN table.rows
          /\ table.byChunk[a].at \in DOMAIN table.rows[table.byChunk[a].slot]
          /\ table.rows[table.byChunk[a].slot][table.byChunk[a].at] = a
      BY DEF Agrees
    <3>2. table.byChunk[a].slot # i
      BY <3>1 DEF ToSet
    <3>3. QED
      BY <2>2, <3>1, <3>2
  <2>4. ASSUME NEW r \in DOMAIN table.byRoot \ {row}
        PROVE  /\ u.byRoot[r] = table.byRoot[r] /\ table.byRoot[r] \in DOMAIN u.rows
               /\ table.rows[table.byRoot[r]] = r
    BY <2>2 DEF Agrees
  <2>5. \A k \in DOMAIN u.rows : u.rows[k] = table.rows[k]
    BY <2>2
  <2>6. DOMAIN u.byChunk = kept /\ DOMAIN u.byRoot = DOMAIN table.byRoot \ {row}
    BY <2>2
  <2> HIDE DEF kept
  <2>7. Agrees(u)
    BY <2>3, <2>4, <2>5, <2>6 DEF Agrees
  <2>8. QED
    BY <2>1, <2>2, <2>7
<1>3. QED
  BY <1>1, <1>2

\* A new row is found under its slot, its root, and each address in it that
\* no other row claimed.
LEMMA InsertIs ==
    ASSUME NEW table, Agrees(table), NEW i, NEW row, row \in Seq(Nat)
    PROVE  Agrees(Insert(table, i, row)) /\ DOMAIN Insert(table, i, row).rows = DOMAIN table.rows \cup {i}
<1>1. PICK c : c = Forget(table, i)
  OBVIOUS
<1>2. Agrees(c) /\ DOMAIN c.rows = DOMAIN table.rows \ {i}
  BY <1>1, ForgetIs
<1>3. PICK u : u = Insert(table, i, row)
  OBVIOUS
<1> DEFINE first(a) == [slot |-> i, at |-> Min({k \in DOMAIN row : row[k] = a})]
<1>4. /\ u.rows = With(c.rows, i, row)
      /\ u.byRoot = With(c.byRoot, row, i)
      /\ u.byChunk = [a \in DOMAIN c.byChunk \cup ToSet(row) |->
                         IF a \in DOMAIN c.byChunk THEN c.byChunk[a] ELSE first(a)]
  BY <1>1, <1>3 DEF Insert, Claims
<1>5. /\ DOMAIN u.rows = {i} \cup DOMAIN c.rows
      /\ u.rows[i] = row /\ \A k \in DOMAIN c.rows : u.rows[k] = c.rows[k]
  BY <1>2, <1>4 DEF With
<1>6. /\ DOMAIN u.byRoot = {row} \cup DOMAIN c.byRoot
      /\ u.byRoot[row] = i /\ \A r \in DOMAIN c.byRoot : r # row => u.byRoot[r] = c.byRoot[r]
  BY <1>4 DEF With
<1>7. /\ DOMAIN u.byChunk = DOMAIN c.byChunk \cup ToSet(row)
      /\ \A a \in DOMAIN c.byChunk : u.byChunk[a] = c.byChunk[a]
      /\ \A a \in ToSet(row) \ DOMAIN c.byChunk : u.byChunk[a] = first(a)
  BY <1>4
<1>8. ASSUME NEW a \in ToSet(row)
      PROVE  first(a).at \in DOMAIN row /\ row[first(a).at] = a /\ first(a).slot = i
  <2> DEFINE places == {k \in DOMAIN row : row[k] = a}
  <2>1. places # {} /\ places \subseteq Nat
    <3>1. DOMAIN row = 1..Len(row) /\ Len(row) \in Nat
      BY LenProperties
    <3>2. QED
      BY <3>1 DEF ToSet
  <2>2. Min(places) \in places
    <3> HIDE DEF places
    <3> QED  BY <2>1, LeastNumber
  <2>3. QED
    BY <2>2
<1> HIDE DEF first
<1>9. ASSUME NEW a \in DOMAIN u.byChunk
      PROVE  /\ u.byChunk[a].slot \in DOMAIN u.rows
             /\ u.byChunk[a].at \in DOMAIN u.rows[u.byChunk[a].slot]
             /\ u.rows[u.byChunk[a].slot][u.byChunk[a].at] = a
  <2>1. CASE a \in DOMAIN c.byChunk
    BY <1>2, <1>5, <1>7, <2>1 DEF Agrees
  <2>2. CASE a \in ToSet(row) \ DOMAIN c.byChunk
    BY <1>5, <1>7, <1>8, <2>2
  <2>3. QED
    BY <1>7, <2>1, <2>2
<1>10. ASSUME NEW r \in DOMAIN u.byRoot
       PROVE  u.byRoot[r] \in DOMAIN u.rows /\ u.rows[u.byRoot[r]] = r
  BY <1>2, <1>5, <1>6 DEF Agrees
<1>11. Agrees(u)
  BY <1>9, <1>10 DEF Agrees
<1>12. QED
  BY <1>2, <1>3, <1>5, <1>11

-----------------------------------------------------------------------------
(* What a step leaves alone stays sound.                                    *)

(* While the tree and the envelopes stay as they are, so does what is known of them. *)
LEMMA SealsStay ==
    ASSUME SealsAreSound, UNCHANGED treeVars
    PROVE  SealsAreSound' /\ Len(tree'.files) = Len(tree.files)
BY DEF SealsAreSound, treeVars, OneTreePerVersion

(* The table stays sound while the tree keeps its slots. *)
LEMMA RowsStay ==
    ASSUME RowsAreSound, UNCHANGED tableVars, SealsAreSound, Keeps(tree, tree'), TreeIsSound(tree')
    PROVE  RowsAreSound'
<1>1. 1..Len(tree.files) \subseteq 1..Len(tree'.files)
  BY TreeIs DEF Keeps, SealsAreSound
<1>2. QED
  BY <1>1 DEF RowsAreSound, tableVars, TableIsCoherent

(* A tree that stays as it is keeps its slots. *)
LEMMA TreeKept ==
    ASSUME SealsAreSound, UNCHANGED tree
    PROVE  Keeps(tree, tree') /\ TreeIsSound(tree')
BY TreeIs DEF SealsAreSound, Keeps

\* A request stays sound while the tree grows.
LEMMA TaskStays ==
    ASSUME SealsAreSound, Keeps(tree, tree'), TreeIsSound(tree'), NEW r, TaskIsSound(r)
    PROVE  TaskIsSound(r)'
<1>1. \A i \in 1..Len(tree.files) : i \in 1..Len(tree'.files)
  BY TreeIs DEF Keeps, SealsAreSound
<1>2. QED
  BY <1>1 DEF TaskIsSound

(* The requests in flight stay sound while the tree keeps its slots. *)
LEMMA TasksStay ==
    ASSUME SealsAreSound, Keeps(tree, tree'), TreeIsSound(tree'), TasksAreSound, UNCHANGED task
    PROVE  TasksAreSound'
<1>1. ASSUME NEW t \in Tasks  PROVE TaskIsSound(task[t])'
  <2>1. PICK r : r = task[t] /\ TaskIsSound(r)
    BY DEF TasksAreSound
  <2>2. TaskIsSound(r)'
    BY <2>1, TaskStays
  <2>3. task'[t] = r
    BY <2>1
  <2>4. QED
    BY <2>2, <2>3 DEF TaskIsSound
<1>2. QED
  BY <1>1 DEF TasksAreSound

\* One request takes a step.
LEMMA OneTask ==
    ASSUME SealsAreSound, UNCHANGED tree, TasksAreSound, NEW t \in Tasks,
           NEW step, TaskIsSound(step), Now(t, step)
    PROVE  TasksAreSound'
<1>1. Keeps(tree, tree') /\ TreeIsSound(tree')
  BY TreeKept
<1>2. DOMAIN task = Tasks /\ task' = [task EXCEPT ![t] = step]
  BY DEF TasksAreSound, Now
<1>3. ASSUME NEW s \in Tasks  PROVE TaskIsSound(task[s])'
  <2>1. PICK r : r = task'[s] /\ TaskIsSound(r)
    <3>1. CASE s = t
      BY <1>2, <3>1
    <3>2. CASE s # t
      BY <1>2, <3>2 DEF TasksAreSound
    <3>3. QED
      BY <3>1, <3>2
  <2>2. TaskIsSound(r)'
    BY <1>1, <2>1, TaskStays
  <2>3. QED
    BY <2>1, <2>2 DEF TaskIsSound
<1>4. QED
  BY <1>2, <1>3 DEF TasksAreSound

(* A request that is not there is sound. *)
LEMMA NoTaskIsSound == TaskIsSound(NoTask) /\ NoTask.built \in Seq(Nat)
BY DEF TaskIsSound, NoTask

(* An answered request is sound, if a chunk was answered with the address   *)
(* asked for or none.                                                       *)
LEMMA AnswerIs ==
    ASSUME SealsAreSound, UNCHANGED tree, TasksAreSound, NEW t \in Tasks, NEW answer,
           Answer(t, answer), task[t].op = "chunk" => answer \in {<< >>, <<task[t].address>>}
    PROVE  TasksAreSound'
<1>1. CASE task[t].op = "chunk"
  <2>1. PICK r : r = [NoTask EXCEPT !.op = "chunk", !.address = task[t].address, !.answer = answer]
    OBVIOUS
  <2>2. Now(t, r)
    BY <1>1, <2>1 DEF Answer
  <2>3. TaskIsSound(r)
    BY <1>1, <2>1 DEF TaskIsSound, NoTask
  <2>4. QED
    BY <2>2, <2>3, OneTask
<1>2. CASE task[t].op # "chunk"
  <2>1. Now(t, NoTask)
    BY <1>2 DEF Answer
  <2>2. QED
    BY <2>1, NoTaskIsSound, OneTask
<1>3. QED
  BY <1>1, <1>2

\* The source of a slot, behind a request.
LEMMA BehindIs ==
    ASSUME NEW i
    PROVE  /\ DOMAIN Behind(i) = DOMAIN NoTask /\ Behind(i).built = << >> /\ Behind(i).index = i
           /\ Behind(i).answer = << >>
BY DEF Behind, NoTask

\* What was read is at most one chunk.
LEMMA BytesIs ==
    ASSUME DiskIsSound, NEW source, NEW path \in Paths, NEW position
    PROVE  Bytes(source, path, position) = << >> \/ \E c \in Nat : Bytes(source, path, position) = <<c>>
<1> DEFINE row == IF Unreadable(source, path) THEN << >> ELSE Chunks[disk[path].content]
<1>1. row \in Seq(Nat)
  <2>1. CASE Unreadable(source, path)
    BY <2>1
  <2>2. CASE ~ Unreadable(source, path)
    <3>1. disk[path].content \in DOMAIN Chunks
      BY <2>2 DEF DiskIsSound, Files, Absent, Unreadable
    <3>2. Chunks[disk[path].content] \in Seq(Nat \ {0})
      BY <3>1, WebProducerAssumption DEF WebProducerAssumption
    <3>3. QED
      BY <2>2, <3>2
  <2>3. QED
    BY <2>1, <2>2
<1>2. Bytes(source, path, position) = IF position \in DOMAIN row THEN <<row[position]>> ELSE << >>
  BY DEF Bytes
<1> HIDE DEF row
<1>3. position \in DOMAIN row => row[position] \in Nat
  BY <1>1, LenProperties, ElementOfSeq
<1>4. QED
  BY <1>2, <1>3

-----------------------------------------------------------------------------
(* The folder, and a scan of it.                                            *)

\* A scan that has nothing to say of the folder is sound.
LEMMA AtRest ==
    ASSUME scan' = Resting
    PROVE  ScanIsSound'
<1>1. << >> \in Seq(Finds)
  OBVIOUS
<1>2. QED
  BY <1>1 DEF ScanIsSound, Resting

(* While the folder and the scan stay as they are, so does what is known of the scan. *)
LEMMA ScanStays ==
    ASSUME ScanIsSound, UNCHANGED <<scan, disk>>
    PROVE  ScanIsSound'
BY DEF ScanIsSound, Seen, Find, OnDisk

(* A change of the folder keeps the invariant: it is no longer still for the scan. *)
LEMMA EditKeeps ==
    ASSUME ProducerInv, Edit
    PROVE  ProducerInv'
<1>1. DiskIsSound /\ ScanIsSound /\ SealsAreSound /\ RowsAreSound /\ TasksAreSound
  BY DEF ProducerInv
<1>2. UNCHANGED <<treeVars, tableVars, task, tree>>
  BY DEF Edit, treeVars
<1>3. DiskIsSound'
  <2>1. PICK p \in Paths, c \in DOMAIN Chunks \cup {0}, m \in {1, 2} :
            disk' = [disk EXCEPT ![p] = IF c = 0 THEN Absent ELSE [content |-> c, mtime |-> m]]
    BY DEF Edit
  <2>2. PICK new : new = IF c = 0 THEN Absent ELSE [content |-> c, mtime |-> m]
    OBVIOUS
  <2>3. new \in {Absent} \cup Files
    BY <2>2 DEF Files
  <2>4. QED
    BY <1>1, <2>1, <2>2, <2>3 DEF DiskIsSound
<1>4. ScanIsSound'
  <2>1. scan' = [scan EXCEPT !.quiet = scan.phase = "sleeping"] /\ DOMAIN scan = DOMAIN Resting
    BY <1>1 DEF Edit, ScanIsSound
  <2>2. /\ DOMAIN scan' = DOMAIN Resting /\ scan'.phase = scan.phase
        /\ scan'.left = scan.left /\ scan'.found = scan.found
    BY <2>1 DEF Resting
  <2>3. scan'.quiet = (scan.phase = "sleeping")
    BY <2>1 DEF Resting
  <2>4. QED
    BY <1>1, <2>2, <2>3 DEF ScanIsSound
<1>5. SealsAreSound'
  BY <1>1, <1>2, SealsStay
<1>6. RowsAreSound' /\ TasksAreSound'
  BY <1>1, <1>2, TreeKept, RowsStay, TasksStay
<1>7. QED
  BY <1>3, <1>4, <1>5, <1>6 DEF ProducerInv

(* A scan that starts has passed nothing and seen nothing. *)
LEMMA StartScanIs ==
    ASSUME ScanIsSound, StartScan
    PROVE  ScanIsSound'
<1>1. scan' = [Resting EXCEPT !.phase = "walking", !.left = Paths]
  BY DEF StartScan
<1>2. /\ DOMAIN scan' = DOMAIN Resting /\ scan'.phase = "walking" /\ scan'.left = Paths
      /\ scan'.found = << >>
  BY <1>1 DEF Resting
<1>3. ToSet(<< >>) = {} /\ << >> \in Seq(Finds)
  BY DEF ToSet
<1>4. OnDisk(disk') \ Paths = {}
  BY DEF OnDisk
<1>5. Seen(scan)' = {}
  BY <1>2, <1>3 DEF Seen
<1>6. QED
  BY <1>2, <1>3, <1>4, <1>5 DEF ScanIsSound

(* Listing the next path keeps what is known of the scan. *)
LEMMA WalkIs ==
    ASSUME ScanIsSound, Walk
    PROVE  ScanIsSound'
<1>1. scan.phase = "walking" /\ scan.left # {} /\ disk' = disk
  BY DEF Walk, diskVars
<1>2. scan.left \subseteq Paths /\ DOMAIN scan = DOMAIN Resting /\ scan.found \in Seq(Finds)
  BY DEF ScanIsSound
<1>3. PICK p : p = Min(scan.left)
  OBVIOUS
<1>4. p \in scan.left
  <2>1. scan.left \subseteq Nat
    BY <1>2, WebProducerAssumption DEF WebProducerAssumption
  <2>2. QED
    BY <1>1, <1>3, <2>1, LeastNumber
<1>5. PICK ph : ph = IF p \in OnDisk(disk) THEN "opening" ELSE "walking"
  OBVIOUS
<1>6. scan' = [scan EXCEPT !.left = scan.left \ {p}, !.phase = ph, !.at = p]
  BY <1>1, <1>2, <1>3, <1>5 DEF Walk, Resting
<1>7. /\ DOMAIN scan' = DOMAIN Resting /\ scan'.phase = ph /\ scan'.left = scan.left \ {p}
      /\ scan'.at = p /\ scan'.found = scan.found /\ scan'.quiet = scan.quiet
  BY <1>2, <1>6 DEF Resting
<1>8. ASSUME scan.quiet
      PROVE  Seen(scan)' = {Find(q) : q \in OnDisk(disk) \ (scan.left \ {p})}
  <2>1. ToSet(scan.found) = {Find(q) : q \in OnDisk(disk) \ scan.left}
    BY <1>1, <1>8 DEF ScanIsSound, Seen
  <2>2. Find(p)' = Find(p)
    BY <1>1 DEF Find
  <2>3. CASE p \in OnDisk(disk)
    <3>1. Seen(scan)' = ToSet(scan.found) \cup {Find(p)}
      BY <1>5, <1>7, <2>2, <2>3 DEF Seen
    <3>2. OnDisk(disk) \ (scan.left \ {p}) = (OnDisk(disk) \ scan.left) \cup {p}
      BY <2>3
    <3>3. QED
      BY <2>1, <3>1, <3>2
  <2>4. CASE p \notin OnDisk(disk)
    <3>1. Seen(scan)' = ToSet(scan.found)
      BY <1>5, <1>7, <2>4 DEF Seen
    <3>2. OnDisk(disk) \ (scan.left \ {p}) = OnDisk(disk) \ scan.left
      BY <2>4
    <3>3. QED
      BY <2>1, <3>1, <3>2
  <2>5. QED
    BY <2>3, <2>4
<1>9. scan'.quiet => Seen(scan)' = {Find(q) : q \in OnDisk(disk) \ scan.left}'
  BY <1>1, <1>7, <1>8 DEF Find
<1>10. QED
  BY <1>2, <1>5, <1>7, <1>9 DEF ScanIsSound

(* So does opening the file it listed, which may have gone since. *)
LEMMA GetFileIs ==
    ASSUME DiskIsSound, ScanIsSound, GetFile
    PROVE  ScanIsSound'
<1>1. scan.phase = "opening" /\ disk' = disk
  BY DEF GetFile, diskVars
<1>2. scan.left \subseteq Paths /\ DOMAIN scan = DOMAIN Resting /\ scan.found \in Seq(Finds)
  BY DEF ScanIsSound
<1>3. CASE scan.at \notin OnDisk(disk)
  BY <1>3, AtRest DEF GetFile
<1>4. CASE scan.at \in OnDisk(disk)
  <2>1. PICK p : p = scan.at
    OBVIOUS
  <2>2. PICK found : found = Append(scan.found, Find(p))
    OBVIOUS
  <2>3. scan' = [scan EXCEPT !.phase = "walking", !.found = found]
    BY <1>2, <1>4, <2>1, <2>2 DEF GetFile, Find, Resting
  <2>4. /\ DOMAIN scan' = DOMAIN Resting /\ scan'.phase = "walking" /\ scan'.left = scan.left
        /\ scan'.found = found /\ scan'.quiet = scan.quiet
    BY <1>2, <2>3 DEF Resting
  <2>5. Find(p) \in Finds
    <3>1. p \in Paths /\ disk[p] \in Files
      BY <1>4, <2>1 DEF OnDisk, DiskIsSound, Absent
    <3>2. QED
      BY <3>1, EntryIs DEF Find, Finds
  <2>6. found \in Seq(Finds) /\ ToSet(found) = ToSet(scan.found) \cup {Find(p)}
    <3>1. /\ found \in Seq(Finds) /\ Len(found) = Len(scan.found) + 1
          /\ \A i \in 1..Len(scan.found) : found[i] = scan.found[i]
          /\ found[Len(scan.found) + 1] = Find(p)
      BY <1>2, <2>2, <2>5, AppendProperties
    <3>2. PICK n \in Nat : n = Len(scan.found) /\ DOMAIN scan.found = 1..n /\ DOMAIN found = 1..n + 1
      BY <1>2, <3>1, LenProperties
    <3>3. \A i \in 1..n + 1 : i \in 1..n \/ i = n + 1
      OBVIOUS
    <3>4. n + 1 \in 1..n + 1 /\ \A i \in 1..n : i \in 1..n + 1
      OBVIOUS
    <3>5. QED
      BY <3>1, <3>2, <3>3, <3>4 DEF ToSet
  <2>7. Seen(scan)' = ToSet(scan.found) \cup {Find(p)}
    BY <2>4, <2>6 DEF Seen
  <2>8. Seen(scan) = ToSet(scan.found) \cup {Find(p)}
    BY <1>1, <2>1 DEF Seen
  <2>9. scan'.quiet => Seen(scan)' = {Find(q) : q \in OnDisk(disk) \ scan.left}'
    BY <1>1, <2>4, <2>7, <2>8 DEF ScanIsSound, Find
  <2>10. QED
    BY <1>2, <2>4, <2>6, <2>9 DEF ScanIsSound
<1>5. QED
  BY <1>3, <1>4

-----------------------------------------------------------------------------
(* Publishing.                                                              *)

\* A tree that keeps the slots of the one before it is sealed under a version
\* nothing was sealed under.
LEMMA PublishIs ==
    ASSUME SealsAreSound, NEW next, TreeIsSound(next), Keeps(tree, next),
           next.version = tree.version + 1, Publish(next)
    PROVE  SealsAreSound' /\ Keeps(tree, tree') /\ TreeIsSound(tree')
<1>1. /\ tree' = next /\ envelope' = Envelope(next) /\ sealed' = sealed \cup {Envelope(next)}
      /\ feeds' = [w \in Watchers |-> IF Subscribed(w) THEN Envelope(next) ELSE feeds[w]]
  BY DEF Publish, SendToAll
<1>2. /\ TreeIsSound(tree) /\ OneTreePerVersion /\ feeds \in [Watchers -> {NoFrame, envelope}]
      /\ \A e \in sealed : Precedes(e, tree)
  BY DEF SealsAreSound
<1>3. /\ Len(tree.files) \in Nat /\ Len(next.files) \in Nat /\ tree.version \in Nat
      /\ DOMAIN next.files = 1..Len(next.files)
      /\ \A i \in 1..Len(tree.files) : i \in 1..Len(next.files) /\ next.index_of[i] = tree.index_of[i]
  BY <1>2, TreeIs DEF Keeps
<1>4. ASSUME NEW e \in sealed
      PROVE  Precedes(e, next) /\ e.version # next.version
  <2>1. Precedes(e, tree)
    BY <1>2
  <2>2. /\ e.version \in Nat /\ e.version <= tree.version /\ Len(e.files) \in Nat
        /\ DOMAIN e.files \subseteq 1..Len(tree.files)
        /\ \A i \in DOMAIN e.files : e.files[i].path \in {0, tree.index_of[i]}
    BY <2>1 DEF Precedes
  <2>3. e.version <= next.version /\ e.version # next.version
    BY <1>3, <2>2
  <2>4. /\ DOMAIN e.files \subseteq 1..Len(next.files)
        /\ \A i \in DOMAIN e.files : e.files[i].path \in {0, next.index_of[i]}
    BY <1>3, <2>2
  <2>5. QED
    BY <2>2, <2>3, <2>4 DEF Precedes
<1>5. PICK new : new = Envelope(next)
  OBVIOUS
<1>6. new.version = next.version /\ new.files = next.files
  BY <1>5 DEF Envelope
<1>7. Precedes(new, next)
  BY <1>3, <1>5, <1>6, ListedPaths DEF Precedes
<1>8. OneTreePerVersion'
  <2>1. \A a, b \in sealed : a.version = b.version => a = b
    BY <1>2 DEF OneTreePerVersion
  <2>2. sealed' = sealed \cup {new} /\ \A a \in sealed : a.version # new.version
    BY <1>1, <1>4, <1>5, <1>6
  <2>3. QED
    BY <2>1, <2>2 DEF OneTreePerVersion
<1>9. \A e \in sealed' : Precedes(e, tree')
  BY <1>1, <1>4, <1>5, <1>7
<1>10. feeds' \in [Watchers -> {NoFrame, envelope'}]
  <2>1. ASSUME NEW w \in Watchers
        PROVE  (IF Subscribed(w) THEN Envelope(next) ELSE feeds[w]) \in {NoFrame, envelope'}
    BY <1>1 DEF Subscribed
  <2>2. QED
    BY <1>1, <2>1
<1>11. QED
  BY <1>1, <1>5, <1>8, <1>9, <1>10 DEF SealsAreSound

(* A scan folded, sealed or put back keeps the invariant. *)
LEMMA UpdateKeeps ==
    ASSUME ProducerInv, Update
    PROVE  ProducerInv'
<1>1. DiskIsSound /\ ScanIsSound /\ SealsAreSound /\ RowsAreSound /\ TasksAreSound
  BY DEF ProducerInv
<1>2. scan' = Resting /\ UNCHANGED <<disk, tableVars, task>>
  BY DEF Update, diskVars
<1>3. SealsAreSound' /\ Keeps(tree, tree') /\ TreeIsSound(tree')
  <2>1. PICK next : next = Applied(tree, scan.found)
    OBVIOUS
  <2>2. UNCHANGED treeVars \/ (next # tree /\ Publish(next))
    BY <2>1 DEF Update
  <2>3. CASE UNCHANGED treeVars
    <3>1. UNCHANGED tree
      BY <2>3 DEF treeVars
    <3>2. QED
      BY <1>1, <2>3, <3>1, SealsStay, TreeKept
  <2>4. CASE next # tree /\ Publish(next)
    <3>1. TreeIsSound(tree) /\ scan.found \in Seq(Finds)
      BY <1>1 DEF SealsAreSound, ScanIsSound
    <3>2. TreeIsSound(next) /\ Keeps(tree, next) /\ next.version = tree.version + 1
      BY <2>1, <2>4, <3>1, AppliedIs
    <3>3. QED
      BY <1>1, <2>4, <3>2, PublishIs
  <2>5. QED
    BY <2>2, <2>3, <2>4
<1>4. DiskIsSound' /\ ScanIsSound'
  BY <1>1, <1>2, AtRest DEF DiskIsSound
<1>5. RowsAreSound' /\ TasksAreSound'
  BY <1>1, <1>2, <1>3, RowsStay, TasksStay
<1>6. QED
  BY <1>3, <1>4, <1>5 DEF ProducerInv

(* A watcher that comes keeps the invariant. *)
LEMMA SubscribeKeeps ==
    ASSUME ProducerInv, NEW w \in Watchers, Subscribe(w)
    PROVE  ProducerInv'
<1>1. DiskIsSound /\ ScanIsSound /\ SealsAreSound /\ RowsAreSound /\ TasksAreSound
  BY DEF ProducerInv
<1>2. UNCHANGED <<disk, scan, tree, envelope, sealed, tableVars, task>>
  BY DEF Subscribe, diskVars
<1>3. SealsAreSound'
  <2>1. feeds' \in [Watchers -> {NoFrame, envelope}]
    BY <1>1 DEF Subscribe, SealsAreSound
  <2>2. QED
    BY <1>1, <1>2, <2>1 DEF SealsAreSound, OneTreePerVersion
<1>4. DiskIsSound' /\ ScanIsSound'
  BY <1>1, <1>2, ScanStays DEF DiskIsSound
<1>5. RowsAreSound' /\ TasksAreSound'
  BY <1>1, <1>2, TreeKept, RowsStay, TasksStay
<1>6. QED
  BY <1>3, <1>4, <1>5 DEF ProducerInv

-----------------------------------------------------------------------------
(* Requests.                                                                *)

(* The end of the share keeps the invariant. *)
LEMMA StopKeeps ==
    ASSUME ProducerInv, Stop
    PROVE  ProducerInv'
<1>1. DiskIsSound /\ ScanIsSound /\ SealsAreSound /\ RowsAreSound /\ TasksAreSound
  BY DEF ProducerInv
<1>2. UNCHANGED <<disk, scan, tree, treeVars, tableVars>> /\ task' = [t \in Tasks |-> NoTask]
  BY DEF Stop, diskVars, treeVars
<1>3. Keeps(tree, tree') /\ TreeIsSound(tree')
  BY <1>1, <1>2, TreeKept
<1>4. TasksAreSound'
  <2>1. TaskIsSound(NoTask)'
    BY <1>1, <1>3, NoTaskIsSound, TaskStays
  <2>2. QED
    BY <1>2, <2>1 DEF TasksAreSound, TaskIsSound
<1>5. DiskIsSound' /\ ScanIsSound'
  BY <1>1, <1>2, ScanStays DEF DiskIsSound
<1>6. SealsAreSound' /\ RowsAreSound'
  BY <1>1, <1>2, <1>3, SealsStay, RowsStay
<1>7. QED
  BY <1>4, <1>5, <1>6 DEF ProducerInv

\* A request leaves the folder, the scan and the tree alone.
Requesting == UNCHANGED <<disk, scan, tree, treeVars>>

\* A request that does not write to the table is sound when it is.
LEMMA RequestKeeps ==
    ASSUME ProducerInv, Requesting, TasksAreSound', UNCHANGED tableVars \/ RowsAreSound'
    PROVE  ProducerInv'
<1>1. DiskIsSound /\ ScanIsSound /\ SealsAreSound /\ RowsAreSound
  BY DEF ProducerInv
<1>2. DiskIsSound' /\ ScanIsSound'
  BY <1>1, ScanStays DEF DiskIsSound, Requesting
<1>3. SealsAreSound' /\ RowsAreSound'
  BY <1>1, SealsStay, RowsStay, TreeKept DEF Requesting
<1>4. QED
  BY <1>2, <1>3 DEF ProducerInv

\* A request for a slot that is held starts.
LEMMA AskKeeps ==
    ASSUME ProducerInv, NEW t \in Tasks, Request(t)
    PROVE  ProducerInv'
<1>1. SealsAreSound /\ TasksAreSound
  BY DEF ProducerInv
<1>2. Requesting /\ UNCHANGED tableVars /\ UNCHANGED tree
  BY DEF Request, AskRead, AskMap, AskChunk, Requesting, diskVars, treeVars
<1>3. ASSUME NEW i, Held(i)
      PROVE  i \in 1..Len(tree.files) /\ Behind(i).path \in Paths
  BY <1>1, <1>3, TreeIs DEF Held, SealsAreSound, Behind, NoTask
<1>4. \E step : TaskIsSound(step) /\ Now(t, step)
  <2>1. CASE AskRead(t)
    <3>1. PICK i \in DOMAIN tree.slots :
              Now(t, [Behind(i) EXCEPT !.op = "read", !.phase = "reading", !.position = 1])
      BY <2>1 DEF AskRead
    <3>2. TaskIsSound([Behind(i) EXCEPT !.op = "read", !.phase = "reading", !.position = 1])
      BY DEF TaskIsSound, Behind, NoTask
    <3>3. QED
      BY <3>1, <3>2
  <2>2. CASE AskMap(t)
    <3>1. PICK i \in DOMAIN tree.slots :
              /\ Held(i)
              /\ \/ Now(t, [Behind(i) EXCEPT !.op = "map", !.phase = "sizing"])
                 \/ \E r : Now(t, [Behind(i) EXCEPT !.op = "have", !.phase = "sizing", !.want = r])
      BY <2>2 DEF AskMap
    <3>2. i \in 1..Len(tree.files) /\ Behind(i).path \in Paths
      BY <1>3, <3>1
    <3>3. TaskIsSound([Behind(i) EXCEPT !.op = "map", !.phase = "sizing"])
      BY <3>2 DEF TaskIsSound, Behind, NoTask
    <3>4. \A r : TaskIsSound([Behind(i) EXCEPT !.op = "have", !.phase = "sizing", !.want = r])
      BY <3>2 DEF TaskIsSound, Behind, NoTask
    <3>5. QED
      BY <3>1, <3>3, <3>4
  <2>3. CASE AskChunk(t)
    <3>1. PICK a \in DOMAIN byChunk :
              Now(t, [Behind(byChunk[a].slot) EXCEPT
                        !.op = "chunk", !.phase = "fetching", !.address = a,
                        !.position = byChunk[a].at])
      BY <2>3 DEF AskChunk
    <3>2. TaskIsSound([Behind(byChunk[a].slot) EXCEPT
                        !.op = "chunk", !.phase = "fetching", !.address = a,
                        !.position = byChunk[a].at])
      BY DEF TaskIsSound, Behind, NoTask
    <3>3. QED
      BY <3>1, <3>2
  <2>4. QED
    BY <2>1, <2>2, <2>3 DEF Request
<1>5. TasksAreSound'
  BY <1>1, <1>2, <1>4, OneTask
<1>6. QED
  BY <1>2, <1>5, RequestKeeps

(* A request's read of its slot keeps the invariant. *)
LEMMA ReadKeeps ==
    ASSUME ProducerInv, NEW t \in Tasks, Read(t)
    PROVE  ProducerInv'
<1>1. SealsAreSound /\ TasksAreSound /\ TaskIsSound(task[t])
  BY DEF ProducerInv, TasksAreSound
<1>2. Requesting /\ UNCHANGED tableVars /\ UNCHANGED tree
  BY DEF Read, Requesting, diskVars, treeVars
<1>3. task[t].phase \in {"reading", "rereading"} /\ task[t].op = "read"
  BY <1>1 DEF Read, TaskIsSound
<1> DEFINE step == [task[t] EXCEPT !.phase = "rereading", !.source = tree.slots[task[t].index]]
<1>4. (\E answer : Answer(t, answer)) \/ Now(t, step)
  BY DEF Read
<1>5. CASE \E answer : Answer(t, answer)
  <2>1. TasksAreSound'
    BY <1>1, <1>2, <1>3, <1>5, AnswerIs
  <2>2. QED
    BY <1>2, <2>1, RequestKeeps
<1>6. CASE Now(t, step)
  <2>1. TaskIsSound(step)
    BY <1>1, <1>3 DEF TaskIsSound, NoTask
  <2> HIDE DEF step
  <2>2. TasksAreSound'
    BY <1>1, <1>2, <1>6, <2>1, OneTask
  <2>3. QED
    BY <1>2, <2>2, RequestKeeps
<1>7. QED
  BY <1>4, <1>5, <1>6

(* A request that learns its file's size keeps the invariant. *)
LEMMA SizeKeeps ==
    ASSUME ProducerInv, NEW t \in Tasks, Size(t)
    PROVE  ProducerInv'
<1>1. SealsAreSound /\ TasksAreSound /\ TaskIsSound(task[t])
  BY DEF ProducerInv, TasksAreSound
<1>2. Requesting /\ UNCHANGED tableVars /\ UNCHANGED tree
  BY DEF Size, Requesting, diskVars, treeVars
<1>3. task[t].phase = "sizing" /\ task[t].op \in {"map", "have"}
  BY <1>1 DEF Size, TaskIsSound
<1>4. (\E answer : Answer(t, answer)) \/
      (\E size : Now(t, [task[t] EXCEPT !.phase = "building", !.size = size]))
  BY DEF Size
<1>5. CASE \E answer : Answer(t, answer)
  <2>1. TasksAreSound'
    BY <1>1, <1>2, <1>3, <1>5, AnswerIs
  <2>2. QED
    BY <1>2, <2>1, RequestKeeps
<1>6. CASE \E size : Now(t, [task[t] EXCEPT !.phase = "building", !.size = size])
  <2>1. PICK size : Now(t, [task[t] EXCEPT !.phase = "building", !.size = size])
    BY <1>6
  <2>2. PICK step : step = [task[t] EXCEPT !.phase = "building", !.size = size]
    OBVIOUS
  <2>3. TaskIsSound(step)
    BY <1>1, <1>3, <2>2 DEF TaskIsSound, NoTask
  <2>4. TasksAreSound'
    BY <1>1, <1>2, <2>1, <2>2, <2>3, OneTask
  <2>5. QED
    BY <1>2, <2>4, RequestKeeps
<1>7. QED
  BY <1>4, <1>5, <1>6

\* The tab's table, and the one a request leaves.
LEMMA TableIs == Agrees(Table) <=> TableIsCoherent
BY DEF Agrees, Table, TableIsCoherent

(* A table whose maps agree, over slots of the tree, is sound. *)
LEMMA SetTableIs ==
    ASSUME NEW table, Agrees(table), SetTable(table), UNCHANGED tree,
           DOMAIN table.rows \subseteq 1..Len(tree.files)
    PROVE  RowsAreSound'
BY DEF Agrees, SetTable, RowsAreSound, TableIsCoherent

(* A row that is built and put into the table keeps the invariant. *)
LEMMA BuildKeeps ==
    ASSUME ProducerInv, NEW t \in Tasks, Build(t)
    PROVE  ProducerInv'
<1>1. DiskIsSound /\ SealsAreSound /\ RowsAreSound /\ TasksAreSound /\ TaskIsSound(task[t])
  BY DEF ProducerInv, TasksAreSound
<1>2. Requesting /\ UNCHANGED tree
  BY DEF Build, Requesting, diskVars, treeVars
<1>3. /\ task[t].phase = "building" /\ task[t].op \in {"map", "have"}
      /\ task[t].index \in 1..Len(tree.files) /\ task[t].path \in Paths
      /\ task[t].built \in Seq(Nat)
  BY <1>1 DEF Build, TaskIsSound
<1>4. PICK piece : piece = Bytes(task[t].source, task[t].path, Len(task[t].built) + 1)
  OBVIOUS
<1>5. PICK row : row = task[t].built \o piece
  OBVIOUS
<1>6. row \in Seq(Nat)
  <2>1. piece = << >> \/ \E c \in Nat : piece = <<c>>
    BY <1>1, <1>3, <1>4, BytesIs
  <2>2. << >> \in Seq(Nat) /\ \A c \in Nat : <<c>> \in Seq(Nat)
    OBVIOUS
  <2>3. piece \in Seq(Nat)
    BY <2>1, <2>2
  <2>4. QED
    BY <1>3, <1>5, <2>3, ConcatProperties
<1>7. \/ (\E answer : Answer(t, answer)) /\ UNCHANGED tableVars
      \/ Now(t, [task[t] EXCEPT !.built = row]) /\ UNCHANGED tableVars
      \/ (\E answer : Answer(t, answer)) /\ SetTable(Insert(Table, task[t].index, row))
  BY <1>4, <1>5 DEF Build
<1>8. (\E answer : Answer(t, answer)) => TasksAreSound'
  BY <1>1, <1>2, <1>3, AnswerIs
<1>9. CASE (\E answer : Answer(t, answer)) /\ UNCHANGED tableVars
  BY <1>2, <1>8, <1>9, RequestKeeps
<1>10. CASE Now(t, [task[t] EXCEPT !.built = row]) /\ UNCHANGED tableVars
  <2>1. PICK step : step = [task[t] EXCEPT !.built = row]
    OBVIOUS
  <2>2. TaskIsSound(step)
    BY <1>1, <1>3, <1>6, <2>1 DEF TaskIsSound, NoTask
  <2>3. TasksAreSound'
    BY <1>1, <1>2, <1>10, <2>1, <2>2, OneTask
  <2>4. QED
    BY <1>2, <1>10, <2>3, RequestKeeps
<1>11. CASE (\E answer : Answer(t, answer)) /\ SetTable(Insert(Table, task[t].index, row))
  <2>1. PICK table : table = Insert(Table, task[t].index, row)
    OBVIOUS
  <2>2. Agrees(Table) /\ DOMAIN Table.rows \subseteq 1..Len(tree.files)
    BY <1>1, TableIs DEF RowsAreSound, Table
  <2>3. Agrees(table) /\ DOMAIN table.rows = DOMAIN Table.rows \cup {task[t].index}
    BY <1>6, <2>1, <2>2, InsertIs
  <2>4. DOMAIN table.rows \subseteq 1..Len(tree.files)
    BY <1>3, <2>2, <2>3
  <2>5. RowsAreSound'
    BY <1>2, <1>11, <2>1, <2>3, <2>4, SetTableIs
  <2>6. QED
    BY <1>2, <1>8, <1>11, <2>5, RequestKeeps
<1>12. QED
  BY <1>7, <1>9, <1>10, <1>11

(* A chunk fetched by its address keeps the invariant. *)
LEMMA FetchKeeps ==
    ASSUME ProducerInv, NEW t \in Tasks, Fetch(t)
    PROVE  ProducerInv'
<1>1. SealsAreSound /\ RowsAreSound /\ TasksAreSound /\ TaskIsSound(task[t])
  BY DEF ProducerInv, TasksAreSound
<1>2. Requesting /\ UNCHANGED tree
  BY DEF Fetch, Requesting, diskVars, treeVars
<1>3. /\ \E answer \in {<< >>, <<task[t].address>>} : Answer(t, answer)
      /\ UNCHANGED tableVars \/ SetTable(Forget(Table, task[t].index))
  BY DEF Fetch, Bytes
<1>4. TasksAreSound'
  BY <1>1, <1>2, <1>3, AnswerIs
<1>5. CASE UNCHANGED tableVars
  BY <1>2, <1>4, <1>5, RequestKeeps
<1>6. CASE SetTable(Forget(Table, task[t].index))
  <2>1. PICK table : table = Forget(Table, task[t].index)
    OBVIOUS
  <2>2. Agrees(Table) /\ DOMAIN Table.rows \subseteq 1..Len(tree.files)
    BY <1>1, TableIs DEF RowsAreSound, Table
  <2>3. Agrees(table) /\ DOMAIN table.rows = DOMAIN Table.rows \ {task[t].index}
    BY <2>1, <2>2, ForgetIs
  <2>4. DOMAIN table.rows \subseteq 1..Len(tree.files)
    BY <2>2, <2>3
  <2>5. RowsAreSound'
    BY <1>2, <1>6, <2>1, <2>3, <2>4, SetTableIs
  <2>6. QED
    BY <1>2, <1>4, <2>5, RequestKeeps
<1>7. QED
  BY <1>3, <1>5, <1>6

-----------------------------------------------------------------------------

(* The invariant holds of a share that has just begun. *)
LEMMA InitHolds ==
    ASSUME Init
    PROVE  ProducerInv
<1>1. DiskIsSound /\ OnDisk(disk) = Picked
  BY DEF Init, DiskIsSound, Files
<1>2. PICK paths \in SetToSeqs(Picked) : tree = NewState(ListingOf(disk, paths))
  BY DEF Init
<1>3. PICK n \in Nat : n = Cardinality(Picked)
  BY WebProducerAssumption, FS_CardinalityType DEF WebProducerAssumption
<1>4. /\ DOMAIN paths = 1..n
      /\ \A i \in 1..n : paths[i] \in Picked
      /\ \A i, j \in 1..n : i # j => paths[i] # paths[j]
  BY <1>2, <1>3 DEF SetToSeqs
<1>5. \A i \in 1..n : paths[i] \in Paths /\ disk[paths[i]] \in Files
  BY <1>1, <1>4 DEF DiskIsSound, OnDisk, Absent
<1>6. PICK files : files = [i \in 1..n |-> Entry(paths[i], disk[paths[i]])]
  OBVIOUS
<1>7. PICK slots : slots = [i \in 1..n |-> disk[paths[i]]]
  OBVIOUS
<1>8. PICK index : index = [i \in 1..n |-> Entry(paths[i], disk[paths[i]]).path]
  OBVIOUS
<1>9. \A i \in 1..n : Entry(paths[i], disk[paths[i]]) \in Entries /\ index[i] = paths[i]
  BY <1>5, <1>8, EntryIs
<1>10. /\ files \in [1..n -> Entries] /\ slots \in [1..n -> Files \cup {Absent}]
       /\ index \in [1..n -> Paths]
  BY <1>5, <1>6, <1>7, <1>8, <1>9
<1>11. /\ files \in Seq(Entries) /\ Len(files) = n
       /\ slots \in Seq(Files \cup {Absent}) /\ Len(slots) = n
       /\ index \in Seq(Paths) /\ Len(index) = n
  BY <1>10, TupleIsSeq
<1>12. tree = [files |-> files, slots |-> slots, index_of |-> index, version |-> 1]
  BY <1>2, <1>4, <1>6, <1>7, <1>8 DEF NewState, ListingOf
<1>13. TreeIsSound(tree)
  <2>1. tree \in Trees
    BY <1>11, <1>12 DEF Trees
  <2>2. \A i \in 1..n : SlotIsSound(tree, i)
    BY <1>5, <1>6, <1>7, <1>9, <1>12 DEF SlotIsSound
  <2>3. \A i, j \in 1..n : index[i] = index[j] => i = j
    BY <1>4, <1>9
  <2>4. QED
    BY <1>11, <1>12, <2>1, <2>2, <2>3 DEF TreeIsSound
<1>14. Precedes(Envelope(tree), tree)
  <2>1. Envelope(tree).version = tree.version /\ Envelope(tree).files = tree.files
    BY DEF Envelope
  <2>2. QED
    BY <1>13, <2>1, TreeIs, ListedPaths DEF Precedes
<1>15. SealsAreSound
  <2>1. envelope = Envelope(tree) /\ sealed = {envelope} /\ feeds = [w \in Watchers |-> NoFrame]
    BY DEF Init
  <2>2. OneTreePerVersion
    BY <2>1 DEF OneTreePerVersion
  <2>3. QED
    BY <1>13, <1>14, <2>1, <2>2 DEF SealsAreSound
<1>16. RowsAreSound
  BY DEF Init, RowsAreSound, TableIsCoherent
<1>17. TasksAreSound
  BY NoTaskIsSound DEF Init, TasksAreSound
<1>18. ScanIsSound
  <2>1. scan = Resting /\ << >> \in Seq(Finds)
    BY DEF Init
  <2>2. QED
    BY <2>1 DEF ScanIsSound, Resting
<1>19. QED
  BY <1>1, <1>15, <1>16, <1>17, <1>18 DEF ProducerInv

(* Every step keeps the invariant. *)
LEMMA NextKeeps ==
    ASSUME ProducerInv, [Next]_vars
    PROVE  ProducerInv'
<1>1. DiskIsSound /\ ScanIsSound /\ SealsAreSound /\ RowsAreSound /\ TasksAreSound
  BY DEF ProducerInv
<1>2. ASSUME StartScan \/ Walk \/ GetFile  PROVE ProducerInv'
  <2>1. UNCHANGED <<disk, tree, treeVars, tableVars, task>>
    BY <1>2 DEF StartScan, Walk, GetFile, diskVars, treeVars
  <2>2. ScanIsSound'
    BY <1>1, <1>2, StartScanIs, WalkIs, GetFileIs
  <2>3. DiskIsSound'
    BY <1>1, <2>1 DEF DiskIsSound
  <2>4. SealsAreSound' /\ RowsAreSound' /\ TasksAreSound'
    BY <1>1, <2>1, SealsStay, RowsStay, TasksStay, TreeKept
  <2>5. QED
    BY <2>2, <2>3, <2>4 DEF ProducerInv
<1>3. CASE UNCHANGED vars
  <2>1. UNCHANGED <<disk, scan, tree, treeVars, tableVars, task>>
    BY <1>3 DEF vars, diskVars, treeVars
  <2>2. TasksAreSound'
    BY <1>1, <2>1, TasksStay, TreeKept
  <2>3. QED
    BY <2>1, <2>2, RequestKeeps DEF Requesting
<1>4. CASE Next
  <2>1. CASE Edit \/ Rescan \/ Stop
    BY <1>2, <2>1, EditKeeps, UpdateKeeps, StopKeeps DEF Rescan
  <2>2. CASE \E w \in Watchers : Subscribe(w)
    BY <2>2, SubscribeKeeps
  <2>3. CASE \E t \in Tasks : Request(t) \/ Serve(t)
    BY <2>3, AskKeeps, ReadKeeps, SizeKeeps, BuildKeeps, FetchKeeps DEF Serve
  <2>4. QED
    BY <1>4, <2>1, <2>2, <2>3 DEF Next
<1>5. QED
  BY <1>3, <1>4

-----------------------------------------------------------------------------

\* However scans, edits, subscriptions and requests overlap: every envelope ever
\* signed lists slots the tree still has, under the same paths; a scan of a folder
\* that held still has seen what it passed; and the chunk table agrees with itself.
THEOREM ProducerInvariant == Spec => []ProducerInv
<1>1. Init => ProducerInv
  BY InitHolds
<1>2. ProducerInv /\ [Next]_vars => ProducerInv'
  BY NextKeeps
<1> QED
  BY <1>1, <1>2, PTL DEF Spec

\* What the creator's key signed under one version is one tree, and in whatever
\* versions a slot names one path.  LiveState::apply and ShareProducer::update.
THEOREM SignaturesAgree == Spec => []SignedTreesAgree
<1>1. ProducerInv => SignedTreesAgree
  <2> SUFFICES ASSUME ProducerInv  PROVE SignedTreesAgree
    OBVIOUS
  <2>1. TreeIsSound(tree) /\ OneTreePerVersion /\ \A e \in sealed : Precedes(e, tree)
    BY DEF ProducerInv, SealsAreSound
  <2>2. SlotsNameOnePath
    BY <2>1 DEF SlotsNameOnePath, Precedes
  <2>3. QED
    BY <2>1, <2>2 DEF SignedTreesAgree
<1> QED
  BY <1>1, ProducerInvariant, PTL

\* No watcher is left behind the tree being served: the subscription's opening
\* frame and each update's go out before anything else runs.
THEOREM WatchersAreCurrent == Spec => []WatchersHoldTheLatest
<1>1. ProducerInv => WatchersHoldTheLatest
  BY DEF ProducerInv, SealsAreSound, WatchersHoldTheLatest, Subscribed
<1> QED
  BY <1>1, ProducerInvariant, PTL

\* Whatever rows requests build and forget, an address leads to a place in a row
\* that has it, and the bytes sent for it are its own.  ChunkTable, producer_chunk.
THEOREM ChunksStayTrue == Spec => []ChunksAreTrue
<1>1. ProducerInv => ChunksAreTrue
  <2> SUFFICES ASSUME ProducerInv  PROVE ChunksAreTrue
    OBVIOUS
  <2>1. TreeIsSound(tree) /\ RowsAreSound /\ ScanIsSound /\ TasksAreSound
    BY DEF ProducerInv, SealsAreSound
  <2>2. /\ Len(tree.files) = Len(tree.slots) /\ Len(tree.files) = Len(tree.index_of)
        /\ DOMAIN tree.files = 1..Len(tree.files)
    BY <2>1, TreeIs DEF TreeIsSound
  <2>3. WebProducerTypeOK
    BY <2>1, <2>2, ListedPaths DEF WebProducerTypeOK, RowsAreSound, ScanIsSound
  <2>4. ChunksMatchTheirAddress
    BY <2>1 DEF ChunksMatchTheirAddress, TasksAreSound, TaskIsSound
  <2>5. QED
    BY <2>1, <2>3, <2>4 DEF ChunksAreTrue, RowsAreSound
<1> QED
  BY <1>1, ProducerInvariant, PTL

\* The rescan that ends after a folder held still lists what is in it, unless
\* that no longer fits the cap.  scanDirectory and ShareProducer::update.
THEOREM QuietScansAreTrue == Spec => QuietScansPublish
<1> DEFINE quiet == /\ scan.phase = "walking" /\ scan.left = {} /\ scan.quiet /\ ~stopped
                    /\ scan' = Resting
           true == \/ Listed' = Published(disk)
                   \/ Cardinality(ToSet(tree.index_of) \cup OnDisk(disk)) > MaxManifest
<1>1. ASSUME ProducerInv, [Next]_vars, quiet  PROVE true
  <2>1. DiskIsSound /\ ScanIsSound /\ SealsAreSound
    BY <1>1 DEF ProducerInv
  <2>2. Update
    <3>1. scan'.phase # scan.phase /\ scan.left = {} /\ scan.phase = "walking"
      BY <1>1 DEF Resting
    <3>2. DOMAIN scan = DOMAIN Resting
      BY <2>1 DEF ScanIsSound
    <3>3. ~Edit
      BY <3>1, <3>2 DEF Edit, Resting
    <3>4. QED
      BY <1>1, <3>1, <3>3
         DEF vars, Next, Rescan, StartScan, Walk, GetFile, Stop, Subscribe, Request, Serve,
             AskRead, AskMap, AskChunk, Read, Size, Build, Fetch
  <2>3. PICK found : found = scan.found /\ found \in Seq(Finds)
    BY <2>1 DEF ScanIsSound
  <2>4. PICK next : next = Applied(tree, found)
    OBVIOUS
  <2>5. TreeIsSound(tree)
    BY <2>1 DEF SealsAreSound
  <2>6. /\ TreeIsSound(next)
        /\ next = tree \/ ToSet(next.index_of) = ToSet(tree.index_of) \cup PathsOf(found)
        /\ Coherent(found) => ToSet(next.files) \ {Tombstone} = Says(found)
    BY <2>3, <2>4, <2>5, AppliedIs
  <2>7. {found[k] : k \in 1..Len(found)} = {Find(p) : p \in OnDisk(disk)}
    <3>1. ToSet(found) = {Find(p) : p \in OnDisk(disk)}
      BY <1>1, <2>1, <2>3 DEF ScanIsSound, Seen
    <3>2. QED
      BY <2>3, <3>1, LenProperties DEF ToSet
  <2>8. \A p \in OnDisk(disk) :
           Find(p).entry = Entry(p, disk[p]) /\ Find(p).entry.path = p
    BY <2>1, EntryIs DEF DiskIsSound, OnDisk, Absent, Find
  <2>9. \A k \in 1..Len(found) : \E p \in OnDisk(disk) : found[k] = Find(p)
    BY <2>7
  <2>10. \A p \in OnDisk(disk) : \E k \in 1..Len(found) : found[k] = Find(p)
    BY <2>7
  <2>11. Coherent(found)
    BY <2>8, <2>9 DEF Coherent
  <2>12. Says(found) = Published(disk)
    BY <2>8, <2>9, <2>10 DEF Says, Published
  <2>13. PathsOf(found) = OnDisk(disk)
    BY <2>8, <2>9, <2>10 DEF PathsOf
  <2>14. CASE next = tree
    <3>1. tree' = tree
      BY <2>2, <2>3, <2>4, <2>14 DEF Update, treeVars
    <3>2. QED
      BY <2>6, <2>11, <2>12, <2>14, <3>1 DEF Listed
  <2>15. CASE next # tree /\ Len(next.files) > MaxManifest
    <3>1. Cardinality(ToSet(next.index_of)) = Len(next.files)
      BY <2>6, SlotsAreCounted
    <3>2. QED
      BY <2>6, <2>13, <2>15, <3>1
  <2>16. CASE next # tree /\ ~ (Len(next.files) > MaxManifest)
    <3>1. tree' = next
      BY <1>1, <2>2, <2>3, <2>4, <2>16 DEF Update, Publish
    <3>2. QED
      BY <2>6, <2>11, <2>12, <3>1 DEF Listed
  <2>17. QED
    BY <2>14, <2>15, <2>16
<1>2. ProducerInv /\ [Next]_vars => [quiet => true]_vars
  BY <1>1
<1>3. QED
  BY <1>2, ProducerInvariant, PTL DEF Spec, QuietScansPublish
===============================================================================
