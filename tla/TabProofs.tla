------------------------------ MODULE TabProofs ------------------------------
(***************************************************************************)
(* Theorems of Tab, for any slots and chunks, any first tree and any       *)
(* number of calls, edits, reloads and evictions: what a tab's card claims *)
(* is what it has, and a reload finds what was synced and persisted.       *)
(***************************************************************************)
EXTENDS Tab, TLAPS, SequenceTheorems, WellFoundedInduction

Contents == 0..MaxUpsets + 1
Rows == [Slots -> Contents]

\* The trees published: an edit counts one file's content up by one.
LogIsSound ==
    /\ upsets \in 0..MaxUpsets
    /\ log \in Seq(Rows) /\ Len(log) \in 1..upsets + 1
    /\ \A i \in 1..Len(log), s \in Slots : log[i][s] <= i /\ log[i][s] <= Latest[s]

VersionsAreKnown ==
    /\ believed \in 1..Len(log) /\ lastTree \in 1..Len(log)
    /\ prefetched \in 0..Len(log) /\ fed \in 0..Len(log)
    /\ envelope \in 0..Len(log) /\ locator \in 0..Len(log)

\* A row that is known was the producer's, and until an eviction the store has it.
RowsAreKnown(r) ==
    /\ r \in Rows
    /\ \A s \in Slots :
        /\ r[s] <= Latest[s]
        /\ ~evicted /\ r[s] # 0 => <<s, r[s]>> \in disk.maps

Stages ==
    [refresh |-> {"idle", "fetch", "answered", "fetched", "found", "persist", "locate", "count", "publish"},
     sync |-> {"idle", "fetch", "answered", "fetched", "row", "asked", "known", "chunks", "bind",
               "persist", "locate", "count", "publish"},
     keep |-> {"idle", "row", "asked", "known", "bind"},
     publish |-> {"idle", "fetch", "answered", "fetched", "count", "publish"},
     update |-> {"idle", "fetch", "answered", "fetched", "count", "publish"}]

Anywhere ==
    {"idle", "fetch", "answered", "fetched", "found", "row", "asked", "known", "chunks", "bind",
     "persist", "locate", "count", "publish"}

TaskState ==
    [pc : Anywhere, v : Nat, slot : Slots \cup {0}, row : Contents,
     todo : SUBSET Slots, parts : SUBSET Parts, content : Contents, rows : Rows]

WithRow == {"asked", "known", "chunks", "bind"}
OnFile == {"row"} \cup WithRow
Storing == {"found", "persist", "locate"} \cup OnFile

\* What a task of the tab knows where it is.  Until an eviction the store has what
\* the task has put there: the row it works under, the chunks it need not fetch
\* any more, the manifest its locator will name.
TaskIsSound(t, k) ==
    /\ k \in TaskState /\ k.pc \in Stages[t] /\ RowsAreKnown(k.rows)
    /\ t # "keep" /\ k.pc \notin {"idle", "fetch"} => k.v \in 1..Len(log)
    /\ k.pc \in Storing => disk.opened
    /\ k.pc \in OnFile => k.slot \in Slots /\ Latest[k.slot] # 0
    /\ k.pc \in WithRow => k.row \in 1..Latest[k.slot]
    /\ t = "sync" /\ k.pc \in OnFile => k.slot \in Listed(k.v) /\ k.todo \subseteq Listed(k.v)
    /\ ~evicted =>
        /\ k.pc \in {"known", "chunks", "bind"} => <<k.slot, k.row>> \in disk.maps
        /\ k.pc = "chunks" => \A p \in Parts \ k.parts : <<k.slot, k.row, p>> \in disk.chunks
        /\ t = "sync" /\ k.pc = "bind" => Leaves(k.slot, k.row) \subseteq disk.chunks
        /\ k.pc = "locate" => k.v \in disk.manifests

TasksAreSound == \A t \in Tasks : TaskIsSound(t, tasks[t])

DiskState ==
    [opened : BOOLEAN, chunks : SUBSET (Slots \X Contents \X Parts), maps : SUBSET (Slots \X Contents),
     binds : SUBSET [id : Slots \X Contents, row : Contents], manifests : SUBSET (1..Len(log))]

\* What the storage holds: binds lead to rows that are there, and what was synced
\* leads to a bind.  Before the first edit a file has one content, so a bind that
\* replaces another leads to the same chunks.
DiskIsSound ==
    /\ disk \in DiskState /\ synced \subseteq Slots \X Contents
    /\ \A b \in disk.binds : b.row \in 1..Latest[b.id[1]]
    /\ locator # 0 => disk.opened
    /\ ~evicted =>
        /\ \A b \in disk.binds : <<b.id[1], b.row>> \in disk.maps
        /\ locator # 0 => locator \in disk.manifests
        /\ \A id \in synced : \E b \in disk.binds : b.id = id
        /\ Len(log) = 1 =>
            \A id \in synced : Leaves(id[1], 1) \subseteq disk.chunks

HasContent(s) == \E row \in 1..MaxUpsets + 1 : Leaves(s, row) \subseteq disk.chunks

\* The card, here and on the mesh.
CardIsSound ==
    /\ joined \in BOOLEAN /\ published \in [tree : 0..Len(log), slots : SUBSET Slots]
    /\ card \subseteq Slots /\ holes \in Seq(Slots)
    /\ lost.pc \in {"unwatched", "waiting", "asking"}
    /\ ~evicted => \A s \in card \cup published.slots : HasContent(s)

\* A tab whose tasks wait for the mesh tells it of each change of its card.
CardIsTold ==
    ~LateJoin =>
        /\ joined /\ (\A t \in Tasks : tasks[t].pc # "publish") => published.slots = card
        /\ ~joined =>
            /\ card = {} /\ published.slots = {} /\ lost.pc = "unwatched"
            /\ \A t \in Tasks : tasks[t].pc # "publish"

SeederIsSound ==
    /\ seeder = [armed |-> seeder.armed, rows |-> seeder.rows, scope |-> seeder.scope]
    /\ seeder.armed \in BOOLEAN /\ seeder.rows \in Rows

TabInv ==
    /\ evicted \in BOOLEAN
    /\ tasks = [t \in Tasks |-> tasks[t]]
    /\ bound \in Rows
    /\ LogIsSound /\ VersionsAreKnown /\ RowsAreKnown(rows) /\ SeederIsSound
    /\ TasksAreSound /\ DiskIsSound /\ CardIsSound /\ CardIsTold

-----------------------------------------------------------------------------
(* Numbers, versions and rows.                                              *)

(* The least of some numbers is one of them.                                *)
LEMMA MinIs ==
    ASSUME NEW numbers, numbers \subseteq Nat, numbers # {}
    PROVE  Min(numbers) \in numbers
<1>1. PICK n \in numbers : \A m \in numbers : ~ (<<m, n>> \in OpToRel(<, Nat))
  <2>1. numbers \subseteq Nat
    OBVIOUS
  <2> QED
    BY <2>1, NatLessThanWellFounded, WFMin
<1>2. \A m \in numbers : n =< m
  <2>1. \A m \in numbers : ~ (m < n)
    BY <1>1 DEF OpToRel
  <2> QED
    BY <2>1
<1> QED
  BY <1>2 DEF Min

(* What the trees say of one another, with their types.                     *)
LEMMA LogIs ==
    ASSUME TabInv
    PROVE  /\ Len(log) \in Nat \ {0} /\ Len(log) \in 1..Len(log) /\ Len(log) <= MaxUpsets + 1
           /\ \A v \in 1..Len(log), s \in Slots :
                /\ log[v][s] \in Nat /\ log[v][s] <= v /\ log[v][s] <= Latest[s]
           /\ \A s \in Slots : Latest[s] \in Nat /\ Latest[s] <= Len(log) /\ Latest[s] \in Contents
<1>1. Len(log) \in Nat \ {0} /\ Len(log) \in 1..Len(log) /\ Len(log) <= MaxUpsets + 1
  BY TabAssumption DEF TabInv, LogIsSound, TabAssumption
<1>2. \A v \in 1..Len(log) : log[v] \in Rows
  BY <1>1, ElementOfSeq DEF TabInv, LogIsSound
<1> QED
  BY <1>1, <1>2 DEF TabInv, LogIsSound, Latest, Rows, Contents

\* What no step but a reload of the page undoes.
WorldGrows ==
    /\ Len(log') \in Nat /\ Len(log) <= Len(log') /\ \A v \in 1..Len(log) : log'[v] = log[v]
    /\ \A s \in Slots : Latest[s] <= Latest'[s] /\ Latest[s] \in Nat /\ Latest'[s] \in Nat
    /\ evicted => evicted'
    /\ disk.opened => disk.opened'
    /\ ~evicted' =>
        /\ disk.chunks \subseteq disk.chunks' /\ disk.maps \subseteq disk.maps'
        /\ disk.manifests \subseteq disk.manifests'

(* Rows that were known stay known.                                         *)
LEMMA RowsStay ==
    ASSUME TabInv, WorldGrows, NEW r, RowsAreKnown(r)
    PROVE  RowsAreKnown(r)'
BY DEF TabInv, WorldGrows, RowsAreKnown, Rows, Contents

(* A task that is where it was knows what it knew.                          *)
LEMMA TaskStays ==
    ASSUME TabInv, WorldGrows, NEW t \in Tasks, NEW k, TaskIsSound(t, k)
    PROVE  TaskIsSound(t, k)'
<1>1. Len(log) \in Nat /\ Len(log') \in Nat /\ Len(log) <= Len(log')
  BY LogIs DEF WorldGrows
<1>2. RowsAreKnown(k.rows)'
  BY RowsStay DEF TaskIsSound
<1>3. t # "keep" /\ k.pc \notin {"idle", "fetch"} => k.v \in 1..Len(log) /\ k.v \in 1..Len(log')
  BY <1>1 DEF TaskIsSound, WorldGrows, TabInv, LogIsSound
<1>4. k.pc \in OnFile => k.slot \in Slots /\ Latest'[k.slot] # 0
  BY DEF TaskIsSound, WorldGrows
<1>5. k.pc \in WithRow => k.row \in 1..Latest'[k.slot]
  <2>1. k.pc \in WithRow => k.slot \in Slots /\ k.row \in 1..Latest[k.slot]
    BY DEF TaskIsSound, OnFile
  <2> QED
    BY <2>1 DEF WorldGrows
<1>6. t = "sync" /\ k.pc \in OnFile => k.slot \in Listed(k.v)' /\ k.todo \subseteq Listed(k.v)'
  <2> SUFFICES ASSUME t = "sync", k.pc \in OnFile
               PROVE  k.slot \in Listed(k.v)' /\ k.todo \subseteq Listed(k.v)'
    OBVIOUS
  <2>1. k.v \in 1..Len(log)
    BY <1>3 DEF OnFile, WithRow
  <2>2. Listed(k.v)' = Listed(k.v)
    BY <2>1 DEF Listed, WorldGrows
  <2> QED
    BY <2>2 DEF TaskIsSound
<1>7. k.pc \in Storing => disk.opened'
  BY DEF TaskIsSound, WorldGrows
<1>8. ~evicted' =>
        /\ k.pc \in {"known", "chunks", "bind"} => <<k.slot, k.row>> \in disk.maps'
        /\ k.pc = "chunks" => \A p \in Parts \ k.parts : <<k.slot, k.row, p>> \in disk.chunks'
        /\ t = "sync" /\ k.pc = "bind" => Leaves(k.slot, k.row) \subseteq disk.chunks'
        /\ k.pc = "locate" => k.v \in disk.manifests'
  BY DEF TaskIsSound, WorldGrows
<1> QED
  BY <1>2, <1>3, <1>4, <1>5, <1>6, <1>7, <1>8 DEF TaskIsSound

(* One task takes a step; the others are where they were.                   *)
LEMMA OneTask ==
    ASSUME TabInv, WorldGrows, NEW t \in Tasks, NEW k, Go(t, k), TaskIsSound(t, k)'
    PROVE  TasksAreSound' /\ tasks' = [u \in Tasks |-> tasks'[u]]
<1>1. tasks = [u \in Tasks |-> tasks[u]] /\ tasks' = [tasks EXCEPT ![t] = k]
  BY DEF TabInv, Go
<1>2. ASSUME NEW u \in Tasks  PROVE TaskIsSound(u, tasks[u])'
  <2>1. PICK r : r = tasks'[u]
    OBVIOUS
  <2>2. TaskIsSound(u, r)'
    <3>1. CASE u = t
      BY <1>1, <2>1, <3>1
    <3>2. CASE u # t
      <4>1. TaskIsSound(u, r)
        BY <1>1, <2>1, <3>2 DEF TabInv, TasksAreSound
      <4> QED
        BY <4>1, TaskStays
    <3> QED
      BY <3>1, <3>2
  <2> QED
    BY <2>1, <2>2 DEF TaskIsSound
<1> QED
  BY <1>1, <1>2 DEF TasksAreSound

(* No task takes a step.                                                    *)
LEMMA NoTask ==
    ASSUME TabInv, WorldGrows, UNCHANGED tasks
    PROVE  TasksAreSound' /\ tasks' = [u \in Tasks |-> tasks'[u]]
<1>1. ASSUME NEW u \in Tasks  PROVE TaskIsSound(u, tasks[u])'
  <2>1. PICK r : r = tasks[u]
    OBVIOUS
  <2>2. TaskIsSound(u, r)'
    BY <2>1, TaskStays DEF TabInv, TasksAreSound
  <2> QED
    BY <2>1, <2>2 DEF TaskIsSound
<1> QED
  BY <1>1 DEF TabInv, TasksAreSound

\* The storage gains chunks and rows, of files and of manifests.
DiskGains ==
    /\ disk' \in DiskState /\ disk'.binds = disk.binds
    /\ disk.opened => disk'.opened
    /\ disk.chunks \subseteq disk'.chunks /\ disk.maps \subseteq disk'.maps
    /\ disk.manifests \subseteq disk'.manifests

(* A step that leaves the trees alone and only adds to the storage.         *)
LEMMA GainsGrow ==
    ASSUME TabInv, UNCHANGED <<log, evicted>>,
           disk.opened => disk'.opened, disk.chunks \subseteq disk'.chunks,
           disk.maps \subseteq disk'.maps, disk.manifests \subseteq disk'.manifests
    PROVE  WorldGrows /\ Latest' = Latest
BY LogIs DEF WorldGrows, Latest

\* A locator is written after its manifest.
LocatorIsBacked ==
    \/ UNCHANGED locator
    \/ locator' \in 1..Len(log) /\ disk'.opened /\ (~evicted => locator' \in disk'.manifests)

(* The storage with no new bind.                                            *)
LEMMA DiskStays ==
    ASSUME TabInv, UNCHANGED <<log, upsets, evicted, synced>>, DiskGains, LocatorIsBacked
    PROVE  DiskIsSound'
<1>1. DiskState' = DiskState /\ Latest' = Latest
  BY DEF DiskState, Latest
<1>2. ~evicted =>
        /\ \A b \in disk'.binds : <<b.id[1], b.row>> \in disk'.maps
        /\ \A id \in synced : \E b \in disk'.binds : b.id = id
        /\ Len(log) = 1 => \A id \in synced : Leaves(id[1], 1) \subseteq disk'.chunks
  BY DEF TabInv, DiskIsSound, DiskGains
<1>3. /\ locator' # 0 => disk'.opened
      /\ ~evicted /\ locator' # 0 => locator' \in disk'.manifests
  BY DEF TabInv, DiskIsSound, DiskGains, LocatorIsBacked
<1>4. \A b \in disk'.binds : b.row \in 1..Latest[b.id[1]]
  BY DEF TabInv, DiskIsSound, DiskGains
<1> QED
  BY <1>1, <1>2, <1>3, <1>4 DEF TabInv, DiskIsSound, DiskGains

(* The card and what is told of it, while nobody changes them.              *)
LEMMA CardStays ==
    ASSUME TabInv, WorldGrows, UNCHANGED <<joined, card, holes, lost>>,
           published' \in [tree : 0..Len(log'), slots : {published.slots}],
           \A t \in Tasks : tasks'[t].pc = "publish" <=> tasks[t].pc = "publish"
    PROVE  CardIsSound' /\ CardIsTold'
<1>1. published'.slots = published.slots /\ published.slots \subseteq Slots
  BY DEF TabInv, CardIsSound
<1>2. \A s \in Slots : ~evicted' /\ HasContent(s) => HasContent(s)'
  BY DEF HasContent, WorldGrows
<1>3. ~evicted' => \A s \in card \cup published.slots : HasContent(s)'
  BY <1>1, <1>2 DEF TabInv, CardIsSound, WorldGrows
<1> QED
  BY <1>1, <1>3 DEF TabInv, CardIsSound, CardIsTold

(* One task goes on, and neither ends a republish nor begins to.            *)
LEMMA Advances ==
    ASSUME TabInv, UNCHANGED <<log, upsets, evicted, synced, bound, joined, card, holes, lost>>,
           NEW v \in 0..Len(log), published' \in {published, [published EXCEPT !.tree = v]},
           VersionsAreKnown', DiskGains, LocatorIsBacked, RowsAreKnown(rows)', SeederIsSound',
           NEW t \in Tasks, NEW k, Go(t, k), TaskIsSound(t, k)',
           k.pc # "publish", tasks[t].pc # "publish"
    PROVE  TabInv'
<1>1. WorldGrows
  BY GainsGrow DEF DiskGains
<1>2. TasksAreSound' /\ tasks' = [u \in Tasks |-> tasks'[u]]
  BY <1>1, OneTask
<1>3. published' \in [tree : 0..Len(log'), slots : {published.slots}]
  BY DEF TabInv, CardIsSound
<1>4. tasks' = [tasks EXCEPT ![t] = k] /\ tasks = [u \in Tasks |-> tasks[u]]
  BY DEF TabInv, Go
<1>5. \A u \in Tasks : tasks'[u].pc = "publish" <=> tasks[u].pc = "publish"
  BY <1>4
<1>6. CardIsSound' /\ CardIsTold'
  BY <1>1, <1>3, <1>5, CardStays
<1>7. DiskIsSound'
  BY DiskStays
<1>8. LogIsSound' /\ bound' \in Rows /\ evicted' \in BOOLEAN
  BY DEF TabInv, LogIsSound, Latest
<1> QED
  BY <1>2, <1>6, <1>7, <1>8 DEF TabInv

(* The stages there are, and whose.                                         *)
LEMMA StagesAre ==
    /\ \A t \in Tasks : "idle" \in Stages[t]
    /\ \A t \in Tasks \ {"keep"} : {"fetch", "answered", "fetched", "count", "publish"} \subseteq Stages[t]
    /\ \A t \in Tasks, pc \in {"fetch", "answered", "fetched", "found", "persist", "locate", "count", "publish"} :
          pc \in Stages[t] => t # "keep"
    /\ \A t \in Tasks, pc \in {"found", "persist", "locate"} : pc \in Stages[t] => t \in {"refresh", "sync"}
    /\ \A t \in Tasks, pc \in OnFile : pc \in Stages[t] => t \in {"sync", "keep"}
    /\ \A pc \in {"persist", "locate"} : pc \in Stages["refresh"] /\ pc \in Stages["sync"]
    /\ "found" \in Stages["refresh"]
    /\ \A pc \in {"row", "asked", "known", "bind"} : pc \in Stages["sync"] /\ pc \in Stages["keep"]
    /\ "chunks" \in Stages["sync"]
BY DEF Stages, Tasks, OnFile, WithRow

(* No rows at all are known rows.                                           *)
LEMMA NoRowsAreKnown == ASSUME TabInv  PROVE RowsAreKnown(NoRows) /\ NoRows \in Rows
BY LogIs, TabAssumption DEF RowsAreKnown, NoRows, Rows, Contents, TabAssumption

(* A task that has nothing to do is sound.                                  *)
LEMMA IdleIsSound ==
    ASSUME TabInv, NEW t \in Tasks
    PROVE  TaskIsSound(t, Idle) /\ Idle \in TaskState /\ Idle.pc = "idle"
<1>1. 0 \in Contents
  BY TabAssumption DEF Contents, TabAssumption
<1> QED
  BY <1>1, StagesAre, NoRowsAreKnown DEF TaskIsSound, Idle, TaskState, Anywhere, Storing, OnFile, WithRow

(* One task, and what it is when it only thinks of a tree.                  *)
LEMMA TaskOf ==
    ASSUME TabInv, NEW t \in Tasks
    PROVE  TaskIsSound(t, tasks[t]) /\ tasks[t] \in TaskState /\ tasks[t].pc \in Stages[t]
BY DEF TabInv, TasksAreSound, TaskIsSound

(* A task that fetches a tree, or has one, is sound.                        *)
LEMMA FetchingIsSound ==
    ASSUME TabInv, NEW t \in Tasks \ {"keep"}, NEW pc \in {"fetch", "answered", "fetched"},
           NEW v \in Nat, pc # "fetch" => v \in 1..Len(log),
           NEW from, TaskIsSound(t, from)
    PROVE  TaskIsSound(t, [from EXCEPT !.pc = pc, !.v = v])
<1>1. PICK k : k = [from EXCEPT !.pc = pc, !.v = v]
  OBVIOUS
<1>2. /\ k \in TaskState /\ k.pc = pc /\ k.v = v /\ k.rows = from.rows
  BY <1>1 DEF TaskState, Anywhere, TaskIsSound
<1>3. pc \in Stages[t] /\ RowsAreKnown(k.rows)
  BY <1>2, StagesAre DEF TaskIsSound
<1>4. TaskIsSound(t, k)
  BY <1>2, <1>3 DEF TaskIsSound, Storing, OnFile, WithRow
<1> QED
  BY <1>1, <1>4

(* One task goes on over what the tab has: no row and no storage changes.   *)
LEMMA Thinks ==
    ASSUME TabInv, UNCHANGED <<log, rowVars, seederVars, joined, diskVars, lostVars, upsets, evicted>>,
           NEW v \in 0..Len(log), published' \in {published, [published EXCEPT !.tree = v]},
           VersionsAreKnown',
           NEW t \in Tasks, NEW k, Go(t, k), TaskIsSound(t, k),
           k.pc # "publish", tasks[t].pc # "publish"
    PROVE  TabInv'
<1>1. DiskGains /\ LocatorIsBacked
  <2>1. disk \in DiskState
    BY DEF TabInv, DiskIsSound
  <2> QED
    BY <2>1 DEF DiskGains, LocatorIsBacked, diskVars
<1>2. WorldGrows
  BY GainsGrow DEF diskVars
<1>3. TaskIsSound(t, k)'
  BY <1>2, TaskStays
<1>4. RowsAreKnown(rows)'
  <2>1. PICK r : r = rows
    OBVIOUS
  <2>2. RowsAreKnown(r)'
    BY <1>2, <2>1, RowsStay DEF TabInv
  <2> QED
    BY <2>1, <2>2 DEF RowsAreKnown, rowVars
<1>5. SeederIsSound'
  BY DEF TabInv, SeederIsSound, seederVars
<1> QED
  BY <1>1, <1>3, <1>4, <1>5, Advances DEF rowVars, seederVars, lostVars, diskVars

-----------------------------------------------------------------------------
(* Steps that change a task and what the tab believes.                      *)

(* A tree is fetched, from what was left for it or from the producer.       *)
LEMMA FetchStep ==
    ASSUME TabInv, NEW t \in Tasks, Fetch(t), UNCHANGED upsets
    PROVE  TabInv'
<1>1. TaskIsSound(t, tasks[t]) /\ tasks[t] \in TaskState /\ tasks[t].pc \in Stages[t]
  BY TaskOf
<1>2. t \in Tasks \ {"keep"} /\ tasks[t].pc \in {"fetch", "answered"}
  BY <1>1, StagesAre DEF Fetch, TakePrefetched, AskDifference, AskTree, TakeAnswer
<1>3. Len(log) \in Nat /\ Len(log) \in 1..Len(log)
  BY LogIs
<1>4. CASE TakePrefetched(t)
  <2>1. prefetched \in 1..Len(log)
    BY <1>3, <1>4 DEF TakePrefetched, TabInv, VersionsAreKnown
  <2>2. PICK k : k = [tasks[t] EXCEPT !.pc = "fetched", !.v = prefetched]
    OBVIOUS
  <2>3. TaskIsSound(t, k) /\ k.pc = "fetched"
    <3>1. prefetched \in Nat /\ "fetched" \in {"fetch", "answered", "fetched"}
      BY <2>1
    <3>2. TaskIsSound(t, k)
      BY <1>1, <1>2, <2>1, <2>2, <3>1, FetchingIsSound
    <3> QED
      BY <1>1, <2>2, <3>2 DEF TaskState
  <2>4. VersionsAreKnown'
    BY <1>3, <1>4, <2>1 DEF TakePrefetched, TabInv, VersionsAreKnown, diskVars, seederVars
  <2>5. prefetched \in 0..Len(log) /\ published' \in {published, [published EXCEPT !.tree = prefetched]}
    BY <1>4, <2>1 DEF TakePrefetched, Named
  <2> QED
    BY <1>2, <1>4, <2>2, <2>3, <2>4, <2>5, Thinks DEF TakePrefetched, counts
<1>5. CASE AskDifference(t) \/ AskTree(t)
  <2>1. PICK k : k = [tasks[t] EXCEPT !.pc = "answered", !.v = Len(log)]
    OBVIOUS
  <2>2. TaskIsSound(t, k) /\ k.pc = "answered"
    BY <1>1, <1>2, <1>3, <2>1, FetchingIsSound DEF TaskState
  <2>3. /\ Go(t, k) /\ UNCHANGED <<log, treeVars, rowVars, seederVars, meshVars, diskVars, lostVars, counts>>
    BY <1>5, <2>1 DEF AskDifference, AskTree
  <2>4. VersionsAreKnown'
    BY <2>3 DEF TabInv, VersionsAreKnown, diskVars, seederVars, treeVars
  <2>5. 0 \in 0..Len(log) /\ published' \in {published, [published EXCEPT !.tree = 0]}
    BY <1>3, <2>3 DEF meshVars
  <2> QED
    BY <1>2, <2>2, <2>3, <2>4, <2>5, Thinks DEF meshVars, counts
<1>6. CASE TakeAnswer(t)
  <2>1. tasks[t].v \in 1..Len(log)
    BY <1>1, <1>2, <1>6 DEF TakeAnswer, TaskIsSound
  <2>2. PICK k : k = [tasks[t] EXCEPT !.pc = "fetched", !.v = tasks[t].v]
    OBVIOUS
  <2>3. TaskIsSound(t, k) /\ k.pc = "fetched" /\ k = [tasks[t] EXCEPT !.pc = "fetched"]
    BY <1>1, <1>2, <2>1, <2>2, FetchingIsSound DEF TaskState
  <2>4. VersionsAreKnown'
    BY <1>3, <1>6, <2>1 DEF TakeAnswer, TabInv, VersionsAreKnown, diskVars, seederVars
  <2>5. tasks[t].v \in 0..Len(log) /\ published' \in {published, [published EXCEPT !.tree = tasks[t].v]}
    BY <1>6, <2>1 DEF TakeAnswer, Named
  <2> QED
    BY <1>2, <1>6, <2>3, <2>4, <2>5, Thinks DEF TakeAnswer, Step, counts
<1> QED
  BY <1>4, <1>5, <1>6 DEF Fetch

(* A call of the page begins.                                               *)
LEMMA BeginStep ==
    ASSUME TabInv, SyncBegin \/ PublishBegin
    PROVE  TabInv'
<1>1. PICK t \in {"sync", "publish"} :
        /\ Call(t) /\ Go(t, [Idle EXCEPT !.pc = "fetch"])
        /\ UNCHANGED <<log, treeVars, rowVars, seederVars, meshVars, diskVars, lostVars>>
  BY DEF SyncBegin, PublishBegin
<1>2. PICK k : k = [Idle EXCEPT !.pc = "fetch", !.v = 0]
  OBVIOUS
<1>3. t \in Tasks \ {"keep"}
  BY DEF Tasks
<1>4. TaskIsSound(t, k) /\ k.pc = "fetch" /\ k = [Idle EXCEPT !.pc = "fetch"]
  <2>1. TaskIsSound(t, Idle) /\ 0 \in Nat /\ "fetch" \in {"fetch", "answered", "fetched"}
    BY <1>3, IdleIsSound
  <2>2. TaskIsSound(t, [Idle EXCEPT !.pc = "fetch", !.v = 0])
    BY <1>3, <2>1, FetchingIsSound, Zenon
  <2>3. k.pc = "fetch" /\ k = [Idle EXCEPT !.pc = "fetch"]
    <3> DEFINE asking == [pc |-> "fetch", v |-> 0, slot |-> 0, row |-> 0, todo |-> {}, parts |-> {},
                          content |-> 0, rows |-> NoRows]
    <3>1. k = asking
      BY <1>2 DEF Idle
    <3>2. [Idle EXCEPT !.pc = "fetch"] = asking
      BY DEF Idle
    <3> QED
      BY <3>1, <3>2
  <2> QED
    BY <1>2, <2>2, <2>3
<1>5. VersionsAreKnown'
  BY <1>1 DEF TabInv, VersionsAreKnown, diskVars, seederVars, treeVars
<1>6. 0 \in 0..Len(log) /\ published' \in {published, [published EXCEPT !.tree = 0]}
  BY <1>1, LogIs DEF meshVars
<1> QED
  BY <1>1, <1>3, <1>4, <1>5, <1>6, Thinks DEF meshVars, Call

(* A task gives up.                                                         *)
LEMMA GiveUpStep ==
    ASSUME TabInv, SyncFails \/ KeepNothing, UNCHANGED upsets
    PROVE  TabInv'
<1>1. PICK t \in {"sync", "keep"} :
        /\ tasks[t].pc # "publish" /\ Go(t, Idle)
        /\ UNCHANGED <<log, treeVars, rowVars, seederVars, meshVars, diskVars, lostVars, counts>>
  BY DEF SyncFails, KeepNothing, End
<1>2. t \in Tasks
  BY DEF Tasks
<1>3. TaskIsSound(t, Idle) /\ Idle.pc # "publish"
  BY <1>2, IdleIsSound
<1>4. VersionsAreKnown'
  BY <1>1 DEF TabInv, VersionsAreKnown, diskVars, seederVars, treeVars
<1>5. 0 \in 0..Len(log) /\ published' \in {published, [published EXCEPT !.tree = 0]}
  BY <1>1, LogIs DEF meshVars
<1> QED
  BY <1>1, <1>2, <1>3, <1>4, <1>5, Thinks DEF meshVars, counts

(* The rows found in the store are known, and a file with a bind has one.   *)
LEMMA StoredRowsAreKnown ==
    ASSUME TabInv, NEW v \in 1..Len(log)
    PROVE  /\ RowsAreKnown(RowsInStore(v))
           /\ \A s \in Listed(v) :
                ~evicted /\ (\E b \in disk.binds : b.id = FileId(v, s)) => RowsInStore(v)[s] # 0
<1> DEFINE Held(s) == {b.row : b \in {b \in disk.binds : b.id = FileId(v, s) /\ <<s, b.row>> \in disk.maps}}
<1>1. ASSUME NEW s \in Slots, NEW row \in Held(s)
      PROVE  row \in Contents /\ row # 0 /\ row <= Latest[s] /\ <<s, row>> \in disk.maps
  <2>1. PICK b \in disk.binds : b.row = row /\ b.id = FileId(v, s) /\ <<s, b.row>> \in disk.maps
    OBVIOUS
  <2>2. b.row \in Contents /\ b.row \in 1..Latest[b.id[1]]
    BY DEF TabInv, DiskIsSound, DiskState
  <2>3. b.id[1] = s
    BY <2>1 DEF FileId
  <2> QED
    BY <2>1, <2>2, <2>3, LogIs
<1>2. \A s \in Slots : ~evicted /\ (\E b \in disk.binds : b.id = FileId(v, s)) => Held(s) # {}
  <2> SUFFICES ASSUME NEW s \in Slots, ~evicted, NEW b \in disk.binds, b.id = FileId(v, s)
               PROVE  b.row \in Held(s)
    OBVIOUS
  <2>1. <<b.id[1], b.row>> \in disk.maps /\ b.id[1] = s
    BY DEF TabInv, DiskIsSound, FileId
  <2> QED
    BY <2>1
<1>3. RowsInStore(v) = [s \in Slots |-> IF s \in Listed(v) /\ Held(s) # {}
                                        THEN CHOOSE row \in Held(s) : TRUE ELSE 0]
  BY DEF RowsInStore
<1> HIDE DEF Held
<1>4. ASSUME NEW s \in Slots
      PROVE  \/ RowsInStore(v)[s] = 0 /\ ~(s \in Listed(v) /\ Held(s) # {})
             \/ RowsInStore(v)[s] \in Held(s)
  BY <1>3
<1>5. \A s \in Slots : /\ RowsInStore(v)[s] \in Contents /\ RowsInStore(v)[s] <= Latest[s]
                       /\ RowsInStore(v)[s] # 0 => <<s, RowsInStore(v)[s]>> \in disk.maps
  BY <1>1, <1>4, LogIs, NoRowsAreKnown DEF RowsAreKnown, NoRows, Rows
<1>6. RowsInStore(v) \in Rows
  <2>1. RowsInStore(v) = [s \in Slots |-> RowsInStore(v)[s]]
    BY <1>3
  <2> QED
    BY <1>5, <2>1 DEF Rows
<1>7. \A s \in Listed(v) :
        ~evicted /\ (\E b \in disk.binds : b.id = FileId(v, s)) => RowsInStore(v)[s] # 0
  BY <1>1, <1>2, <1>4 DEF Listed
<1> QED
  BY <1>5, <1>6, <1>7 DEF RowsAreKnown

(* refresh_held reads the rows of the store.                                *)
LEMMA ReadRowsStep ==
    ASSUME TabInv, ReadRows, UNCHANGED upsets
    PROVE  TabInv'
<1>1. "refresh" \in Tasks
  BY DEF Tasks
<1>2. TaskIsSound("refresh", tasks["refresh"]) /\ tasks["refresh"].v \in 1..Len(log)
  BY <1>1, TaskOf DEF ReadRows, TaskIsSound
<1>3. PICK k : Go("refresh", k) /\ k = IF disk.opened
                  THEN [tasks["refresh"] EXCEPT !.pc = "found", !.rows = RowsInStore(tasks["refresh"].v)]
                  ELSE Idle
  BY DEF ReadRows, End
<1>4. TaskIsSound("refresh", k) /\ k.pc # "publish"
  <2>1. CASE disk.opened
    <3>1. PICK r : r = RowsInStore(tasks["refresh"].v) /\ RowsAreKnown(r)
      BY <1>2, StoredRowsAreKnown
    <3>2. /\ k \in TaskState /\ k.pc = "found" /\ k.v = tasks["refresh"].v /\ k.rows = r
      BY <1>2, <1>3, <2>1, <3>1 DEF TaskIsSound, TaskState, Anywhere, RowsAreKnown
    <3> QED
      BY <1>2, <2>1, <3>1, <3>2, StagesAre DEF TaskIsSound, Storing, OnFile, WithRow
  <2>2. CASE ~disk.opened
    BY <1>1, <1>3, <2>2, IdleIsSound
  <2> QED
    BY <2>1, <2>2
<1>5. VersionsAreKnown'
  BY DEF ReadRows, TabInv, VersionsAreKnown, diskVars, seederVars, treeVars
<1>6. 0 \in 0..Len(log) /\ published' \in {published, [published EXCEPT !.tree = 0]}
  BY LogIs DEF ReadRows, meshVars
<1>7. UNCHANGED <<log, rowVars, seederVars, joined, diskVars, lostVars, upsets, evicted>>
  BY DEF ReadRows, meshVars, counts
<1> QED
  BY <1>1, <1>3, <1>4, <1>5, <1>6, <1>7, Thinks DEF ReadRows

(* row_for: the row is the memo's, or what the producer has by now.         *)
LEMMA LookUpRowStep ==
    ASSUME TabInv, NEW t \in Tasks, LookUpRow(t), UNCHANGED upsets
    PROVE  TabInv'
<1> DEFINE s == tasks[t].slot
<1>1. /\ TaskIsSound(t, tasks[t]) /\ tasks[t].pc = "row" /\ t \in {"sync", "keep"}
      /\ s \in Slots /\ Latest[s] # 0
  BY TaskOf, StagesAre DEF LookUpRow, TaskIsSound, OnFile
<1>2. PICK k : Go(t, k) /\ k = IF rows[s] # 0
                 THEN [tasks[t] EXCEPT !.pc = "known", !.row = rows[s]]
                 ELSE [tasks[t] EXCEPT !.pc = "asked", !.row = Latest[s]]
  BY DEF LookUpRow
<1>3. PICK row : row = IF rows[s] # 0 THEN rows[s] ELSE Latest[s]
  OBVIOUS
<1>4. row \in Contents /\ row \in 1..Latest[s] /\ (rows[s] # 0 /\ ~evicted => <<s, row>> \in disk.maps)
  BY <1>1, <1>3, LogIs DEF TabInv, RowsAreKnown, Rows, Contents
<1>5. /\ k \in TaskState /\ k.pc \in {"known", "asked"} /\ k.row = row /\ k.slot = s
      /\ k.v = tasks[t].v /\ k.todo = tasks[t].todo /\ k.rows = tasks[t].rows
      /\ k.pc = "known" => rows[s] # 0
  BY <1>1, <1>2, <1>3, <1>4 DEF TaskIsSound, TaskState, Anywhere
<1>6. TaskIsSound(t, k) /\ k.pc # "publish"
  <2>1. k.pc \in Stages[t]
    BY <1>1, <1>5, StagesAre
  <2>2. /\ tasks[t].pc \in OnFile /\ tasks[t].pc \in Storing /\ tasks[t].pc \notin {"idle", "fetch"}
    BY <1>1 DEF OnFile, Storing
  <2>3. disk.opened /\ (t # "keep" => k.v \in 1..Len(log)) /\ RowsAreKnown(k.rows)
        /\ (t = "sync" => s \in Listed(k.v) /\ k.todo \subseteq Listed(k.v))
    BY <1>1, <1>5, <2>2 DEF TaskIsSound
  <2> QED
    BY <1>1, <1>4, <1>5, <2>1, <2>3 DEF TaskIsSound
<1>7. VersionsAreKnown'
  BY DEF LookUpRow, TabInv, VersionsAreKnown, diskVars, seederVars, treeVars
<1>8. 0 \in 0..Len(log) /\ published' \in {published, [published EXCEPT !.tree = 0]}
  BY LogIs DEF LookUpRow, meshVars
<1>9. UNCHANGED <<log, rowVars, seederVars, joined, diskVars, lostVars, upsets, evicted>>
  BY DEF LookUpRow, meshVars, counts
<1> QED
  BY <1>1, <1>2, <1>6, <1>7, <1>8, <1>9, Thinks

-----------------------------------------------------------------------------
(* Steps that learn rows, store chunks and arm the seeder.                  *)

(* A row that is remembered is known, if the store has it by now.           *)
LEMMA Remembers ==
    ASSUME TabInv, NEW s \in Slots, NEW row \in 1..Latest[s], RememberRow(s, row),
           UNCHANGED <<log, evicted>>, disk.maps \subseteq disk'.maps,
           ~evicted => <<s, row>> \in disk'.maps
    PROVE  RowsAreKnown(rows)' /\ SeederIsSound'
<1>1. row \in Contents /\ row <= Latest[s] /\ Latest' = Latest
  <2>1. Latest' = Latest
    BY DEF Latest
  <2>2. row \in Contents /\ row <= Latest[s]
    BY LogIs, TabAssumption DEF Contents, TabAssumption
  <2> QED
    BY <2>1, <2>2
<1>2. rows \in Rows /\ seeder.rows \in Rows
  BY DEF TabInv, RowsAreKnown, SeederIsSound
<1>3. rows' \in Rows /\ \A u \in Slots : rows'[u] = IF u = s THEN row ELSE rows[u]
  BY <1>1, <1>2 DEF RememberRow, Rows
<1>4. RowsAreKnown(rows)'
  BY <1>1, <1>3 DEF TabInv, RowsAreKnown
<1>5. SeederIsSound'
  <2>1. CASE seeder.armed
    <3>1. seeder' = [armed |-> TRUE, rows |-> [seeder.rows EXCEPT ![s] = row],
                     scope |-> seeder.scope \cup Leaves(s, row)]
      BY <2>1 DEF RememberRow, AdoptRow, TabInv, SeederIsSound
    <3> QED
      BY <1>1, <1>2, <3>1 DEF SeederIsSound, Rows
  <2>2. CASE ~seeder.armed
    BY <2>2 DEF RememberRow, AdoptRow, TabInv, SeederIsSound
  <2> QED
    BY <2>1, <2>2
<1> QED
  BY <1>4, <1>5

(* The rows as they were are still known.                                   *)
LEMMA RowsRest ==
    ASSUME TabInv, WorldGrows, UNCHANGED rows
    PROVE  RowsAreKnown(rows)'
<1>1. PICK r : r = rows
  OBVIOUS
<1>2. RowsAreKnown(r)'
  BY <1>1, RowsStay DEF TabInv
<1> QED
  BY <1>1, <1>2 DEF RowsAreKnown

(* A seeder armed with some rows is sound.                                  *)
LEMMA Arms ==
    ASSUME NEW r \in Rows, seeder' = Update(seeder, r)
    PROVE  SeederIsSound'
BY DEF Update, SeederIsSound

(* A task that works on a file goes on, under a row of that file.           *)
LEMMA OnFileIsSound ==
    ASSUME TabInv, WorldGrows, NEW t \in {"sync", "keep"}, tasks[t].pc \in OnFile,
           NEW k \in TaskState, k.pc \in WithRow, k.pc \in Stages[t], k.slot = tasks[t].slot,
           k.v = tasks[t].v, k.todo = tasks[t].todo, k.rows = tasks[t].rows,
           k.row \in 1..Latest[k.slot],
           ~evicted' =>
               /\ k.pc \in {"known", "chunks", "bind"} => <<k.slot, k.row>> \in disk'.maps
               /\ k.pc = "chunks" => \A p \in Parts \ k.parts : <<k.slot, k.row, p>> \in disk'.chunks
               /\ t = "sync" /\ k.pc = "bind" => Leaves(k.slot, k.row) \subseteq disk'.chunks
    PROVE  TaskIsSound(t, k)' /\ k.pc # "publish" /\ tasks[t].pc # "publish" /\ t \in Tasks
<1>1. t \in Tasks /\ TaskIsSound(t, tasks[t])
  BY TaskOf DEF Tasks
<1>2. PICK before : before = tasks[t]
  OBVIOUS
<1>3. TaskIsSound(t, before)'
  BY <1>1, <1>2, TaskStays
<1>4. /\ tasks[t].pc \in Storing /\ tasks[t].pc \notin {"idle", "fetch", "publish"}
      /\ k.pc \notin {"idle", "fetch", "publish", "locate"}
  BY DEF Storing, OnFile, WithRow
<1>5. k.slot \in Slots /\ k.row \in 1..Latest'[k.slot]
  <2>1. k.slot \in Slots
    BY <1>1 DEF TaskIsSound
  <2> QED
    BY <2>1 DEF WorldGrows
<1> QED
  BY <1>1, <1>2, <1>3, <1>4, <1>5 DEF TaskIsSound, Storing, OnFile

(* What a task on a file knows of the file.                                 *)
LEMMA FileOf ==
    ASSUME TabInv, NEW t \in {"sync", "keep"}, tasks[t].pc \in OnFile
    PROVE  /\ t \in Tasks /\ tasks[t].slot \in Slots /\ disk.opened /\ tasks[t] \in TaskState
           /\ tasks[t].parts \subseteq Parts
           /\ tasks[t].pc \in WithRow =>
                /\ tasks[t].row \in 1..Latest[tasks[t].slot] /\ tasks[t].row \in Contents
           /\ disk \in DiskState
<1>1. t \in Tasks /\ TaskIsSound(t, tasks[t]) /\ tasks[t] \in TaskState
  BY TaskOf DEF Tasks
<1> QED
  BY <1>1 DEF TaskIsSound, TaskState, Storing, TabInv, DiskIsSound

(* A task goes on with its file: it stores, it may remember a row.          *)
LEMMA FileAdvances ==
    ASSUME TabInv, NEW t \in {"sync", "keep"}, tasks[t].pc \in OnFile,
           UNCHANGED <<log, treeVars, bound, envelope, card, meshVars, locator, synced, lostVars, counts>>,
           DiskGains,
           NEW s, NEW row, s = tasks[t].slot, row \in 1..Latest[s],
           \/ UNCHANGED <<rows, seeder>>
           \/ RememberRow(s, row) /\ (~evicted => <<s, row>> \in disk'.maps),
           NEW k, Go(t, k), k \in TaskState, k.pc \in WithRow, k.pc \in Stages[t], k.slot = s, k.row = row,
           k.v = tasks[t].v, k.todo = tasks[t].todo, k.rows = tasks[t].rows,
           ~evicted =>
               /\ k.pc \in {"known", "chunks", "bind"} => <<s, row>> \in disk'.maps
               /\ k.pc = "chunks" => \A p \in Parts \ k.parts : <<s, row, p>> \in disk'.chunks
               /\ t = "sync" /\ k.pc = "bind" => Leaves(s, row) \subseteq disk'.chunks
    PROVE  TabInv'
<1>1. s \in Slots
  BY FileOf
<1>2. WorldGrows
  BY GainsGrow DEF DiskGains, counts
<1>3. RowsAreKnown(rows)' /\ SeederIsSound'
  <2>1. CASE UNCHANGED <<rows, seeder>>
    BY <1>2, <2>1, RowsRest DEF TabInv, SeederIsSound
  <2>2. CASE RememberRow(s, row) /\ (~evicted => <<s, row>> \in disk'.maps)
    <3>1. UNCHANGED <<log, evicted>> /\ disk.maps \subseteq disk'.maps
      BY DEF DiskGains, counts
    <3> QED
      BY <1>1, <2>2, <3>1, Remembers
  <2> QED
    BY <2>1, <2>2
<1>4. evicted' = evicted
  BY DEF counts
<1>5. TaskIsSound(t, k)' /\ k.pc # "publish" /\ tasks[t].pc # "publish" /\ t \in Tasks
  BY <1>2, <1>4, OnFileIsSound
<1>6. VersionsAreKnown' /\ LocatorIsBacked
  BY DEF TabInv, VersionsAreKnown, LocatorIsBacked, treeVars
<1>7. 0 \in 0..Len(log) /\ published' \in {published, [published EXCEPT !.tree = 0]}
  BY LogIs DEF meshVars
<1> QED
  BY <1>3, <1>5, <1>6, <1>7, Advances DEF meshVars, counts, lostVars

(* Chunks and rows that are stored are gains.                               *)
LEMMA StoresAreGains ==
    ASSUME TabInv, NEW chunks, chunks \subseteq Slots \X Contents \X Parts,
           NEW maps, maps \subseteq Slots \X Contents,
           disk' = [disk EXCEPT !.chunks = @ \cup chunks, !.maps = @ \cup maps]
    PROVE  DiskGains /\ chunks \subseteq disk'.chunks /\ maps \subseteq disk'.maps
<1>1. disk \in DiskState
  BY DEF TabInv, DiskIsSound
<1>2. /\ disk'.chunks = disk.chunks \cup chunks /\ disk'.maps = disk.maps \cup maps
      /\ disk'.opened = disk.opened /\ disk'.binds = disk.binds /\ disk'.manifests = disk.manifests
  BY <1>1 DEF DiskState
<1>3. /\ disk.chunks \cup chunks \subseteq Slots \X Contents \X Parts
      /\ disk.maps \cup maps \subseteq Slots \X Contents
  <2>1. disk.chunks \subseteq Slots \X Contents \X Parts /\ disk.maps \subseteq Slots \X Contents
    BY <1>1 DEF DiskState
  <2> QED
    BY <2>1
<1>4. disk' \in DiskState
  <2> DEFINE all == disk.chunks \cup chunks
             known == disk.maps \cup maps
  <2>1. disk' = [disk EXCEPT !.chunks = all, !.maps = known] /\ all \in SUBSET (Slots \X Contents \X Parts)
        /\ known \in SUBSET (Slots \X Contents)
    BY <1>3
  <2> HIDE DEF all, known
  <2> QED
    BY <1>1, <2>1 DEF DiskState
<1> QED
  BY <1>2, <1>4 DEF DiskGains

(* The producer's row is stored and remembered.                             *)
LEMMA TakeRowStep ==
    ASSUME TabInv, NEW t \in {"sync", "keep"}, TakeRow(t)
    PROVE  TabInv'
<1>1. tasks[t].pc \in OnFile /\ tasks[t].pc \in WithRow
  BY DEF TakeRow, OnFile, WithRow
<1>2. PICK s, row : s = tasks[t].slot /\ row = tasks[t].row
  OBVIOUS
<1>3. /\ s \in Slots /\ row \in 1..Latest[s] /\ row \in Contents /\ disk \in DiskState
      /\ tasks[t] \in TaskState
  BY <1>1, <1>2, FileOf
<1>4. DiskGains /\ <<s, row>> \in disk'.maps
  BY <1>2, <1>3 DEF TakeRow, DiskGains, DiskState
<1>5. PICK k : k = [tasks[t] EXCEPT !.pc = "known"]
  OBVIOUS
<1>6. /\ k \in TaskState /\ k.pc = "known" /\ k.slot = s /\ k.row = row /\ k.v = tasks[t].v
      /\ k.todo = tasks[t].todo /\ k.rows = tasks[t].rows
  BY <1>2, <1>3, <1>5 DEF TaskState, Anywhere
<1>7. /\ Go(t, k) /\ RememberRow(s, row) /\ k.pc \in WithRow /\ k.pc \in Stages[t]
      /\ UNCHANGED <<log, treeVars, bound, envelope, card, meshVars, locator, synced, lostVars, counts>>
  BY <1>2, <1>5, <1>6, StagesAre DEF TakeRow, Step, WithRow
<1> QED
  BY <1>1, <1>2, <1>3, <1>4, <1>6, <1>7, FileAdvances

(* A file read whole is stored under the row built from it.                 *)
LEMMA SyncWholeStep ==
    ASSUME TabInv, SyncWhole
    PROVE  TabInv'
<1>1. "sync" \in {"sync", "keep"} /\ tasks["sync"].pc \in OnFile /\ tasks["sync"].pc \in WithRow
  BY DEF SyncWhole, OnFile, WithRow
<1>2. PICK s : s = tasks["sync"].slot
  OBVIOUS
<1>3. PICK row \in tasks["sync"].row..Latest[s] :
        /\ disk' = [disk EXCEPT !.chunks = @ \cup Leaves(s, row), !.maps = @ \cup {<<s, row>>}]
        /\ RememberRow(s, row)
        /\ Go("sync", [tasks["sync"] EXCEPT !.pc = "bind", !.row = row])
  BY <1>2 DEF SyncWhole
<1>4. /\ s \in Slots /\ tasks["sync"].row \in 1..Latest[s] /\ disk \in DiskState
      /\ tasks["sync"] \in TaskState
  BY <1>1, <1>2, FileOf
<1>5. row \in 1..Latest[s] /\ row \in Contents
  BY <1>4, LogIs, TabAssumption DEF Contents, TabAssumption
<1>6. Leaves(s, row) \subseteq Slots \X Contents \X Parts
  BY <1>4, <1>5 DEF Leaves
<1>7. DiskGains /\ <<s, row>> \in disk'.maps /\ Leaves(s, row) \subseteq disk'.chunks
  <2>1. {<<s, row>>} \subseteq Slots \X Contents
    BY <1>4, <1>5
  <2>2. PICK chunks, maps : chunks = Leaves(s, row) /\ maps = {<<s, row>>}
    OBVIOUS
  <2>3. disk' = [disk EXCEPT !.chunks = @ \cup chunks, !.maps = @ \cup maps]
    BY <1>3, <2>2
  <2>4. chunks \subseteq Slots \X Contents \X Parts /\ maps \subseteq Slots \X Contents
    BY <1>6, <2>1, <2>2
  <2>5. DiskGains /\ chunks \subseteq disk'.chunks /\ maps \subseteq disk'.maps
    BY <2>3, <2>4, StoresAreGains
  <2> QED
    BY <2>2, <2>5
<1>8. PICK k : k = [tasks["sync"] EXCEPT !.pc = "bind", !.row = row]
  OBVIOUS
<1>9. /\ k \in TaskState /\ k.pc = "bind" /\ k.slot = s /\ k.row = row /\ k.v = tasks["sync"].v
      /\ k.todo = tasks["sync"].todo /\ k.rows = tasks["sync"].rows
  BY <1>2, <1>4, <1>5, <1>8 DEF TaskState, Anywhere
<1>10. /\ Go("sync", k) /\ RememberRow(s, row) /\ k.pc \in WithRow /\ k.pc \in Stages["sync"]
       /\ UNCHANGED <<log, treeVars, bound, envelope, card, meshVars, locator, synced, lostVars, counts>>
  BY <1>3, <1>8, <1>9, StagesAre DEF SyncWhole, WithRow
<1> QED
  BY <1>1, <1>2, <1>5, <1>7, <1>9, <1>10, FileAdvances

(* What the store has of a row decides what is fetched.                     *)
LEMMA SyncCoverStep ==
    ASSUME TabInv, SyncCover
    PROVE  TabInv'
<1>1. "sync" \in {"sync", "keep"} /\ tasks["sync"].pc \in OnFile /\ tasks["sync"].pc \in WithRow
  BY DEF SyncCover, OnFile, WithRow
<1>2. PICK s, row : s = tasks["sync"].slot /\ row = tasks["sync"].row
  OBVIOUS
<1>3. /\ s \in Slots /\ row \in 1..Latest[s] /\ row \in Contents /\ disk \in DiskState
      /\ tasks["sync"] \in TaskState
  BY <1>1, <1>2, FileOf
<1>4. ~evicted => <<s, row>> \in disk.maps
  BY <1>2, TaskOf DEF SyncCover, TaskIsSound, Tasks
<1>5. DiskGains
  BY <1>3 DEF SyncCover, DiskGains, diskVars
<1>6. CASE CoverageIsComplete(s, row)
  <2>1. PICK k : k = [tasks["sync"] EXCEPT !.pc = "bind"]
    OBVIOUS
  <2>2. /\ k \in TaskState /\ k.pc = "bind" /\ k.slot = s /\ k.row = row /\ k.v = tasks["sync"].v
        /\ k.todo = tasks["sync"].todo /\ k.rows = tasks["sync"].rows
    BY <1>2, <1>3, <2>1 DEF TaskState, Anywhere
  <2>3. /\ Go("sync", k) /\ UNCHANGED <<rows, seeder>> /\ k.pc \in WithRow /\ k.pc \in Stages["sync"]
        /\ UNCHANGED <<log, treeVars, bound, envelope, card, meshVars, locator, synced, lostVars, counts>>
    BY <1>2, <1>6, <2>1, <2>2, StagesAre DEF SyncCover, Step, WithRow, diskVars
  <2>4. ~evicted => <<s, row>> \in disk'.maps /\ Leaves(s, row) \subseteq disk'.chunks
    BY <1>4, <1>6 DEF CoverageIsComplete, SyncCover, diskVars
  <2> QED
    BY <1>1, <1>2, <1>3, <1>5, <2>2, <2>3, <2>4, FileAdvances
<1>7. CASE ~CoverageIsComplete(s, row)
  <2>1. PICK k : k = [tasks["sync"] EXCEPT !.pc = "chunks",
                                           !.parts = {p \in Parts : <<s, row, p>> \notin disk.chunks}]
    OBVIOUS
  <2>2. /\ k \in TaskState /\ k.pc = "chunks" /\ k.slot = s /\ k.row = row /\ k.v = tasks["sync"].v
        /\ k.todo = tasks["sync"].todo /\ k.rows = tasks["sync"].rows
        /\ k.parts = {p \in Parts : <<s, row, p>> \notin disk.chunks}
    BY <1>2, <1>3, <2>1 DEF TaskState, Anywhere
  <2>3. /\ Go("sync", k) /\ RememberRow(s, row) /\ k.pc \in WithRow /\ k.pc \in Stages["sync"]
        /\ UNCHANGED <<log, treeVars, bound, envelope, card, meshVars, locator, synced, lostVars, counts>>
    BY <1>2, <1>7, <2>1, <2>2, StagesAre DEF SyncCover, WithRow, diskVars
  <2>4. /\ ~evicted => <<s, row>> \in disk'.maps
        /\ \A p \in Parts \ k.parts : <<s, row, p>> \in disk'.chunks
    BY <1>4, <2>2 DEF SyncCover, diskVars
  <2> QED
    BY <1>1, <1>2, <1>3, <1>5, <2>2, <2>3, <2>4, FileAdvances
<1> QED
  BY <1>6, <1>7

(* One chunk is fetched and stored.                                         *)
LEMMA SyncChunkStep ==
    ASSUME TabInv, SyncChunk
    PROVE  TabInv'
<1>1. "sync" \in {"sync", "keep"} /\ tasks["sync"].pc \in OnFile /\ tasks["sync"].pc \in WithRow
  BY DEF SyncChunk, OnFile, WithRow
<1>2. PICK s, row, part : s = tasks["sync"].slot /\ row = tasks["sync"].row /\ part = Min(tasks["sync"].parts)
  OBVIOUS
<1>3. /\ s \in Slots /\ row \in 1..Latest[s] /\ row \in Contents /\ disk \in DiskState
      /\ tasks["sync"] \in TaskState /\ tasks["sync"].parts \subseteq Parts
  BY <1>1, <1>2, FileOf
<1>4. part \in tasks["sync"].parts
  <2>1. tasks["sync"].parts \subseteq Nat /\ tasks["sync"].parts # {}
    BY <1>3, TabAssumption DEF TabAssumption, SyncChunk
  <2> QED
    BY <1>2, <2>1, MinIs
<1>5. disk' = [disk EXCEPT !.chunks = @ \cup {<<s, row, part>>}]
  BY <1>2 DEF SyncChunk
<1>6. DiskGains /\ <<s, row, part>> \in disk'.chunks
  BY <1>3, <1>4, <1>5 DEF DiskGains, DiskState
<1>7. PICK k : k = [tasks["sync"] EXCEPT !.parts = @ \ {part}]
  OBVIOUS
<1>8. /\ k \in TaskState /\ k.pc = "chunks" /\ k.slot = s /\ k.row = row /\ k.v = tasks["sync"].v
      /\ k.todo = tasks["sync"].todo /\ k.rows = tasks["sync"].rows
      /\ k.parts = tasks["sync"].parts \ {part}
  BY <1>2, <1>3, <1>7 DEF TaskState, SyncChunk
<1>9. ~evicted => /\ <<s, row>> \in disk.maps
                  /\ \A p \in Parts \ tasks["sync"].parts : <<s, row, p>> \in disk.chunks
  BY <1>2, TaskOf DEF SyncChunk, TaskIsSound, Tasks
<1>10. ~evicted => /\ <<s, row>> \in disk'.maps
                   /\ \A p \in Parts \ k.parts : <<s, row, p>> \in disk'.chunks
  BY <1>6, <1>8, <1>9 DEF DiskGains
<1>11. /\ Go("sync", k) /\ UNCHANGED <<rows, seeder>> /\ k.pc \in WithRow /\ k.pc \in Stages["sync"]
       /\ UNCHANGED <<log, treeVars, bound, envelope, card, meshVars, locator, synced, lostVars, counts>>
  BY <1>2, <1>7, <1>8, StagesAre DEF SyncChunk, WithRow, rowVars, seederVars
<1> QED
  BY <1>1, <1>2, <1>3, <1>6, <1>8, <1>10, <1>11, FileAdvances

(* The row is stored once its chunks are.                                   *)
LEMMA SyncMapStep ==
    ASSUME TabInv, SyncMap
    PROVE  TabInv'
<1>1. "sync" \in {"sync", "keep"} /\ tasks["sync"].pc \in OnFile /\ tasks["sync"].pc \in WithRow
  BY DEF SyncMap, OnFile, WithRow
<1>2. PICK s, row : s = tasks["sync"].slot /\ row = tasks["sync"].row
  OBVIOUS
<1>3. /\ s \in Slots /\ row \in 1..Latest[s] /\ row \in Contents /\ disk \in DiskState
      /\ tasks["sync"] \in TaskState
  BY <1>1, <1>2, FileOf
<1>4. DiskGains /\ <<s, row>> \in disk'.maps /\ disk'.chunks = disk.chunks
  BY <1>2, <1>3 DEF SyncMap, DiskGains, DiskState
<1>5. ~evicted => \A p \in Parts : <<s, row, p>> \in disk.chunks
  BY <1>2, TaskOf DEF SyncMap, TaskIsSound, Tasks
<1>6. ~evicted => Leaves(s, row) \subseteq disk'.chunks
  BY <1>4, <1>5 DEF Leaves
<1>7. PICK k : k = [tasks["sync"] EXCEPT !.pc = "bind"]
  OBVIOUS
<1>8. /\ k \in TaskState /\ k.pc = "bind" /\ k.slot = s /\ k.row = row /\ k.v = tasks["sync"].v
      /\ k.todo = tasks["sync"].todo /\ k.rows = tasks["sync"].rows
  BY <1>2, <1>3, <1>7 DEF TaskState, Anywhere
<1>9. /\ Go("sync", k) /\ UNCHANGED <<rows, seeder>> /\ k.pc \in WithRow /\ k.pc \in Stages["sync"]
      /\ UNCHANGED <<log, treeVars, bound, envelope, card, meshVars, locator, synced, lostVars, counts>>
  BY <1>7, <1>8, StagesAre DEF SyncMap, Step, WithRow, rowVars, seederVars
<1> QED
  BY <1>1, <1>2, <1>3, <1>4, <1>6, <1>8, <1>9, FileAdvances

(* keep stores the chunks its row addresses, and the row.                   *)
LEMMA KeepStoreStep ==
    ASSUME TabInv, KeepStore
    PROVE  TabInv'
<1>1. "keep" \in {"sync", "keep"} /\ tasks["keep"].pc \in OnFile /\ tasks["keep"].pc \in WithRow
  BY DEF KeepStore, OnFile, WithRow
<1>2. PICK s, row, kept :
        /\ s = tasks["keep"].slot /\ row = tasks["keep"].row
        /\ kept = IF tasks["keep"].content = row THEN tasks["keep"].parts ELSE {}
  OBVIOUS
<1>3. /\ s \in Slots /\ row \in 1..Latest[s] /\ row \in Contents /\ disk \in DiskState
      /\ tasks["keep"] \in TaskState /\ kept \subseteq Parts
  BY <1>1, <1>2, FileOf
<1>4. disk' = [disk EXCEPT !.chunks = @ \cup {<<s, row, p>> : p \in kept}, !.maps = @ \cup {<<s, row>>}]
  BY <1>2 DEF KeepStore
<1>5. {<<s, row, p>> : p \in kept} \subseteq Slots \X Contents \X Parts
  BY <1>3
<1>6. DiskGains /\ <<s, row>> \in disk'.maps
  <2>1. {<<s, row>>} \subseteq Slots \X Contents
    BY <1>3
  <2> QED
    BY <1>4, <1>5, <2>1, StoresAreGains
<1>7. PICK k : k = [tasks["keep"] EXCEPT !.pc = "bind"]
  OBVIOUS
<1>8. /\ k \in TaskState /\ k.pc = "bind" /\ k.slot = s /\ k.row = row /\ k.v = tasks["keep"].v
      /\ k.todo = tasks["keep"].todo /\ k.rows = tasks["keep"].rows
  BY <1>2, <1>3, <1>7 DEF TaskState, Anywhere
<1>9. /\ Go("keep", k) /\ RememberRow(s, row) /\ k.pc \in WithRow /\ k.pc \in Stages["keep"]
      /\ UNCHANGED <<log, treeVars, bound, envelope, card, meshVars, locator, synced, lostVars, counts>>
  BY <1>2, <1>7, <1>8, StagesAre DEF KeepStore, Step, WithRow
<1> QED
  BY <1>1, <1>2, <1>3, <1>6, <1>8, <1>9, FileAdvances

-----------------------------------------------------------------------------
(* Steps that go on with a tree: they arm, persist and bind.                *)

(* sync goes on with the next file, or has the manifest to persist.         *)
LEMMA NextFileIsSound ==
    ASSUME TabInv, WorldGrows, UNCHANGED log, disk'.opened,
           NEW from, TaskIsSound("sync", from), from.v \in 1..Len(log),
           NEW todo, todo \subseteq Listed(from.v), NEW k, k = NextFile(from, todo)
    PROVE  TaskIsSound("sync", k)' /\ k.pc # "publish"
<1>1. from \in TaskState /\ RowsAreKnown(from.rows)' /\ todo \subseteq Slots
  BY RowsStay DEF TaskIsSound, Listed
<1>2. Listed(from.v)' = Listed(from.v)
  BY DEF Listed
<1>3. CASE todo = {}
  <2>1. k = [from EXCEPT !.pc = "persist", !.todo = {}]
    BY <1>3 DEF NextFile
  <2>2. k \in TaskState /\ k.pc = "persist" /\ k.v = from.v /\ k.rows = from.rows
    BY <1>1, <2>1 DEF TaskState, Anywhere
  <2> QED
    BY <1>1, <2>2, StagesAre DEF TaskIsSound, Storing, OnFile, WithRow
<1>4. CASE todo # {}
  <2>1. PICK s : s = Min(todo)
    OBVIOUS
  <2>2. s \in todo
    <3>1. todo \subseteq Nat
      BY <1>1, TabAssumption DEF TabAssumption
    <3> QED
      BY <1>4, <2>1, <3>1, MinIs
  <2>3. k = [from EXCEPT !.pc = "row", !.todo = todo, !.slot = s, !.row = 0]
    BY <1>4, <2>1 DEF NextFile
  <2>4. 0 \in Contents
    BY TabAssumption DEF Contents, TabAssumption
  <2>5. k \in TaskState /\ k.pc = "row" /\ k.v = from.v /\ k.rows = from.rows /\ k.slot = s /\ k.todo = todo
    BY <1>1, <2>2, <2>3, <2>4 DEF TaskState, Anywhere
  <2>6. s \in Slots /\ Latest'[s] # 0
    <3>1. log[from.v][s] # 0 /\ s \in Slots
      BY <2>2 DEF Listed
    <3>2. Latest[s] # 0 /\ Latest[s] \in Nat
      BY <3>1, LogIs
    <3> QED
      BY <3>1, <3>2 DEF WorldGrows
  <2> QED
    BY <1>1, <1>2, <2>2, <2>5, <2>6, StagesAre DEF TaskIsSound, Storing, OnFile, WithRow
<1> QED
  BY <1>3, <1>4

(* A republish that has armed the seeder has its rows to count.             *)
LEMMA CountingIsSound ==
    ASSUME TabInv, WorldGrows, UNCHANGED log, NEW t \in Tasks \ {"keep"},
           NEW from, TaskIsSound(t, from), from.v \in 1..Len(log),
           NEW r, RowsAreKnown(r)', NEW k, k = [from EXCEPT !.pc = "count", !.rows = r]
    PROVE  TaskIsSound(t, k)' /\ k.pc # "publish"
<1>1. from \in TaskState /\ r \in Rows
  BY DEF TaskIsSound, RowsAreKnown
<1>2. k \in TaskState /\ k.pc = "count" /\ k.v = from.v /\ k.rows = r
  BY <1>1 DEF TaskState, Anywhere
<1> QED
  BY <1>2, StagesAre DEF TaskIsSound, Storing, OnFile, WithRow

(* The store is there once it has been opened.                              *)
LEMMA OpensIsGain ==
    ASSUME TabInv, disk' = [disk EXCEPT !.opened = TRUE]
    PROVE  DiskGains /\ disk'.opened
BY DEF TabInv, DiskIsSound, DiskState, DiskGains

(* A task that goes on after its fetch has a tree that was published.       *)
LEMMA TreeGoesOn ==
    ASSUME TabInv, NEW t \in Tasks, tasks[t].pc \notin {"idle", "fetch"}, t # "keep"
    PROVE  /\ TaskIsSound(t, tasks[t]) /\ tasks[t] \in TaskState
           /\ tasks[t].v \in 1..Len(log) /\ tasks[t].v \in 0..Len(log)
<1>1. TaskIsSound(t, tasks[t])
  BY TaskOf
<1>2. tasks[t].v \in 1..Len(log) /\ Len(log) \in Nat
  BY <1>1, LogIs DEF TaskIsSound
<1> QED
  BY <1>1, <1>2 DEF TaskIsSound

(* sync opens the store, arms the seeder and has files to go over.          *)
LEMMA SyncArmStep ==
    ASSUME TabInv, SyncArm
    PROVE  TabInv'
<1>1. "sync" \in Tasks /\ tasks["sync"].pc = "fetched"
  BY DEF SyncArm, Tasks
<1>2. PICK from, todo, k :
        /\ from = tasks["sync"] /\ todo \subseteq Listed(from.v) /\ k = NextFile(from, todo) /\ Go("sync", k)
  BY DEF SyncArm
<1>3. TaskIsSound("sync", from) /\ from.v \in 1..Len(log) /\ from.v \in 0..Len(log)
  BY <1>1, <1>2, TreeGoesOn
<1>4. DiskGains /\ disk'.opened
  BY OpensIsGain DEF SyncArm
<1>5. WorldGrows
  BY <1>4, GainsGrow DEF SyncArm, counts, DiskGains
<1>6. TaskIsSound("sync", k)' /\ k.pc # "publish"
  BY <1>2, <1>3, <1>4, <1>5, NextFileIsSound DEF SyncArm
<1>7. RowsAreKnown(rows)'
  BY <1>5, RowsRest DEF SyncArm, rowVars
<1>8. SeederIsSound'
  BY Arms DEF SyncArm, ArmSeeder, TabInv, RowsAreKnown
<1>9. VersionsAreKnown' /\ LocatorIsBacked
  BY <1>2, <1>3 DEF SyncArm, ArmSeeder, TabInv, VersionsAreKnown, LocatorIsBacked, treeVars
<1>10. published' \in {published, [published EXCEPT !.tree = from.v]}
       /\ UNCHANGED <<log, upsets, evicted, synced, bound, joined, card, holes, lost>>
  BY DEF SyncArm, meshVars, rowVars, lostVars, counts
<1> QED
  BY <1>1, <1>2, <1>3, <1>4, <1>6, <1>7, <1>8, <1>9, <1>10, Advances

(* republish_holdings arms the seeder.                                      *)
LEMMA ArmStep ==
    ASSUME TabInv, NEW t \in Tasks, Arm(t)
    PROVE  TabInv'
<1>1. t \in Tasks \ {"keep"} /\ tasks[t].pc = "fetched"
  BY DEF Arm, Publishers
<1>2. PICK from, r, k :
        /\ from = tasks[t] /\ r = rows /\ k = [from EXCEPT !.pc = "count", !.rows = r] /\ Go(t, k)
  BY DEF Arm, Republish
<1>3. TaskIsSound(t, from) /\ from.v \in 1..Len(log) /\ from.v \in 0..Len(log)
  BY <1>1, <1>2, TreeGoesOn
<1>4. DiskGains /\ disk'.opened
  BY OpensIsGain DEF Arm
<1>5. WorldGrows
  BY <1>4, GainsGrow DEF Arm, counts, DiskGains
<1>6. RowsAreKnown(rows)' /\ RowsAreKnown(r)'
  <2>1. RowsAreKnown(r)'
    BY <1>2, <1>5, RowsStay DEF TabInv
  <2>2. RowsAreKnown(rows)'
    BY <1>5, RowsRest DEF Arm, rowVars
  <2> QED
    BY <2>1, <2>2
<1>7. TaskIsSound(t, k)' /\ k.pc # "publish"
  BY <1>1, <1>2, <1>3, <1>5, <1>6, CountingIsSound DEF Arm
<1>8. SeederIsSound'
  BY Arms DEF Arm, Republish, ArmSeeder, TabInv, RowsAreKnown
<1>9. VersionsAreKnown' /\ LocatorIsBacked
  BY <1>2, <1>3 DEF Arm, Republish, ArmSeeder, TabInv, VersionsAreKnown, LocatorIsBacked, treeVars
<1>10. published' \in {published, [published EXCEPT !.tree = from.v]}
       /\ UNCHANGED <<log, upsets, evicted, synced, bound, joined, card, holes, lost>>
  BY DEF Arm, meshVars, rowVars, lostVars, counts
<1> QED
  BY <1>1, <1>2, <1>3, <1>4, <1>6, <1>7, <1>8, <1>9, <1>10, Advances

(* The memo becomes the rows of the store; with none there is no tree to    *)
(* persist, and the seeder is armed at once.                                *)
LEMMA SetRowsStep ==
    ASSUME TabInv, SetRows
    PROVE  TabInv'
<1>1. "refresh" \in Tasks \ {"keep"} /\ tasks["refresh"].pc = "found"
  BY DEF SetRows, Tasks
<1>2. PICK from : from = tasks["refresh"]
  OBVIOUS
<1>3. TaskIsSound("refresh", from) /\ from \in TaskState /\ from.v \in 1..Len(log) /\ from.v \in 0..Len(log)
  BY <1>1, <1>2, TreeGoesOn
<1>4. DiskGains /\ UNCHANGED <<log, upsets, evicted, synced, bound, joined, published, card, holes, lost, disk>>
  BY DEF SetRows, DiskGains, TabInv, DiskIsSound, diskVars, meshVars, lostVars, counts
<1>5. WorldGrows
  BY <1>4, GainsGrow
<1>6. PICK r : r = from.rows /\ RowsAreKnown(r) /\ RowsAreKnown(r)'
  BY <1>3, <1>5, RowsStay DEF TaskIsSound
<1>7. rows' = r /\ RowsAreKnown(rows)'
  <2>1. rows' = r
    BY <1>2, <1>6 DEF SetRows
  <2> QED
    BY <1>6, <2>1 DEF RowsAreKnown
<1>8. UNCHANGED <<treeVars, locator>>
  BY DEF SetRows, diskVars
<1>9. LocatorIsBacked /\ published' \in {published, [published EXCEPT !.tree = from.v]}
  BY <1>4, <1>8 DEF LocatorIsBacked
<1>10. CASE rows' = NoRows
  <2>1. PICK k, none : k = [from EXCEPT !.pc = "count", !.rows = none] /\ none = NoRows /\ Go("refresh", k)
                 /\ ArmSeeder(none, from.v)
    BY <1>2, <1>10 DEF SetRows, Republish
  <2>2. none = r /\ RowsAreKnown(none)' /\ none \in Rows
    BY <1>6, <1>7, <1>10, <2>1 DEF RowsAreKnown
  <2>3. TaskIsSound("refresh", k)' /\ k.pc # "publish"
    BY <1>1, <1>3, <1>4, <1>5, <2>1, <2>2, CountingIsSound
  <2>4. SeederIsSound'
    BY <2>1, <2>2, Arms DEF ArmSeeder
  <2>5. VersionsAreKnown'
    BY <1>3, <1>4, <1>8, <2>1 DEF ArmSeeder, TabInv, VersionsAreKnown, treeVars
  <2> QED
    BY <1>1, <1>3, <1>4, <1>7, <1>9, <2>1, <2>3, <2>4, <2>5, Advances
<1>11. CASE rows' # NoRows
  <2>1. PICK k : k = [from EXCEPT !.pc = "persist"] /\ Go("refresh", k)
    BY <1>2, <1>11 DEF SetRows, Step
  <2>2. k \in TaskState /\ k.pc = "persist" /\ k.v = from.v /\ k.rows = from.rows
    BY <1>3, <2>1 DEF TaskState, Anywhere
  <2>3. disk.opened
    BY <1>1, <1>2, <1>3 DEF TaskIsSound, Storing
  <2>4. TaskIsSound("refresh", k)' /\ k.pc # "publish"
    BY <1>3, <1>4, <1>6, <2>2, <2>3, StagesAre DEF TaskIsSound, Storing, OnFile, WithRow
  <2>5. SeederIsSound' /\ UNCHANGED envelope
    BY <1>11 DEF SetRows, TabInv, SeederIsSound
  <2>6. VersionsAreKnown'
    BY <1>4, <1>8, <2>5 DEF TabInv, VersionsAreKnown, treeVars
  <2> QED
    BY <1>1, <1>3, <1>4, <1>7, <1>9, <2>1, <2>4, <2>5, <2>6, Advances
<1> QED
  BY <1>10, <1>11

(* The manifest is stored.                                                  *)
LEMMA PersistManifestStep ==
    ASSUME TabInv, NEW t \in Tasks, PersistManifest(t)
    PROVE  TabInv'
<1>1. t \in Tasks \ {"keep"} /\ tasks[t].pc = "persist"
  BY TaskOf, StagesAre DEF PersistManifest
<1>2. PICK from, k : from = tasks[t] /\ k = [from EXCEPT !.pc = "locate"] /\ Go(t, k)
  BY DEF PersistManifest, Step
<1>3. TaskIsSound(t, from) /\ from \in TaskState /\ from.v \in 1..Len(log) /\ from.v \in 0..Len(log)
  BY <1>1, <1>2, TreeGoesOn
<1>4. DiskGains /\ from.v \in disk'.manifests /\ (disk.opened => disk'.opened)
  <2>1. disk' = [disk EXCEPT !.manifests = @ \cup {from.v}]
    BY <1>2 DEF PersistManifest
  <2> QED
    BY <1>3, <2>1 DEF DiskGains, TabInv, DiskIsSound, DiskState
<1>5. WorldGrows
  BY <1>4, GainsGrow DEF PersistManifest, counts, DiskGains
<1>6. k \in TaskState /\ k.pc = "locate" /\ k.v = from.v /\ k.rows = from.rows
  BY <1>2, <1>3 DEF TaskState, Anywhere
<1>7. TaskIsSound(t, k)' /\ k.pc # "publish"
  <2>1. PICK r : r = from.rows /\ RowsAreKnown(r)'
    BY <1>3, <1>5, RowsStay DEF TaskIsSound
  <2>2. RowsAreKnown(k.rows)'
    BY <1>6, <2>1
  <2>3. from.pc = "persist" /\ t \in {"refresh", "sync"}
    BY <1>1, <1>2, TaskOf, StagesAre
  <2>4. k.pc \in Stages[t] /\ disk'.opened
    BY <1>3, <1>4, <1>6, <2>3, StagesAre DEF TaskIsSound, Storing
  <2>5. k.v \in 1..Len(log')
    BY <1>3, <1>6 DEF PersistManifest
  <2> QED
    BY <1>4, <1>6, <2>2, <2>4, <2>5 DEF TaskIsSound, Storing, OnFile, WithRow
<1>8. RowsAreKnown(rows)'
  BY <1>5, RowsRest DEF PersistManifest, rowVars
<1>9. SeederIsSound'
  BY DEF PersistManifest, TabInv, SeederIsSound, seederVars
<1>10. VersionsAreKnown' /\ LocatorIsBacked
  BY DEF PersistManifest, TabInv, VersionsAreKnown, LocatorIsBacked, treeVars, seederVars
<1>11. published' \in {published, [published EXCEPT !.tree = from.v]}
       /\ UNCHANGED <<log, upsets, evicted, synced, bound, joined, card, holes, lost>>
  BY DEF PersistManifest, meshVars, rowVars, seederVars, lostVars, counts
<1> QED
  BY <1>1, <1>2, <1>3, <1>4, <1>7, <1>8, <1>9, <1>10, <1>11, Advances

(* The locator is written, and the seeder armed with the rows of the memo.  *)
LEMMA PersistLocatorStep ==
    ASSUME TabInv, NEW t \in Tasks, PersistLocator(t)
    PROVE  TabInv'
<1>1. t \in Tasks \ {"keep"} /\ tasks[t].pc = "locate"
  BY TaskOf, StagesAre DEF PersistLocator
<1>2. PICK from, r, k :
        /\ from = tasks[t] /\ r = rows /\ k = [from EXCEPT !.pc = "count", !.rows = r] /\ Go(t, k)
  BY DEF PersistLocator, Republish
<1>3. TaskIsSound(t, from) /\ from.v \in 1..Len(log) /\ from.v \in 0..Len(log)
  BY <1>1, <1>2, TreeGoesOn
<1>4. DiskGains /\ UNCHANGED <<log, upsets, evicted, synced, bound, joined, published, card, holes, lost, disk, rows>>
  BY DEF PersistLocator, DiskGains, TabInv, DiskIsSound, meshVars, lostVars, counts
<1>5. WorldGrows
  BY <1>4, GainsGrow
<1>6. RowsAreKnown(rows)' /\ RowsAreKnown(r)'
  <2>1. RowsAreKnown(r)'
    BY <1>2, <1>5, RowsStay DEF TabInv
  <2>2. RowsAreKnown(rows)'
    BY <1>4, <1>5, RowsRest
  <2> QED
    BY <2>1, <2>2
<1>7. TaskIsSound(t, k)' /\ k.pc # "publish"
  BY <1>1, <1>2, <1>3, <1>4, <1>5, <1>6, CountingIsSound
<1>8. SeederIsSound'
  BY Arms DEF PersistLocator, Republish, ArmSeeder, TabInv, RowsAreKnown
<1>9. VersionsAreKnown'
  BY <1>2, <1>3, <1>4 DEF PersistLocator, Republish, ArmSeeder, TabInv, VersionsAreKnown, treeVars
<1>10. LocatorIsBacked
  <2>1. disk.opened /\ (~evicted => from.v \in disk.manifests)
    BY <1>1, <1>2, <1>3 DEF TaskIsSound, Storing
  <2> QED
    BY <1>2, <1>3, <1>4, <2>1 DEF PersistLocator, LocatorIsBacked
<1>11. published' \in {published, [published EXCEPT !.tree = from.v]}
  BY <1>4
<1> QED
  BY <1>1, <1>2, <1>3, <1>4, <1>6, <1>7, <1>8, <1>9, <1>10, <1>11, Advances

(* A reader hands chunks of a file over: the store is opened for them.      *)
LEMMA KeepBeginStep ==
    ASSUME TabInv, NEW s \in Slots, NEW parts \in SUBSET Parts, KeepBegin(s, parts)
    PROVE  TabInv'
<1>1. "keep" \in Tasks /\ tasks["keep"].pc = "idle"
  BY DEF KeepBegin, Call, Tasks
<1>2. PICK k : k = [Idle EXCEPT !.pc = "row", !.slot = s, !.parts = parts, !.content = Latest[s]] /\ Go("keep", k)
  BY DEF KeepBegin
<1>3. DiskGains /\ disk'.opened
  BY OpensIsGain DEF KeepBegin
<1>4. WorldGrows /\ Latest' = Latest
  BY <1>3, GainsGrow DEF KeepBegin, Call, DiskGains
<1>5. Latest[s] # 0 /\ Latest[s] \in Contents
  BY LogIs DEF KeepBegin, Listed, TabInv, VersionsAreKnown
<1>6. k \in TaskState /\ k.pc = "row" /\ k.slot = s /\ k.rows = NoRows
  <2>1. k = [pc |-> "row", v |-> 0, slot |-> s, row |-> 0, todo |-> {}, parts |-> parts,
             content |-> Latest[s], rows |-> NoRows]
    BY <1>2 DEF Idle
  <2>2. 0 \in Contents /\ NoRows \in Rows
    BY NoRowsAreKnown, TabAssumption DEF Contents, TabAssumption
  <2> QED
    BY <1>5, <2>1, <2>2 DEF TaskState, Anywhere
<1>7. RowsAreKnown(NoRows)'
  <2>1. PICK r : r = NoRows /\ RowsAreKnown(r)
    BY NoRowsAreKnown
  <2>2. RowsAreKnown(r)'
    BY <1>4, <2>1, RowsStay
  <2> QED
    BY <2>1, <2>2 DEF NoRows
<1>8. TaskIsSound("keep", k)' /\ k.pc # "publish"
  BY <1>3, <1>4, <1>5, <1>6, <1>7, StagesAre DEF TaskIsSound, Storing, OnFile, WithRow
<1>9. RowsAreKnown(rows)' /\ SeederIsSound'
  BY <1>4, RowsRest DEF KeepBegin, TabInv, SeederIsSound, rowVars, seederVars
<1>10. VersionsAreKnown' /\ LocatorIsBacked
  BY DEF KeepBegin, TabInv, VersionsAreKnown, LocatorIsBacked, treeVars, seederVars
<1>11. /\ 0 \in 0..Len(log) /\ published' \in {published, [published EXCEPT !.tree = 0]}
       /\ UNCHANGED <<log, upsets, evicted, synced, bound, joined, card, holes, lost>>
  BY LogIs DEF KeepBegin, Call, meshVars, rowVars, seederVars, lostVars
<1> QED
  BY <1>1, <1>2, <1>3, <1>8, <1>9, <1>10, <1>11, Advances

(* A bind leads to a row that is there.  Before the first edit there is one *)
(* row, so a bind that replaces another leads to the same chunks.           *)
LEMMA BindIsSound ==
    ASSUME TabInv, UNCHANGED <<log, upsets, evicted, locator>>,
           NEW v \in 1..Len(log), NEW s \in Listed(v), NEW row \in 1..Latest[s],
           ~evicted => <<s, row>> \in disk.maps,
           disk' = Bind(FileId(v, s), row),
           \/ UNCHANGED synced
           \/ /\ synced' = synced \cup {FileId(v, s)}
              /\ ~evicted => Leaves(s, row) \subseteq disk.chunks
    PROVE  DiskIsSound' /\ WorldGrows
<1>1. PICK id : id = FileId(v, s) /\ id[1] = s
  BY DEF FileId
<1>2. s \in Slots /\ row \in Contents /\ id \in Slots \X Contents
  <2>1. s \in Slots /\ log[v][s] \in Contents
    <3>1. s \in Slots
      BY DEF Listed
    <3>2. log[v][s] \in Nat /\ log[v][s] <= v /\ Len(log) \in Nat /\ Len(log) <= MaxUpsets + 1
      BY <3>1, LogIs
    <3> QED
      BY <3>1, <3>2, TabAssumption DEF Contents, TabAssumption
  <2>2. row \in Contents
    BY <2>1, LogIs, TabAssumption DEF Contents, TabAssumption
  <2> QED
    BY <1>1, <2>1, <2>2 DEF FileId
<1>3. disk \in DiskState /\ synced \subseteq Slots \X Contents
  BY DEF TabInv, DiskIsSound
<1>4. PICK new, binds : new = [id |-> id, row |-> row] /\ binds = {b \in disk.binds : b.id # id} \cup {new}
  OBVIOUS
<1>5. disk' = [disk EXCEPT !.binds = binds]
  BY <1>1, <1>4 DEF Bind
<1>6. binds \subseteq [id : Slots \X Contents, row : Contents]
  <2>1. new \in [id : Slots \X Contents, row : Contents]
    BY <1>2, <1>4
  <2>2. disk.binds \subseteq [id : Slots \X Contents, row : Contents]
    BY <1>3 DEF DiskState
  <2> QED
    BY <1>4, <2>1, <2>2
<1>7. /\ disk' \in DiskState /\ disk'.binds = binds /\ disk'.opened = disk.opened
      /\ disk'.chunks = disk.chunks /\ disk'.maps = disk.maps /\ disk'.manifests = disk.manifests
  BY <1>3, <1>5, <1>6 DEF DiskState
<1>8. WorldGrows /\ Latest' = Latest
  BY <1>7, GainsGrow
<1>9. new.id = id /\ new.row = row /\ new \in binds
  BY <1>4
<1>10. \A b \in binds : b.row \in 1..Latest[b.id[1]]
  BY <1>1, <1>4, <1>9 DEF TabInv, DiskIsSound
<1>11. ~evicted => \A b \in binds : <<b.id[1], b.row>> \in disk.maps
  BY <1>1, <1>4, <1>9 DEF TabInv, DiskIsSound
<1>12. synced' \subseteq Slots \X Contents
  BY <1>1, <1>2, <1>3
<1>13. ~evicted => \A i \in synced' : \E b \in binds : b.id = i
  <2> SUFFICES ASSUME ~evicted, NEW i \in synced'  PROVE \E b \in binds : b.id = i
    OBVIOUS
  <2>1. CASE i = id
    BY <1>9, <2>1
  <2>2. CASE i # id
    <3>1. PICK b \in disk.binds : b.id = i
      BY <1>1, <2>2 DEF TabInv, DiskIsSound
    <3> QED
      BY <1>4, <2>2, <3>1
  <2> QED
    BY <2>1, <2>2
<1>14. ~evicted /\ Len(log) = 1 => \A i \in synced' : Leaves(i[1], 1) \subseteq disk.chunks
  <2> SUFFICES ASSUME ~evicted, Len(log) = 1, NEW i \in synced'
               PROVE  Leaves(i[1], 1) \subseteq disk.chunks
    OBVIOUS
  <2>1. CASE i \in synced
    BY <2>1 DEF TabInv, DiskIsSound
  <2>2. CASE i \notin synced
    <3>1. i = id /\ Leaves(s, row) \subseteq disk.chunks
      BY <1>1, <2>2
    <3>2. row = 1
      <4>1. Latest[s] \in Nat /\ Latest[s] <= 1
        BY <1>2, LogIs
      <4> QED
        BY <4>1
    <3> QED
      BY <1>1, <3>1, <3>2
  <2> QED
    BY <2>1, <2>2
<1>15. DiskState' = DiskState
  BY DEF DiskState
<1>16. /\ locator' # 0 => disk'.opened
       /\ ~evicted /\ locator' # 0 => locator' \in disk'.manifests
  BY <1>7 DEF TabInv, DiskIsSound
<1> QED
  BY <1>7, <1>8, <1>10, <1>11, <1>12, <1>13, <1>14, <1>15, <1>16 DEF DiskIsSound

(* A task writes a bind.                                                    *)
LEMMA Binds ==
    ASSUME TabInv, WorldGrows, DiskIsSound', RowsAreKnown(rows)', SeederIsSound', bound' \in Rows,
           UNCHANGED <<log, treeVars, envelope, locator, meshVars, card, lostVars, upsets, evicted>>,
           NEW t \in Tasks, NEW k, Go(t, k), TaskIsSound(t, k)',
           k.pc # "publish", tasks[t].pc # "publish"
    PROVE  TabInv'
<1>1. TasksAreSound' /\ tasks' = [u \in Tasks |-> tasks'[u]]
  BY OneTask
<1>2. VersionsAreKnown' /\ LogIsSound' /\ evicted' \in BOOLEAN
  BY DEF TabInv, VersionsAreKnown, LogIsSound, Latest, treeVars
<1>3. published' \in [tree : 0..Len(log'), slots : {published.slots}]
  BY DEF TabInv, CardIsSound, meshVars
<1>4. tasks' = [tasks EXCEPT ![t] = k] /\ tasks = [u \in Tasks |-> tasks[u]]
  BY DEF TabInv, Go
<1>5. \A u \in Tasks : tasks'[u].pc = "publish" <=> tasks[u].pc = "publish"
  BY <1>4
<1>6. CardIsSound' /\ CardIsTold'
  BY <1>3, <1>5, CardStays DEF meshVars, lostVars
<1> QED
  BY <1>1, <1>2, <1>6 DEF TabInv

(* A file that was gone through is bound to the row it was stored under.    *)
LEMMA SyncBindStep ==
    ASSUME TabInv, SyncBind
    PROVE  TabInv'
<1>1. "sync" \in {"sync", "keep"} /\ tasks["sync"].pc \in OnFile /\ tasks["sync"].pc \in WithRow
      /\ "sync" \in Tasks /\ tasks["sync"].pc = "bind"
  BY DEF SyncBind, OnFile, WithRow, Tasks
<1>2. PICK from, s, row, todo, k :
        /\ from = tasks["sync"] /\ s = from.slot /\ row = from.row /\ todo = from.todo \ {s}
        /\ k = NextFile(from, todo) /\ Go("sync", k)
  BY DEF SyncBind
<1>3. TaskIsSound("sync", from) /\ from.v \in 1..Len(log) /\ s \in Listed(from.v) /\ todo \subseteq Listed(from.v)
  BY <1>1, <1>2, TreeGoesOn DEF TaskIsSound
<1>4. s \in Slots /\ row \in 1..Latest[s] /\ disk.opened
  BY <1>1, <1>2, FileOf
<1>5. ~evicted => <<s, row>> \in disk.maps /\ Leaves(s, row) \subseteq disk.chunks
  BY <1>1, <1>2, <1>3 DEF TaskIsSound
<1>6. /\ disk' = Bind(FileId(from.v, s), row) /\ synced' = synced \cup {FileId(from.v, s)}
      /\ RememberRow(s, row)
      /\ UNCHANGED <<log, treeVars, bound, envelope, card, meshVars, locator, lostVars, counts>>
  BY <1>2 DEF SyncBind
<1>7. UNCHANGED <<upsets, evicted>>
  BY <1>6 DEF counts
<1>8. DiskIsSound' /\ WorldGrows
  BY <1>3, <1>4, <1>5, <1>6, <1>7, BindIsSound
<1>9. disk'.opened /\ disk'.maps = disk.maps
  BY <1>4, <1>6 DEF Bind, TabInv, DiskIsSound, DiskState
<1>10. RowsAreKnown(rows)' /\ SeederIsSound'
  BY <1>4, <1>5, <1>6, <1>7, <1>9, Remembers
<1>11. TaskIsSound("sync", k)' /\ k.pc # "publish"
  BY <1>2, <1>3, <1>6, <1>8, <1>9, NextFileIsSound
<1>12. bound' \in Rows
  BY <1>6 DEF TabInv
<1> QED
  BY <1>1, <1>2, <1>6, <1>7, <1>8, <1>10, <1>11, <1>12, Binds

(* keep binds the file, as the tree of the moment knows it.                 *)
LEMMA KeepBindStep ==
    ASSUME TabInv, KeepBind
    PROVE  TabInv'
<1>1. "keep" \in {"sync", "keep"} /\ tasks["keep"].pc \in OnFile /\ tasks["keep"].pc \in WithRow
      /\ "keep" \in Tasks /\ tasks["keep"].pc = "bind"
  BY DEF KeepBind, OnFile, WithRow, Tasks
<1>2. PICK s, row, k : s = tasks["keep"].slot /\ row = tasks["keep"].row /\ k = Idle /\ Go("keep", k)
  BY DEF KeepBind, End
<1>3. s \in Slots /\ row \in 1..Latest[s] /\ row \in Contents /\ disk \in DiskState
  BY <1>1, <1>2, FileOf
<1>4. ~evicted => <<s, row>> \in disk.maps
  BY <1>1, <1>2, TaskOf DEF TaskIsSound
<1>5. /\ UNCHANGED <<log, treeVars, rows, seederVars, meshVars, locator, synced, lostVars, counts>>
      /\ \/ s \in Listed(believed) /\ bound' = [bound EXCEPT ![s] = row] /\ disk' = Bind(FileId(believed, s), row)
         \/ UNCHANGED <<bound, disk>>
  BY <1>2 DEF KeepBind
<1>6. UNCHANGED <<upsets, evicted, seeder, card, envelope>> /\ believed \in 1..Len(log)
  BY <1>5 DEF counts, seederVars, TabInv, VersionsAreKnown
<1>7. DiskIsSound' /\ WorldGrows
  <2>1. CASE s \in Listed(believed) /\ disk' = Bind(FileId(believed, s), row)
    BY <1>3, <1>4, <1>5, <1>6, <2>1, BindIsSound
  <2>2. CASE UNCHANGED disk
    <3>1. DiskGains /\ LocatorIsBacked
      BY <1>3, <1>5, <2>2 DEF DiskGains, LocatorIsBacked
    <3> QED
      BY <1>5, <1>6, <2>2, <3>1, DiskStays, GainsGrow
  <2> QED
    BY <1>5, <2>1, <2>2
<1>8. bound' \in Rows
  BY <1>3, <1>5 DEF TabInv, Rows
<1>9. RowsAreKnown(rows)' /\ SeederIsSound'
  BY <1>5, <1>6, <1>7, RowsRest DEF TabInv, SeederIsSound
<1>10. TaskIsSound("keep", k)' /\ k.pc # "publish"
  <2>1. TaskIsSound("keep", k) /\ k.pc = "idle"
    BY <1>1, <1>2, IdleIsSound
  <2> QED
    BY <1>1, <1>7, <2>1, TaskStays
<1> QED
  BY <1>1, <1>2, <1>5, <1>6, <1>7, <1>8, <1>9, <1>10, Binds

-----------------------------------------------------------------------------
(* Steps of the card, of the world and of the page.                         *)

\* The trees, the rows and the storage are as they were.
HoldingsRest == UNCHANGED <<log, evicted, upsets, rows, bound, seeder, disk, synced, locator>>

(* So is what is known of them.                                             *)
LEMMA WorldRests ==
    ASSUME TabInv, HoldingsRest
    PROVE  /\ WorldGrows /\ RowsAreKnown(rows)' /\ SeederIsSound' /\ bound' \in Rows
           /\ LogIsSound' /\ evicted' \in BOOLEAN /\ DiskIsSound'
           /\ \A s \in Slots : HasContent(s)' <=> HasContent(s)
<1>1. WorldGrows
  BY GainsGrow DEF HoldingsRest
<1>2. RowsAreKnown(rows)'
  BY <1>1, RowsRest DEF HoldingsRest
<1>3. DiskIsSound'
  <2>1. DiskGains /\ LocatorIsBacked
    BY DEF HoldingsRest, DiskGains, LocatorIsBacked, TabInv, DiskIsSound
  <2> QED
    BY <2>1, DiskStays DEF HoldingsRest
<1>4. LogIsSound' /\ SeederIsSound' /\ bound' \in Rows /\ evicted' \in BOOLEAN
  BY DEF HoldingsRest, TabInv, LogIsSound, SeederIsSound, Latest
<1>5. \A s \in Slots : HasContent(s)' <=> HasContent(s)
  BY DEF HoldingsRest, HasContent
<1> QED
  BY <1>1, <1>2, <1>3, <1>4, <1>5

(* The slots that are counted have a content here.                          *)
LEMMA CompleteHasContent ==
    ASSUME TabInv, NEW r, RowsAreKnown(r)
    PROVE  Complete(r) \subseteq {s \in Slots : HasContent(s)}
<1> SUFFICES ASSUME NEW s \in Complete(r)  PROVE s \in Slots /\ HasContent(s)
  OBVIOUS
<1>1. s \in Slots /\ r[s] # 0 /\ Leaves(s, r[s]) \subseteq disk.chunks
  BY DEF Complete, CompleteSlots
<1>2. r[s] \in 1..MaxUpsets + 1
  BY <1>1, TabAssumption DEF RowsAreKnown, Rows, Contents, TabAssumption
<1> QED
  BY <1>1, <1>2 DEF HasContent

(* The card becomes what the counted rows have here.                        *)
LEMMA CountStep ==
    ASSUME TabInv, NEW t \in Tasks, Count(t), joined \/ LateJoin
    PROVE  TabInv'
<1>1. t \in Tasks \ {"keep"} /\ tasks[t].pc = "count"
  BY TaskOf, StagesAre DEF Count
<1>2. PICK from, k : from = tasks[t] /\ k = [from EXCEPT !.pc = "publish", !.rows = NoRows] /\ Go(t, k)
  BY DEF Count
<1>3. TaskIsSound(t, from) /\ from \in TaskState /\ from.v \in 1..Len(log) /\ from.v \in 0..Len(log)
  BY <1>1, <1>2, TreeGoesOn
<1>4. /\ HoldingsRest /\ UNCHANGED <<envelope, joined, holes, lost>>
      /\ UNCHANGED <<believed, prefetched, fed>> /\ lastTree' = from.v
  BY <1>2 DEF Count, HoldingsRest, rowVars, diskVars, lostVars, counts
<1>5. /\ WorldGrows /\ RowsAreKnown(rows)' /\ SeederIsSound' /\ bound' \in Rows
      /\ LogIsSound' /\ evicted' \in BOOLEAN /\ DiskIsSound'
      /\ \A s \in Slots : HasContent(s)' <=> HasContent(s)
  BY <1>4, WorldRests
<1>6. TaskIsSound(t, k)
  <2>1. k \in TaskState /\ k.pc = "publish" /\ k.v = from.v /\ k.rows = NoRows
    BY <1>2, <1>3, NoRowsAreKnown DEF TaskState, Anywhere
  <2> QED
    BY <1>1, <1>3, <2>1, StagesAre, NoRowsAreKnown DEF TaskIsSound, Storing, OnFile, WithRow
<1>7. TaskIsSound(t, k)' /\ k.pc = "publish"
  <2>1. TaskIsSound(t, k)'
    BY <1>5, <1>6, TaskStays
  <2> QED
    BY <1>2, <1>3, <2>1 DEF TaskState
<1>8. TasksAreSound' /\ tasks' = [u \in Tasks |-> tasks'[u]] /\ tasks'[t].pc = "publish"
  <2>1. TasksAreSound' /\ tasks' = [u \in Tasks |-> tasks'[u]]
    BY <1>2, <1>5, <1>7, OneTask
  <2>2. tasks'[t] = k
    BY <1>2 DEF Go, TabInv
  <2> QED
    BY <1>7, <2>1, <2>2
<1>9. VersionsAreKnown'
  BY <1>3, <1>4 DEF HoldingsRest, TabInv, VersionsAreKnown
<1>10. published' \in [tree : 0..Len(log), slots : {published.slots}] /\ published.slots \subseteq Slots
  BY <1>2, <1>3 DEF Count, Named, TabInv, CardIsSound
<1>11. card' \subseteq Slots /\ \A s \in card' : HasContent(s)
  <2>1. card' = Complete(from.rows)
    BY <1>2 DEF Count
  <2> QED
    BY <1>3, <2>1, CompleteHasContent DEF TaskIsSound
<1>12. CardIsSound'
  BY <1>4, <1>5, <1>10, <1>11 DEF HoldingsRest, TabInv, CardIsSound
<1>13. CardIsTold'
  BY <1>4, <1>8 DEF CardIsTold
<1> QED
  BY <1>5, <1>8, <1>9, <1>12, <1>13 DEF TabInv

(* The card of the moment is told.                                          *)
LEMMA PublishStep ==
    ASSUME TabInv, NEW t \in Tasks, Publish(t), joined \/ LateJoin
    PROVE  TabInv'
<1>1. PICK k : k = Idle /\ Go(t, k)
  BY DEF Publish, End
<1>2. /\ HoldingsRest /\ UNCHANGED <<envelope, joined, holes, card>>
      /\ UNCHANGED treeVars
  BY DEF Publish, HoldingsRest, rowVars, seederVars, diskVars, counts
<1>3. /\ WorldGrows /\ RowsAreKnown(rows)' /\ SeederIsSound' /\ bound' \in Rows
      /\ LogIsSound' /\ evicted' \in BOOLEAN /\ DiskIsSound'
      /\ \A s \in Slots : HasContent(s)' <=> HasContent(s)
  BY <1>2, WorldRests
<1>4. TaskIsSound(t, k)'
  <2>1. TaskIsSound(t, k)
    BY <1>1, IdleIsSound
  <2> QED
    BY <1>3, <2>1, TaskStays
<1>5. TasksAreSound' /\ tasks' = [u \in Tasks |-> tasks'[u]]
  BY <1>1, <1>3, <1>4, OneTask
<1>6. VersionsAreKnown'
  BY <1>2 DEF HoldingsRest, TabInv, VersionsAreKnown, treeVars
<1>7. /\ published' \in [tree : 0..Len(log), slots : SUBSET Slots]
      /\ published'.slots = IF joined THEN card ELSE published.slots
  BY DEF Publish, ServingOf, TabInv, CardIsSound
<1>8. lost'.pc \in {"unwatched", "waiting", "asking"}
  BY DEF Publish, TabInv, CardIsSound
<1>9. CardIsSound'
  BY <1>2, <1>3, <1>7, <1>8 DEF HoldingsRest, TabInv, CardIsSound
<1>10. CardIsTold'
  BY <1>2, <1>7 DEF CardIsTold
<1> QED
  BY <1>3, <1>5, <1>6, <1>9, <1>10 DEF TabInv

\* All but the card, what is told of it and the retraction task is as it was.
TabRests == HoldingsRest /\ UNCHANGED <<treeVars, envelope, joined, tasks>>

(* A report is made, taken or answered: the card may lose a slot.           *)
LEMMA LostStep ==
    ASSUME TabInv, TabRests,
           card' \subseteq card, holes' \in Seq(Slots), lost'.pc \in {"unwatched", "waiting", "asking"},
           published' \in [tree : 0..Len(log), slots : SUBSET Slots],
           \/ UNCHANGED <<card, published>>
           \/ published'.slots = IF joined THEN card' ELSE published.slots,
           lost'.pc # "unwatched" => lost.pc # "unwatched"
    PROVE  TabInv'
<1>1. /\ WorldGrows /\ RowsAreKnown(rows)' /\ SeederIsSound' /\ bound' \in Rows
      /\ LogIsSound' /\ evicted' \in BOOLEAN /\ DiskIsSound'
      /\ \A s \in Slots : HasContent(s)' <=> HasContent(s)
  BY WorldRests DEF TabRests
<1>2. TasksAreSound' /\ tasks' = [u \in Tasks |-> tasks'[u]]
  BY <1>1, NoTask DEF TabRests
<1>3. VersionsAreKnown'
  BY DEF TabInv, VersionsAreKnown, treeVars, TabRests, HoldingsRest
<1>4. CardIsSound'
  BY <1>1 DEF TabInv, CardIsSound, TabRests, HoldingsRest
<1>5. CardIsTold'
  BY DEF TabInv, CardIsTold, TabRests
<1> QED
  BY <1>1, <1>2, <1>3, <1>4, <1>5 DEF TabInv

(* A peer meets a hole; the retraction task takes the report and answers.   *)
LEMMA WatchStep ==
    ASSUME TabInv, TakeHole \/ Retract \/ \E s \in Slots : MeetHole(s)
    PROVE  TabInv'
<1>1. holes \in Seq(Slots) /\ card \subseteq Slots /\ published \in [tree : 0..Len(log), slots : SUBSET Slots]
  BY DEF TabInv, CardIsSound
<1>2. CASE TakeHole
  <2>1. Tail(holes) \in Seq(Slots)
    BY <1>1, <1>2 DEF TakeHole
  <2>2. lost'.pc \in {"waiting", "asking"} /\ lost.pc # "unwatched"
    BY <1>2 DEF TakeHole
  <2>3. TabRests /\ UNCHANGED <<card, published>> /\ holes' = Tail(holes)
    BY <1>2 DEF TakeHole, TabRests, HoldingsRest, rowVars, seederVars, meshVars, diskVars, counts
  <2> QED
    BY <1>1, <2>1, <2>2, <2>3, LostStep
<1>3. CASE Retract
  <2>1. TabRests /\ UNCHANGED holes
    BY <1>3 DEF Retract, TabRests, HoldingsRest, rowVars, diskVars, counts
  <2>2. lost'.pc = "waiting" /\ lost.pc # "unwatched"
    BY <1>3 DEF Retract
  <2>3. /\ card' \subseteq card
        /\ published' \in [tree : 0..Len(log), slots : SUBSET Slots]
        /\ \/ UNCHANGED <<card, published>>
           \/ published'.slots = IF joined THEN card' ELSE published.slots
    BY <1>1, <1>3 DEF Retract, ServingOf
  <2> QED
    BY <1>1, <2>1, <2>2, <2>3, LostStep
<1>4. CASE \E s \in Slots : MeetHole(s)
  <2>1. PICK s \in Slots : MeetHole(s)
    BY <1>4
  <2>2. Append(holes, s) \in Seq(Slots)
    BY <1>1
  <2>3. TabRests /\ UNCHANGED <<card, published, lost>> /\ holes' = Append(holes, s)
    BY <2>1 DEF MeetHole, TabRests, HoldingsRest, rowVars, seederVars, meshVars, diskVars, counts
  <2>4. lost'.pc \in {"unwatched", "waiting", "asking"} /\ lost'.pc = lost.pc
    BY <2>3 DEF TabInv, CardIsSound
  <2> QED
    BY <1>1, <2>2, <2>3, <2>4, LostStep
<1> QED
  BY <1>2, <1>3, <1>4

(* The trees and the storage change, and the tab does not.                  *)
LEMMA WorldStep ==
    ASSUME TabInv, WorldGrows, LogIsSound', VersionsAreKnown', DiskIsSound', evicted' \in BOOLEAN,
           UNCHANGED <<rowVars, seeder, joined, card, lostVars, tasks>>,
           published' \in [tree : 0..Len(log'), slots : {published.slots}]
    PROVE  TabInv'
<1>1. RowsAreKnown(rows)' /\ SeederIsSound' /\ bound' \in Rows
  BY RowsRest DEF TabInv, SeederIsSound, rowVars
<1>2. TasksAreSound' /\ tasks' = [u \in Tasks |-> tasks'[u]]
  BY NoTask
<1>3. CardIsSound' /\ CardIsTold'
  BY CardStays DEF lostVars
<1> QED
  BY <1>1, <1>2, <1>3 DEF TabInv

(* The mesh is joined: the card it is told is still empty.                  *)
LEMMA JoinStep ==
    ASSUME TabInv, Join
    PROVE  TabInv'
<1>1. /\ HoldingsRest /\ UNCHANGED <<envelope, holes, lost, card>>
      /\ UNCHANGED <<treeVars, tasks>> /\ ~joined /\ joined' = TRUE
  BY DEF Join, HoldingsRest, rowVars, seederVars, diskVars, lostVars, counts
<1>2. /\ WorldGrows /\ RowsAreKnown(rows)' /\ SeederIsSound' /\ bound' \in Rows
      /\ LogIsSound' /\ evicted' \in BOOLEAN /\ DiskIsSound'
      /\ \A s \in Slots : HasContent(s)' <=> HasContent(s)
  BY <1>1, WorldRests
<1>3. TasksAreSound' /\ tasks' = [u \in Tasks |-> tasks'[u]]
  BY <1>1, <1>2, NoTask
<1>4. VersionsAreKnown'
  BY <1>1 DEF HoldingsRest, TabInv, VersionsAreKnown, treeVars
<1>5. published' \in [tree : 0..Len(log), slots : SUBSET Slots] /\ published'.slots = published.slots
  BY LogIs DEF Join, TabInv, CardIsSound, VersionsAreKnown
<1>6. CardIsSound'
  BY <1>1, <1>2, <1>5 DEF HoldingsRest, TabInv, CardIsSound
<1>7. CardIsTold'
  BY <1>1, <1>5 DEF TabInv, CardIsTold
<1> QED
  BY <1>2, <1>3, <1>4, <1>6, <1>7 DEF TabInv

(* A frame of the watch stream is believed and wakes the update, or is not. *)
LEMMA FollowStep ==
    ASSUME TabInv, NEW n \in 1..MaxUpsets + 1, Follow(n)
    PROVE  TabInv'
<1>1. /\ n \in 1..Len(log) /\ fed' = n
      /\ UNCHANGED <<log, rowVars, seederVars, meshVars, diskVars, lostVars, counts>>
  BY LogIs DEF Follow
<1>2. HoldingsRest /\ UNCHANGED <<envelope, joined, card, published, holes, lost>>
  BY <1>1 DEF HoldingsRest, rowVars, seederVars, meshVars, diskVars, lostVars, counts
<1>3. 0 \in 0..Len(log) /\ published' \in {published, [published EXCEPT !.tree = 0]}
  BY <1>2, LogIs
<1>4. CASE /\ tasks["update"].pc = "idle"
           /\ believed' = n /\ lastTree' = n /\ prefetched' = n
           /\ Step("update", "fetch")
  <2>1. "update" \in Tasks \ {"keep"}
    BY DEF Tasks
  <2>2. PICK from, k : from = tasks["update"] /\ k = [from EXCEPT !.pc = "fetch"] /\ Go("update", k)
    BY <1>4 DEF Step
  <2>3. TaskIsSound("update", from) /\ from \in TaskState
    BY <2>1, <2>2, TaskOf
  <2>4. k \in TaskState /\ k.pc = "fetch" /\ k.rows = from.rows
    BY <2>2, <2>3 DEF TaskState, Anywhere
  <2>5. TaskIsSound("update", k)
    BY <2>1, <2>3, <2>4, StagesAre DEF TaskIsSound, Storing, OnFile, WithRow
  <2>6. VersionsAreKnown'
    BY <1>1, <1>2, <1>4 DEF HoldingsRest, TabInv, VersionsAreKnown
  <2> QED
    BY <1>1, <1>2, <1>3, <1>4, <2>1, <2>2, <2>4, <2>5, <2>6, Thinks DEF HoldingsRest
<1>5. CASE UNCHANGED <<believed, lastTree, prefetched, tasks>>
  <2>1. /\ WorldGrows /\ LogIsSound' /\ evicted' \in BOOLEAN /\ DiskIsSound'
    BY <1>2, WorldRests
  <2>2. VersionsAreKnown'
    BY <1>1, <1>2, <1>5 DEF HoldingsRest, TabInv, VersionsAreKnown
  <2>3. published' \in [tree : 0..Len(log'), slots : {published.slots}]
    BY <1>2 DEF HoldingsRest, TabInv, CardIsSound
  <2> QED
    BY <1>1, <1>2, <1>5, <2>1, <2>2, <2>3, WorldStep DEF HoldingsRest
<1> QED
  BY <1>4, <1>5 DEF Follow

(* The watch stream is opened again.                                        *)
LEMMA RewatchStep ==
    ASSUME TabInv, Rewatch
    PROVE  TabInv'
<1>1. /\ UNCHANGED <<log, evicted, rows, bound, seeder, disk, synced, locator, envelope, joined, card, published,
                     holes, lost, believed, prefetched, lastTree, tasks>>
      /\ fed' = 0 /\ upsets < MaxUpsets /\ upsets' = upsets + 1
  BY DEF Rewatch, Upset, rowVars, seederVars, meshVars, diskVars, lostVars
<1>2. WorldGrows /\ Latest' = Latest
  BY <1>1, GainsGrow
<1>3. LogIsSound'
  BY <1>1, <1>2, TabAssumption DEF TabInv, LogIsSound, TabAssumption
<1>4. VersionsAreKnown'
  BY <1>1, LogIs DEF TabInv, VersionsAreKnown
<1>5. DiskIsSound'
  BY <1>1, <1>2 DEF TabInv, DiskIsSound, DiskState
<1>6. published' \in [tree : 0..Len(log'), slots : {published.slots}] /\ evicted' \in BOOLEAN
  BY <1>1 DEF TabInv, CardIsSound
<1> QED
  BY <1>1, <1>2, <1>3, <1>4, <1>5, <1>6, WorldStep DEF rowVars, lostVars

(* The producer publishes an edit.                                          *)
LEMMA EditStep ==
    ASSUME TabInv, NEW s \in Slots, Edit(s)
    PROVE  TabInv'
<1>1. /\ UNCHANGED <<evicted, rows, bound, seeder, disk, synced, locator, envelope, joined, card, published,
                     holes, lost, believed, prefetched, lastTree, fed, tasks>>
      /\ upsets < MaxUpsets /\ upsets' = upsets + 1
  BY DEF Edit, Upset, rowVars, treeVars, seederVars, meshVars, diskVars, lostVars
<1>2. PICK n, tree : n = Len(log) /\ tree = [Latest EXCEPT ![s] = @ + 1] /\ log' = Append(log, tree)
  BY DEF Edit
<1>3. n \in Nat \ {0} /\ n \in 1..upsets + 1 /\ upsets \in Nat /\ MaxUpsets \in Nat
  BY <1>2, LogIs, TabAssumption DEF TabInv, LogIsSound, TabAssumption
<1>4. Latest \in Rows /\ \A u \in Slots : Latest[u] \in Nat /\ Latest[u] <= n /\ Latest[u] \in Contents
  BY <1>2, <1>3, LogIs, ElementOfSeq DEF TabInv, LogIsSound, Latest
<1>5. \A u \in Slots : tree[u] = IF u = s THEN Latest[u] + 1 ELSE Latest[u]
  BY <1>2, <1>4 DEF Rows
<1>6. tree \in Rows /\ \A u \in Slots : tree[u] <= n + 1 /\ Latest[u] <= tree[u] /\ tree[u] \in Nat
  <2>1. \A u \in Slots : tree[u] \in Contents /\ tree[u] <= n + 1 /\ Latest[u] <= tree[u] /\ tree[u] \in Nat
    BY <1>1, <1>3, <1>4, <1>5 DEF Contents
  <2>2. tree = [u \in Slots |-> tree[u]]
    BY <1>2, <1>4 DEF Rows
  <2> QED
    BY <2>1, <2>2 DEF Rows
<1>7. log \in Seq(Rows)
  BY DEF TabInv, LogIsSound
<1>8. /\ log' \in Seq(Rows) /\ Len(log') = n + 1 /\ log'[n + 1] = tree
      /\ \A v \in 1..n : log'[v] = log[v]
  BY <1>2, <1>3, <1>6, <1>7
<1>9. Latest' = tree
  BY <1>8 DEF Latest
<1>10. WorldGrows
  BY <1>1, <1>2, <1>3, <1>4, <1>6, <1>8, <1>9 DEF WorldGrows
<1>11. LogIsSound'
  <2>1. \A i \in 1..n + 1, u \in Slots : log'[i][u] <= i /\ log'[i][u] <= tree[u]
    <3> SUFFICES ASSUME NEW i \in 1..n + 1, NEW u \in Slots
                 PROVE  log'[i][u] <= i /\ log'[i][u] <= tree[u]
      OBVIOUS
    <3>1. CASE i = n + 1
      BY <1>6, <1>8, <3>1
    <3>2. CASE i \in 1..n
      <4>1. log[i][u] \in Nat /\ log[i][u] <= i /\ log[i][u] <= Latest[u]
        BY <1>2, <3>2, LogIs
      <4>2. log'[i] = log[i]
        BY <1>8, <3>2
      <4> QED
        BY <1>3, <1>4, <1>6, <3>2, <4>1, <4>2
    <3> QED
      BY <1>3, <3>1, <3>2
  <2>2. upsets' \in 0..MaxUpsets /\ n + 1 \in 1..upsets' + 1
    BY <1>1, <1>3
  <2>3. Len(log') = n + 1 /\ log' \in Seq(Rows)
    BY <1>8
  <2> QED
    BY <1>9, <2>1, <2>2, <2>3 DEF LogIsSound
<1>12. VersionsAreKnown'
  BY <1>1, <1>2, <1>3, <1>8 DEF TabInv, VersionsAreKnown
<1>13. DiskIsSound'
  <2>1. disk' \in DiskState' /\ synced' \subseteq Slots \X Contents
    BY <1>1, <1>2, <1>3, <1>8 DEF TabInv, DiskIsSound, DiskState
  <2>2. \A b \in disk'.binds : b.row \in 1..Latest'[b.id[1]]
    <3> SUFFICES ASSUME NEW b \in disk.binds  PROVE b.row \in 1..Latest'[b.id[1]]
      BY <1>1
    <3>1. b.row \in 1..Latest[b.id[1]] /\ b.id \in Slots \X Contents
      BY DEF TabInv, DiskIsSound, DiskState
    <3>2. b.id[1] \in Slots
      BY <3>1
    <3> QED
      BY <1>4, <1>6, <1>9, <3>1, <3>2
  <2>3. Len(log') # 1
    BY <1>3, <1>8
  <2>4. /\ locator' # 0 => disk'.opened
        /\ ~evicted' =>
             /\ \A b \in disk'.binds : <<b.id[1], b.row>> \in disk'.maps
             /\ locator' # 0 => locator' \in disk'.manifests
             /\ \A id \in synced' : \E b \in disk'.binds : b.id = id
    BY <1>1 DEF TabInv, DiskIsSound
  <2> QED
    BY <2>1, <2>2, <2>3, <2>4 DEF DiskIsSound
<1>14. published' \in [tree : 0..Len(log'), slots : {published.slots}] /\ evicted' \in BOOLEAN
  BY <1>1, <1>2, <1>3, <1>8 DEF TabInv, CardIsSound
<1> QED
  BY <1>1, <1>10, <1>11, <1>12, <1>13, <1>14, WorldStep DEF rowVars, lostVars

(* The browser takes something back.                                        *)
LEMMA EvictStep ==
    ASSUME TabInv, Evict
    PROVE  TabInv'
<1>1. /\ UNCHANGED <<log, rows, bound, seeder, synced, locator, envelope, joined, card, published,
                     holes, lost, believed, prefetched, lastTree, fed, tasks>>
      /\ upsets < MaxUpsets /\ upsets' = upsets + 1 /\ evicted' = TRUE
  BY DEF Evict, Upset, rowVars, treeVars, seederVars, meshVars, lostVars
<1>2. /\ disk' \in DiskState /\ disk'.binds = disk.binds /\ disk'.opened = disk.opened
  <2>1. disk \in DiskState
    BY DEF TabInv, DiskIsSound
  <2>2. CASE \E address \in disk.chunks : disk' = [disk EXCEPT !.chunks = @ \ {address}]
    BY <2>1, <2>2 DEF DiskState
  <2>3. CASE \E map \in disk.maps : disk' = [disk EXCEPT !.maps = @ \ {map}]
    BY <2>1, <2>3 DEF DiskState
  <2>4. CASE \E v \in disk.manifests : disk' = [disk EXCEPT !.manifests = @ \ {v}]
    BY <2>1, <2>4 DEF DiskState
  <2> QED
    BY <2>2, <2>3, <2>4 DEF Evict
<1>3. Latest' = Latest
  BY <1>1 DEF Latest
<1>4. WorldGrows
  BY <1>1, <1>2, <1>3, LogIs DEF WorldGrows
<1>5. LogIsSound'
  BY <1>1, <1>3, TabAssumption DEF TabInv, LogIsSound, TabAssumption
<1>6. VersionsAreKnown'
  BY <1>1 DEF TabInv, VersionsAreKnown
<1>7. DiskIsSound'
  BY <1>1, <1>2, <1>3 DEF TabInv, DiskIsSound, DiskState
<1>8. published' \in [tree : 0..Len(log'), slots : {published.slots}] /\ evicted' \in BOOLEAN
  BY <1>1 DEF TabInv, CardIsSound
<1> QED
  BY <1>1, <1>4, <1>5, <1>6, <1>7, <1>8, WorldStep DEF rowVars, lostVars

(* The tasks of a page that has just been loaded.                           *)
LEMMA MountedIsSound ==
    ASSUME RowsAreKnown(NoRows)
    PROVE  /\ \A t \in Tasks : TaskIsSound(t, Mounted[t]) /\ Mounted[t].pc # "publish"
           /\ Mounted = [t \in Tasks |-> Mounted[t]]
<1>1. 0 \in Contents /\ NoRows \in Rows
  BY TabAssumption DEF Contents, TabAssumption, RowsAreKnown
<1>2. ASSUME NEW pc \in {"idle", "fetch"}, NEW t \in Tasks, pc \in Stages[t]
      PROVE  LET k == [pc |-> pc, v |-> 0, slot |-> 0, row |-> 0, todo |-> {}, parts |-> {},
                       content |-> 0, rows |-> NoRows]
             IN  TaskIsSound(t, k) /\ k.pc # "publish"
  BY <1>1, <1>2 DEF TaskIsSound, TaskState, Anywhere, Storing, OnFile, WithRow
<1>3. ASSUME NEW t \in Tasks
      PROVE  TaskIsSound(t, Mounted[t]) /\ Mounted[t].pc # "publish"
  <2>1. CASE t = "refresh"
    <3>1. Mounted[t] = [pc |-> "fetch", v |-> 0, slot |-> 0, row |-> 0, todo |-> {}, parts |-> {},
                        content |-> 0, rows |-> NoRows]
      BY <2>1 DEF Mounted, Idle
    <3>2. "fetch" \in Stages[t]
      BY <2>1 DEF Stages
    <3> QED
      BY <1>2, <3>1, <3>2
  <2>2. CASE t # "refresh"
    <3>1. Mounted[t] = [pc |-> "idle", v |-> 0, slot |-> 0, row |-> 0, todo |-> {}, parts |-> {},
                        content |-> 0, rows |-> NoRows]
      BY <2>2 DEF Mounted, Idle
    <3> QED
      BY <1>2, <3>1, StagesAre
  <2> QED
    BY <2>1, <2>2
<1> QED
  BY <1>3 DEF Mounted

(* The page is loaded again: the storage is all that is left.               *)
LEMMA ReloadStep ==
    ASSUME TabInv, Reload
    PROVE  TabInv'
<1>1. /\ UNCHANGED <<log, evicted, disk, locator, synced>>
      /\ upsets < MaxUpsets /\ upsets' = upsets + 1
      /\ rows' = NoRows /\ bound' = NoRows /\ seeder' = NewSeeder /\ envelope' = 0 /\ card' = {}
      /\ joined' \in BOOLEAN /\ tasks' = Mounted /\ holes' = << >> /\ lost' = Unwatched
  BY DEF Reload, Upset, diskVars
<1>2. WorldGrows /\ Latest' = Latest
  BY <1>1, GainsGrow
<1>3. PICK none : none = NoRows /\ RowsAreKnown(none)
  BY NoRowsAreKnown
<1>4. RowsAreKnown(none)'
  BY <1>2, <1>3, RowsStay
<1>5. RowsAreKnown(rows)' /\ bound' \in Rows /\ SeederIsSound'
  BY <1>1, <1>3, <1>4, NoRowsAreKnown DEF RowsAreKnown, SeederIsSound, NewSeeder
<1>6. TasksAreSound' /\ tasks' = [t \in Tasks |-> tasks'[t]] /\ \A t \in Tasks : tasks'[t].pc # "publish"
  <2>1. PICK mounted : mounted = Mounted
    OBVIOUS
  <2>2. /\ \A t \in Tasks : TaskIsSound(t, mounted[t]) /\ mounted[t].pc # "publish"
        /\ mounted = [t \in Tasks |-> mounted[t]]
    BY <1>3, <2>1, MountedIsSound
  <2>3. \A t \in Tasks : TaskIsSound(t, mounted[t])'
    BY <1>2, <2>2, TaskStays
  <2>4. tasks' = mounted
    BY <1>1, <2>1
  <2> QED
    BY <2>2, <2>3, <2>4 DEF TasksAreSound, TaskIsSound
<1>7. LogIsSound'
  BY <1>1, <1>2, TabAssumption DEF TabInv, LogIsSound, TabAssumption
<1>8. VersionsAreKnown'
  BY <1>1, LogIs DEF Reload, TabInv, VersionsAreKnown
<1>9. DiskIsSound'
  BY <1>1, <1>2 DEF TabInv, DiskIsSound, DiskState
<1>10. /\ published' \in [tree : 0..Len(log'), slots : SUBSET Slots] /\ published'.slots = {}
       /\ evicted' \in BOOLEAN
  <2>1. PICK tree : tree = (IF joined' THEN Len(log) ELSE 0) /\ published' = [tree |-> tree, slots |-> {}]
    BY DEF Reload
  <2>2. tree \in 0..Len(log)
    BY <2>1, LogIs
  <2> QED
    BY <1>1, <2>1, <2>2 DEF TabInv
<1>11. CardIsSound' /\ CardIsTold'
  BY <1>1, <1>6, <1>10 DEF CardIsSound, CardIsTold, Unwatched
<1> QED
  BY <1>5, <1>6, <1>7, <1>8, <1>9, <1>10, <1>11 DEF TabInv

-----------------------------------------------------------------------------
(* The invariant.                                                           *)

(* A share that starts, in a page that has just been loaded, is sound.      *)
LEMMA TabInit == Init => TabInv
<1> SUFFICES ASSUME Init  PROVE TabInv
  OBVIOUS
<1>1. MaxUpsets \in Nat /\ FirstTree \in [Slots -> {0, 1}]
  BY TabAssumption DEF TabAssumption
<1>2. log = <<FirstTree>> /\ Len(log) = 1 /\ Latest = FirstTree /\ log[1] = FirstTree
  BY DEF Init, Latest
<1>3. FirstTree \in Rows /\ NoRows \in Rows /\ 0 \in Contents
  BY <1>1 DEF Rows, Contents, NoRows
<1>4. log \in Seq(Rows)
  BY <1>2, <1>3
<1>5. LogIsSound
  BY <1>1, <1>2, <1>4 DEF Init, LogIsSound
<1>6. VersionsAreKnown
  BY <1>2 DEF Init, VersionsAreKnown
<1>7. RowsAreKnown(NoRows) /\ RowsAreKnown(rows) /\ bound \in Rows
  BY <1>1, <1>2, <1>3 DEF Init, RowsAreKnown, NoRows
<1>8. SeederIsSound
  BY <1>3 DEF Init, SeederIsSound, NewSeeder
<1>9. TasksAreSound /\ tasks = [t \in Tasks |-> tasks[t]] /\ \A t \in Tasks : tasks[t].pc # "publish"
  BY <1>7, MountedIsSound DEF Init, TasksAreSound
<1>10. DiskIsSound
  BY <1>2 DEF Init, EmptyDisk, DiskIsSound, DiskState
<1>11. published \in [tree : 0..Len(log), slots : SUBSET Slots] /\ published.slots = {}
  BY <1>2 DEF Init
<1>12. CardIsSound /\ CardIsTold
  BY <1>9, <1>11 DEF Init, CardIsSound, CardIsTold, Unwatched
<1> QED
  BY <1>5, <1>6, <1>7, <1>8, <1>9, <1>10, <1>12 DEF Init, TabInv

(* A task that runs keeps the invariant.                                    *)
LEMMA RunStep ==
    ASSUME TabInv, NEW t \in Tasks, Run(t)
    PROVE  TabInv'
<1>1. CASE Fetch(t)
  BY <1>1, FetchStep DEF Fetch, TakePrefetched, AskDifference, AskTree, TakeAnswer, counts
<1>2. CASE LearnRow(t)
  <2>1. t \in {"sync", "keep"}
    BY <1>2 DEF LearnRow
  <2>2. CASE LookUpRow(t)
    BY <2>2, LookUpRowStep DEF LookUpRow, counts
  <2>3. CASE TakeRow(t)
    BY <2>1, <2>3, TakeRowStep
  <2> QED
    BY <1>2, <2>2, <2>3 DEF LearnRow
<1>3. CASE Advertise(t)
  BY <1>3, PersistManifestStep, PersistLocatorStep, ArmStep, CountStep, PublishStep DEF Advertise, Run
<1>4. CASE Refresh
  BY <1>4, ReadRowsStep, SetRowsStep DEF Refresh, ReadRows, counts
<1>5. CASE Sync
  BY <1>5, SyncArmStep, SyncWholeStep, SyncCoverStep, SyncChunkStep, GiveUpStep, SyncMapStep, SyncBindStep
     DEF Sync, SyncFails, counts
<1>6. CASE Keep
  BY <1>6, GiveUpStep, KeepStoreStep, KeepBindStep DEF Keep, KeepNothing, counts
<1> QED
  BY <1>1, <1>2, <1>3, <1>4, <1>5, <1>6 DEF Run

(* So does every step, of the tab, the page and the world.                  *)
LEMMA TabStep ==
    ASSUME TabInv, [Next]_vars
    PROVE  TabInv'
<1>1. CASE \E t \in Tasks : Run(t)
  BY <1>1, RunStep
<1>2. CASE WatchForLostHoldings
  BY <1>2, WatchStep DEF WatchForLostHoldings
<1>3. CASE User
  BY <1>3, BeginStep, ReloadStep, KeepBeginStep DEF User
<1>4. CASE Environment
  BY <1>4, EvictStep, JoinStep, RewatchStep, FollowStep, EditStep, WatchStep DEF Environment
<1>5. CASE UNCHANGED vars
  <2>1. TabRests /\ UNCHANGED <<card, holes, lost, published>>
    BY <1>5 DEF TabRests, HoldingsRest, vars, treeVars, rowVars, seederVars, meshVars, diskVars, lostVars, counts
  <2>2. /\ holes \in Seq(Slots) /\ lost.pc \in {"unwatched", "waiting", "asking"}
        /\ published \in [tree : 0..Len(log), slots : SUBSET Slots]
    BY DEF TabInv, CardIsSound
  <2> QED
    BY <2>1, <2>2, LostStep
<1> QED
  BY <1>1, <1>2, <1>3, <1>4, <1>5 DEF Next

(* Until an eviction each task of a tab has left in the store what its      *)
(* stage says it did, whichever tasks run between its awaits.               *)
THEOREM TabInvariant == Spec => []TabInv
  BY TabInit, TabStep, PTL DEF Spec

-----------------------------------------------------------------------------
(* What follows.                                                            *)

(* The types, of everything the tab holds.                                  *)
LEMMA TypesHold == ASSUME TabInv  PROVE TypeOK
<1>1. Len(log) \in 1..MaxUpsets + 1
  BY LogIs, TabAssumption DEF TabAssumption
<1>2. tasks = [t \in Tasks |-> tasks[t]] /\ \A t \in Tasks : tasks[t].pc \in Anywhere
  BY TaskOf DEF TabInv, TaskState
<1>3. holes \in Seq(Slots) => \A i \in DOMAIN holes : holes[i] \in Slots
  OBVIOUS
<1>4. /\ log \in Seq(Rows) /\ rows \in Rows /\ bound \in Rows /\ seeder.armed \in BOOLEAN /\ seeder.rows \in Rows
  BY DEF TabInv, LogIsSound, RowsAreKnown, SeederIsSound
<1>5. /\ believed \in 1..Len(log) /\ lastTree \in 1..Len(log)
      /\ prefetched \in {0} \cup 1..Len(log) /\ fed \in {0} \cup 1..Len(log)
      /\ envelope \in {0} \cup 1..Len(log) /\ locator \in {0} \cup 1..Len(log)
  BY LogIs DEF TabInv, VersionsAreKnown
<1>6. /\ card \subseteq Slots /\ joined \in BOOLEAN /\ published.tree \in {0} \cup 1..Len(log)
      /\ published.slots \subseteq Slots /\ lost.pc \in {"unwatched", "waiting", "asking"} /\ holes \in Seq(Slots)
  BY LogIs DEF TabInv, CardIsSound
<1>7. /\ disk.chunks \subseteq Slots \X Contents \X Parts /\ disk.maps \subseteq Slots \X Contents
      /\ disk.binds \subseteq [id : Slots \X Contents, row : Contents]
      /\ disk.manifests \subseteq 1..Len(log) /\ synced \subseteq Slots \X Contents
  BY DEF TabInv, DiskIsSound, DiskState
<1> QED
  BY <1>1, <1>2, <1>3, <1>4, <1>5, <1>6, <1>7 DEF TypeOK, Contents, Rows, Anywhere

(* Until the browser evicts, a slot on the card is whole in the tab's       *)
(* store, whatever syncs, keeps, updates and reloads overlap, and whether   *)
(* or not its tasks waited for the mesh.                                    *)
THEOREM CardsAreWhole == Spec => [](TypeOK /\ AdvertisedSlotsAreWhole)
<1>1. TabInv => TypeOK /\ AdvertisedSlotsAreWhole
  BY TypesHold DEF TabInv, CardIsSound, HasContent, AdvertisedSlotsAreWhole
<1> QED
  BY <1>1, TabInvariant, PTL

(* A tab whose tasks wait for the mesh tells it what its grid shows, and    *)
(* what it shows is whole: neither republish nor retraction undoes the      *)
(* other's card.                                                            *)
THEOREM CardsStayTrue == ~LateJoin => (Spec => []CardIsTrue)
<1> SUFFICES ASSUME ~LateJoin  PROVE Spec => []CardIsTrue
  OBVIOUS
<1>1. TabInv => CardIsTrue
  BY TypesHold DEF TabInv, CardIsSound, CardIsTold, HasContent, AdvertisedSlotsAreWhole,
                   CardIsPublished, CardIsTrue
<1> QED
  BY <1>1, TabInvariant, PTL

(* A reload finds what was synced and what was persisted, whatever ran in   *)
(* the page before it: the binds of a sync lead to rows and chunks, and the *)
(* locator to a manifest whose synced files all come back.                  *)
THEOREM StorageComesBack == Spec => []ReloadsComeBack
<1>1. ASSUME TabInv  PROVE SyncedFilesSurvive
  <2> SUFFICES ASSUME ~evicted, Len(log) = 1, NEW id \in synced
               PROVE  \E b \in disk.binds : b.id = id /\ Whole(id[1], b.row)
    BY DEF SyncedFilesSurvive
  <2>1. PICK b \in disk.binds : b.id = id
    BY <1>1 DEF TabInv, DiskIsSound
  <2>2. b.row \in 1..Latest[id[1]] /\ <<id[1], b.row>> \in disk.maps /\ Leaves(id[1], 1) \subseteq disk.chunks
        /\ id[1] \in Slots
    BY <1>1, <2>1 DEF TabInv, DiskIsSound
  <2>3. b.row = 1
    <3>1. Latest[id[1]] \in Nat /\ Latest[id[1]] <= 1
      BY <1>1, <2>2, LogIs
    <3> QED
      BY <2>2, <3>1
  <2> QED
    BY <2>1, <2>2, <2>3 DEF Whole
<1>2. ASSUME TabInv  PROVE PersistedTreesComeBack
  <2> SUFFICES ASSUME ~evicted, locator # 0
               PROVE  /\ PersistedManifest = locator
                      /\ \A s \in Listed(locator) : FileId(locator, s) \in synced => RowsInStore(locator)[s] # 0
    BY DEF PersistedTreesComeBack
  <2>1. locator \in 1..Len(log) /\ disk.opened /\ locator \in disk.manifests
    BY <1>2, LogIs DEF TabInv, VersionsAreKnown, DiskIsSound
  <2>2. \A s \in Listed(locator) : FileId(locator, s) \in synced => \E b \in disk.binds : b.id = FileId(locator, s)
    BY <1>2 DEF TabInv, DiskIsSound
  <2> QED
    BY <1>2, <2>1, <2>2, StoredRowsAreKnown DEF PersistedManifest
<1>3. TabInv => ReloadsComeBack
  BY <1>1, <1>2 DEF ReloadsComeBack
<1> QED
  BY <1>3, TabInvariant, PTL
=============================================================================
