-------------------------------- MODULE Tab --------------------------------
(***************************************************************************)
(* A browser tab that follows a signed share from its producer, keeps what *)
(* it fetches in the browser's storage and seeds it: ShareClient of        *)
(* agent-share-wasm-client/src/lib.rs, over agent-share-mount's Seeder.    *)
(* One event loop runs its tasks; each step below ends at an await, where  *)
(* another task may run, the browser may evict and the user may reload.    *)
(*                                                                         *)
(* A content of a file, its chunk row and its root are one number, counted *)
(* up by edits; a file id is a slot and the content the manifest lists.    *)
(***************************************************************************)
EXTENDS Seeder, Sequences, FiniteSetsExt

CONSTANTS
    FirstTree,     \* the content listed at each slot when the share starts: 1, 0 for no file
    LateJoin,      \* whether tasks may go on before the mesh is joined
    Early,         \* whether the page calls anything before refresh_held ends
    MaxCalls,      \* bound: calls of sync, keep and republish_holdings
    MaxUpsets      \* bound: edits published, reloads and evictions

ASSUME TabAssumption ==
    /\ Slots \subseteq Nat /\ Parts \subseteq Nat /\ FirstTree \in [Slots -> {0, 1}]
    /\ LateJoin \in BOOLEAN /\ Early \in BOOLEAN
    /\ MaxCalls \in Nat /\ MaxUpsets \in Nat

VARIABLES
    log,         \* the trees published: the content listed at each slot, 0 for none
    believed,    \* the version this tab believes, whose file ids it has
    prefetched,  \* a version left for the next fetch_manifest, 0 for none
    fed,         \* the last version the watch stream brought, 0 before the first
    lastTree,    \* last_tree
    rows,        \* the rows memoised
    bound,       \* the binds keep has written
    seeder,      \* the seeder
    envelope,    \* the version whose envelope the seeder serves, 0 for none
    card,        \* CardHoldings::held
    joined,      \* the mesh is joined
    published,   \* the card on the mesh: the tree it names, the slots it lists
    disk,        \* IndexedDB: chunks, rows, binds, manifests
    locator,     \* local storage: the version whose manifest was persisted
    tasks,       \* what each task is at
    holes,       \* slots reported by the seeder and not looked at
    lost,        \* the retraction task
    synced,      \* the files a sync finished with
    calls,       \* counted up to MaxCalls
    upsets,      \* counted up to MaxUpsets
    evicted      \* whether the browser evicted anything

rowVars == <<rows, bound>>
seederVars == <<seeder, envelope, card>>
treeVars == <<believed, prefetched, fed, lastTree>>
meshVars == <<joined, published>>
diskVars == <<disk, locator, synced>>
lostVars == <<holes, lost>>
counts == <<calls, upsets, evicted>>
vars == <<log, treeVars, rowVars, seederVars, meshVars, diskVars, tasks, lostVars, counts>>

\* refresh_held, sync, keep, and republish_holdings called after a download or
\* by the watch callback.  Bound: one of each at a time.
Tasks == {"refresh", "sync", "keep", "publish", "update"}
Publishers == {"publish", "update"}

Idle == [pc |-> "idle", v |-> 0, slot |-> 0, row |-> 0, todo |-> {}, parts |-> {}, content |-> 0, rows |-> NoRows]
Unwatched == [pc |-> "unwatched", slot |-> 0, row |-> 0]
EmptyDisk == [opened |-> FALSE, chunks |-> {}, maps |-> {}, binds |-> {}, manifests |-> {}]

Latest == log[Len(log)]
Listed(v) == {s \in Slots : log[v][s] # 0}
FileId(v, s) == <<s, log[v][s]>>

Mounted == [t \in Tasks |-> IF t = "refresh" THEN [Idle EXCEPT !.pc = "fetch"] ELSE Idle]

\* A page starts with the manifest fetched and on screen and refresh_held
\* called; a prefetch may have landed while the fetch was under way.
Init ==
    /\ log = <<FirstTree>>
    /\ believed = 1 /\ prefetched \in {0, 1} /\ fed = 0 /\ lastTree = 1
    /\ rows = NoRows /\ bound = NoRows
    /\ seeder = NewSeeder /\ envelope = 0 /\ card = {}
    /\ joined \in BOOLEAN
    /\ published = [tree |-> IF joined THEN 1 ELSE 0, slots |-> {}]
    /\ disk = EmptyDisk /\ locator = 0 /\ synced = {}
    /\ tasks = Mounted /\ holes = << >> /\ lost = Unwatched
    /\ calls = 0 /\ upsets = 0 /\ evicted = FALSE

Upset == upsets < MaxUpsets /\ upsets' = upsets + 1 /\ UNCHANGED calls

\* A page loaded again starts like that, over what the storage kept.
Reload ==
    /\ Upset /\ UNCHANGED evicted
    /\ believed' = Len(log) /\ prefetched' \in {0, Len(log)} /\ fed' = 0 /\ lastTree' = Len(log)
    /\ rows' = NoRows /\ bound' = NoRows
    /\ seeder' = NewSeeder /\ envelope' = 0 /\ card' = {}
    /\ joined' \in BOOLEAN
    /\ published' = [tree |-> IF joined' THEN Len(log) ELSE 0, slots |-> {}]
    /\ tasks' = Mounted /\ holes' = << >> /\ lost' = Unwatched
    /\ UNCHANGED <<log, diskVars>>

\* The producer publishes an edited or new file.
Edit(s) ==
    /\ Upset /\ UNCHANGED evicted
    /\ log' = Append(log, [Latest EXCEPT ![s] = @ + 1])
    /\ UNCHANGED <<treeVars, rowVars, seederVars, meshVars, diskVars, tasks, lostVars>>

\* The browser takes back a chunk or a row, a file's or a manifest's, under
\* pressure.
Evict ==
    /\ Upset /\ evicted' = TRUE
    /\ \/ \E address \in disk.chunks : disk' = [disk EXCEPT !.chunks = @ \ {address}]
       \/ \E map \in disk.maps : disk' = [disk EXCEPT !.maps = @ \ {map}]
       \/ \E v \in disk.manifests : disk' = [disk EXCEPT !.manifests = @ \ {v}]
    /\ UNCHANGED <<log, treeVars, rowVars, seederVars, meshVars, locator, synced, tasks, lostVars>>

-----------------------------------------------------------------------------

Go(t, change) == tasks' = [tasks EXCEPT ![t] = change]
End(t) == Go(t, Idle)
Step(t, pc) == Go(t, [tasks[t] EXCEPT !.pc = pc])

Named(tree) == IF joined THEN [published EXCEPT !.tree = tree] ELSE published

\* fetch_manifest with a manifest left for it.
TakePrefetched(t) ==
    /\ tasks[t].pc = "fetch" /\ prefetched # 0
    /\ Go(t, [tasks[t] EXCEPT !.pc = "fetched", !.v = prefetched])
    /\ prefetched' = 0 /\ believed' = prefetched /\ lastTree' = prefetched
    /\ published' = Named(prefetched)
    /\ UNCHANGED <<log, fed, rowVars, seederVars, joined, diskVars, lostVars, counts>>

\* load_persisted_manifest: the version the locator leads to, while the store it
\* leads into still has all of it; 0 for none.
PersistedManifest == IF disk.opened /\ locator \in disk.manifests THEN locator ELSE 0

\* fetch_manifest_difference: a tab that has seeded this share asks only what
\* changed since, and takes it if it rebuilds what the producer signed, which is
\* the version it is at when it answers.
AskDifference(t) ==
    /\ tasks[t].pc = "fetch" /\ prefetched = 0 /\ PersistedManifest # 0
    /\ Go(t, [tasks[t] EXCEPT !.pc = "answered", !.v = Len(log)])
    /\ UNCHANGED <<log, treeVars, rowVars, seederVars, meshVars, diskVars, lostVars, counts>>

\* Any other tab asks for the whole, and so does one whose difference fails.
AskTree(t) ==
    /\ tasks[t].pc = "fetch" /\ prefetched = 0
    /\ Go(t, [tasks[t] EXCEPT !.pc = "answered", !.v = Len(log)])
    /\ UNCHANGED <<log, treeVars, rowVars, seederVars, meshVars, diskVars, lostVars, counts>>

\* The answer is believed, whatever the watch brought meanwhile.
TakeAnswer(t) ==
    /\ tasks[t].pc = "answered"
    /\ Step(t, "fetched")
    /\ believed' = tasks[t].v /\ lastTree' = tasks[t].v /\ published' = Named(tasks[t].v)
    /\ UNCHANGED <<log, prefetched, fed, rowVars, seederVars, joined, diskVars, lostVars, counts>>

\* What difference n rebuilds from version b.
Rebuilt(b, n) == [s \in Slots |-> IF log[n][s] # log[n - 1][s] THEN log[n][s] ELSE log[b][s]]

\* A frame of the watch stream, the opening one whole: believed unless older or
\* not rebuilding what was signed.  A frame believed is left for the page's
\* callback, which re-arms this tab.
Follow(n) ==
    /\ n = IF fed = 0 THEN Len(log) ELSE fed + 1
    /\ n <= Len(log)
    /\ fed' = n
    /\ IF n >= believed /\ (fed = 0 \/ Rebuilt(believed, n) = log[n])
       THEN /\ tasks["update"].pc = "idle"
            /\ believed' = n /\ lastTree' = n /\ prefetched' = n
            /\ Step("update", "fetch")
       ELSE UNCHANGED <<believed, lastTree, prefetched, tasks>>
    /\ UNCHANGED <<log, rowVars, seederVars, meshVars, diskVars, lostVars, counts>>

\* watch goes on while the connection lives: a stream that broke off is opened
\* again and starts with the whole.
Rewatch ==
    /\ Upset /\ fed # 0 /\ fed' = 0
    /\ UNCHANGED <<log, believed, prefetched, lastTree, rowVars, seederVars, meshVars, diskVars, tasks, lostVars, evicted>>

\* The join task: the tree that was recorded is published.
Join ==
    /\ ~joined /\ joined' = TRUE
    /\ published' = [published EXCEPT !.tree = lastTree]
    /\ UNCHANGED <<log, treeVars, rowVars, seederVars, diskVars, tasks, lostVars, counts>>

-----------------------------------------------------------------------------

\* remember_row: the memo, and the seeder if it is armed.
RememberRow(s, row) ==
    /\ rows' = [rows EXCEPT ![s] = row]
    /\ seeder' = AdoptRow(seeder, s, row)

Whole(s, row) == <<s, row>> \in disk.maps /\ Leaves(s, row) \subseteq disk.chunks

\* A root the store has no row for has an empty coverage, and an empty coverage
\* is complete.
CoverageIsComplete(s, row) == <<s, row>> \in disk.maps => Leaves(s, row) \subseteq disk.chunks

Bind(id, row) == [disk EXCEPT !.binds = {b \in @ : b.id # id} \cup {[id |-> id, row |-> row]}]

\* rows_in_store.
RowsInStore(v) ==
    [s \in Slots |->
        LET held == {b.row : b \in {b \in disk.binds : b.id = FileId(v, s) /\ <<s, b.row>> \in disk.maps}}
        IN  IF s \in Listed(v) /\ held # {} THEN CHOOSE row \in held : TRUE ELSE 0]

\* row_for: the memo, or the producer's row of the moment.
LookUpRow(t) ==
    /\ tasks[t].pc = "row"
    /\ LET s == tasks[t].slot
       IN  Go(t, IF rows[s] # 0
                 THEN [tasks[t] EXCEPT !.pc = "known", !.row = rows[s]]
                 ELSE [tasks[t] EXCEPT !.pc = "asked", !.row = Latest[s]])
    /\ UNCHANGED <<log, treeVars, rowVars, seederVars, meshVars, diskVars, lostVars, counts>>

TakeRow(t) ==
    /\ tasks[t].pc = "asked"
    /\ disk' = [disk EXCEPT !.maps = @ \cup {<<tasks[t].slot, tasks[t].row>>}]
    /\ RememberRow(tasks[t].slot, tasks[t].row)
    /\ Step(t, "known")
    /\ UNCHANGED <<log, treeVars, bound, envelope, card, meshVars, locator, synced, lostVars, counts>>

\* The page calls for one of these tasks.
Call(t) ==
    /\ Early \/ tasks["refresh"].pc = "idle"
    /\ tasks[t].pc = "idle"
    /\ calls < MaxCalls /\ calls' = calls + 1
    /\ UNCHANGED <<upsets, evicted>>

-----------------------------------------------------------------------------

ArmSeeder(r, v) == seeder' = Update(seeder, r) /\ envelope' = v

\* republish serves before it advertises.
Republish(t, r) ==
    /\ ArmSeeder(r, tasks[t].v)
    /\ Go(t, [tasks[t] EXCEPT !.pc = "count", !.rows = r])

\* refresh_held: nothing unless a database is there, else the rows it has.
ReadRows ==
    /\ tasks["refresh"].pc = "fetched"
    /\ IF disk.opened
       THEN Go("refresh", [tasks["refresh"] EXCEPT !.pc = "found", !.rows = RowsInStore(tasks["refresh"].v)])
       ELSE End("refresh")
    /\ UNCHANGED <<log, treeVars, rowVars, seederVars, meshVars, diskVars, lostVars, counts>>

\* The memo becomes those rows, whatever was learned meanwhile.
SetRows ==
    /\ tasks["refresh"].pc = "found"
    /\ rows' = tasks["refresh"].rows
    /\ IF rows' = NoRows
       THEN Republish("refresh", NoRows)
       ELSE Step("refresh", "persist") /\ UNCHANGED <<seeder, envelope>>
    /\ UNCHANGED <<log, treeVars, bound, card, meshVars, diskVars, lostVars, counts>>

-----------------------------------------------------------------------------

SyncBegin ==
    /\ Call("sync")
    /\ Go("sync", [Idle EXCEPT !.pc = "fetch"])
    /\ UNCHANGED <<log, treeVars, rowVars, seederVars, meshVars, diskVars, lostVars>>

\* The next file, or the end of the loop.
NextFile(task, todo) ==
    IF todo = {} THEN [task EXCEPT !.pc = "persist", !.todo = {}]
    ELSE [task EXCEPT !.pc = "row", !.todo = todo, !.slot = Min(todo), !.row = 0]

\* sync opens the store, arms the seeder before the first byte and goes over
\* the files that are wanted.
SyncArm ==
    /\ tasks["sync"].pc = "fetched"
    /\ disk' = [disk EXCEPT !.opened = TRUE]
    /\ ArmSeeder(rows, tasks["sync"].v)
    /\ \E only \in (SUBSET Slots) \ {{}} :
        Go("sync", NextFile(tasks["sync"], Listed(tasks["sync"].v) \cap only))
    /\ UNCHANGED <<log, treeVars, rowVars, card, meshVars, locator, synced, lostVars, counts>>

\* The producer has no row for the file: it is read whole, perhaps after an
\* edit, and its row built.
SyncWhole ==
    /\ tasks["sync"].pc = "asked"
    /\ LET s == tasks["sync"].slot
       IN  \E row \in tasks["sync"].row..Latest[s] :
            /\ disk' = [disk EXCEPT !.chunks = @ \cup Leaves(s, row), !.maps = @ \cup {<<s, row>>}]
            /\ RememberRow(s, row)
            /\ Go("sync", [tasks["sync"] EXCEPT !.pc = "bind", !.row = row])
    /\ UNCHANGED <<log, treeVars, bound, envelope, card, meshVars, locator, synced, lostVars, counts>>

\* What the store holds of the row decides what is fetched.
SyncCover ==
    /\ tasks["sync"].pc = "known"
    /\ LET s == tasks["sync"].slot
           row == tasks["sync"].row
       IN  IF CoverageIsComplete(s, row)
           THEN Step("sync", "bind") /\ UNCHANGED <<rows, seeder>>
           ELSE /\ RememberRow(s, row)
                /\ Go("sync", [tasks["sync"] EXCEPT !.pc = "chunks",
                              !.parts = {k \in Parts : <<s, row, k>> \notin disk.chunks}])
    /\ UNCHANGED <<log, treeVars, bound, envelope, card, meshVars, diskVars, lostVars, counts>>

\* fetch_missing: a chunk comes from the producer while the file is what the
\* row says, from other tabs even later.
SyncChunk ==
    /\ tasks["sync"].pc = "chunks" /\ tasks["sync"].parts # {}
    /\ LET k == Min(tasks["sync"].parts)
       IN  /\ disk' = [disk EXCEPT !.chunks = @ \cup {<<tasks["sync"].slot, tasks["sync"].row, k>>}]
           /\ Go("sync", [tasks["sync"] EXCEPT !.parts = @ \ {k}])
    /\ UNCHANGED <<log, treeVars, rowVars, seederVars, meshVars, locator, synced, lostVars, counts>>

\* The bytes of an edited file do not match the row: sync fails.
SyncFails ==
    /\ tasks["sync"].pc = "chunks" /\ tasks["sync"].parts # {}
    /\ Latest[tasks["sync"].slot] # tasks["sync"].row
    /\ End("sync")
    /\ UNCHANGED <<log, treeVars, rowVars, seederVars, meshVars, diskVars, lostVars, counts>>

SyncMap ==
    /\ tasks["sync"].pc = "chunks" /\ tasks["sync"].parts = {}
    /\ disk' = [disk EXCEPT !.maps = @ \cup {<<tasks["sync"].slot, tasks["sync"].row>>}]
    /\ Step("sync", "bind")
    /\ UNCHANGED <<log, treeVars, rowVars, seederVars, meshVars, locator, synced, lostVars, counts>>

\* Mutant: nothing maps the file to its row.
SyncUnbound ==
    /\ tasks["sync"].pc = "bind"
    /\ RememberRow(tasks["sync"].slot, tasks["sync"].row)
    /\ LET id == FileId(tasks["sync"].v, tasks["sync"].slot)
       IN  synced' = synced \cup {id}
    /\ Go("sync", NextFile(tasks["sync"], tasks["sync"].todo \ {tasks["sync"].slot}))
    /\ UNCHANGED <<log, treeVars, bound, envelope, card, meshVars, disk, locator, lostVars, counts>>

\* set_bind, under the id the manifest of the sync gives the file.
SyncBind ==
    /\ tasks["sync"].pc = "bind"
    /\ RememberRow(tasks["sync"].slot, tasks["sync"].row)
    /\ LET id == FileId(tasks["sync"].v, tasks["sync"].slot)
       IN  disk' = Bind(id, tasks["sync"].row) /\ synced' = synced \cup {id}
    /\ Go("sync", NextFile(tasks["sync"], tasks["sync"].todo \ {tasks["sync"].slot}))
    /\ UNCHANGED <<log, treeVars, bound, envelope, card, meshVars, locator, lostVars, counts>>

-----------------------------------------------------------------------------

\* A reader of this tab hands over whole chunks of a file it has just read.
KeepBegin(s, parts) ==
    /\ Call("keep")
    /\ s \in Listed(believed)
    /\ disk' = [disk EXCEPT !.opened = TRUE]
    /\ Go("keep", [Idle EXCEPT !.pc = "row", !.slot = s, !.parts = parts, !.content = Latest[s]])
    /\ UNCHANGED <<log, treeVars, rowVars, seederVars, meshVars, locator, synced, lostVars>>

KeepNothing ==
    /\ tasks["keep"].pc = "asked" /\ End("keep")
    /\ UNCHANGED <<log, treeVars, rowVars, seederVars, meshVars, diskVars, lostVars, counts>>

\* store_row_and_chunks: chunks the row does not address are skipped.
KeepStore ==
    /\ tasks["keep"].pc = "known"
    /\ LET s == tasks["keep"].slot
           row == tasks["keep"].row
           kept == IF tasks["keep"].content = row THEN tasks["keep"].parts ELSE {}
       IN  /\ disk' = [disk EXCEPT !.chunks = @ \cup {<<s, row, k>> : k \in kept},
                                  !.maps = @ \cup {<<s, row>>}]
           /\ RememberRow(s, row)
    /\ Step("keep", "bind")
    /\ UNCHANGED <<log, treeVars, bound, envelope, card, meshVars, locator, synced, lostVars, counts>>

\* The bind goes under the id of the manifest of the moment.
KeepBind ==
    /\ tasks["keep"].pc = "bind" /\ End("keep")
    /\ LET s == tasks["keep"].slot
           row == tasks["keep"].row
       IN  IF bound[s] # row /\ s \in Listed(believed)
           THEN bound' = [bound EXCEPT ![s] = row] /\ disk' = Bind(FileId(believed, s), row)
           ELSE UNCHANGED <<bound, disk>>
    /\ UNCHANGED <<log, treeVars, rows, seederVars, meshVars, locator, synced, lostVars, counts>>

-----------------------------------------------------------------------------

PublishBegin ==
    /\ Call("publish")
    /\ Go("publish", [Idle EXCEPT !.pc = "fetch"])
    /\ UNCHANGED <<log, treeVars, rowVars, seederVars, meshVars, diskVars, lostVars>>

\* persist_manifest: the chunks and the row of the envelope, then the locator.
PersistManifest(t) ==
    /\ tasks[t].pc = "persist"
    /\ disk' = [disk EXCEPT !.manifests = @ \cup {tasks[t].v}]
    /\ Step(t, "locate")
    /\ UNCHANGED <<log, treeVars, rowVars, seederVars, meshVars, locator, synced, lostVars, counts>>

PersistLocator(t) ==
    /\ tasks[t].pc = "locate"
    /\ locator' = tasks[t].v
    /\ Republish(t, rows) /\ UNCHANGED rows
    /\ UNCHANGED <<log, treeVars, bound, card, meshVars, disk, synced, lostVars, counts>>

\* republish_holdings, which fetches and republishes, opens the store first.
Arm(t) ==
    /\ t \in Publishers /\ tasks[t].pc = "fetched"
    /\ disk' = [disk EXCEPT !.opened = TRUE]
    /\ Republish(t, rows)
    /\ UNCHANGED <<log, treeVars, rowVars, card, meshVars, locator, synced, lostVars, counts>>

\* complete_slots of a seeder with these rows.
Complete(r) == {s \in CompleteSlots([rows |-> r], disk.chunks) : <<s, r[s]>> \in disk.maps}

\* The card is recomputed and the tree it indexes into is named.
Count(t) ==
    /\ tasks[t].pc = "count"
    /\ card' = Complete(tasks[t].rows)
    /\ lastTree' = tasks[t].v /\ published' = Named(tasks[t].v)
    /\ Go(t, [tasks[t] EXCEPT !.pc = "publish", !.rows = NoRows])
    /\ UNCHANGED <<log, believed, prefetched, fed, rowVars, seeder, envelope, joined, diskVars, lostVars, counts>>

ServingOf(held) == IF joined THEN [published EXCEPT !.slots = held] ELSE published

\* The card as it is by now is published, and the retraction task started.
Publish(t) ==
    /\ tasks[t].pc = "publish" /\ End(t)
    /\ published' = ServingOf(card)
    /\ lost' = IF lost.pc = "unwatched" THEN [lost EXCEPT !.pc = "waiting"] ELSE lost
    /\ UNCHANGED <<log, treeVars, rowVars, seederVars, joined, diskVars, holes, counts>>

-----------------------------------------------------------------------------

\* A peer reads a slot this tab has a row for, into a hole; it is reported if
\* somebody listens.
MeetHole(s) ==
    /\ seeder.rows[s] # 0 /\ ~CanRead(seeder, disk.chunks, s)
    /\ lost.pc # "unwatched" /\ s \notin {holes[i] : i \in DOMAIN holes}
    /\ holes' = Append(holes, s)
    /\ UNCHANGED <<log, treeVars, rowVars, seederVars, meshVars, diskVars, tasks, lost, counts>>

\* watch_for_lost_holdings takes a report; the row it asks the store about is
\* the seeder's of the moment.
TakeHole ==
    /\ lost.pc = "waiting" /\ holes # << >>
    /\ holes' = Tail(holes)
    /\ lost' = IF Head(holes) \in card
               THEN [pc |-> "asking", slot |-> Head(holes), row |-> seeder.rows[Head(holes)]]
               ELSE lost
    /\ UNCHANGED <<log, treeVars, rowVars, seederVars, meshVars, diskVars, tasks, counts>>

\* Mutant: a slot whose row is known counts as held.
RetractByRow ==
    /\ lost.pc = "asking"
    /\ lost' = [pc |-> "waiting", slot |-> 0, row |-> 0]
    /\ IF lost.row # 0
       THEN UNCHANGED <<card, published>>
       ELSE card' = card \ {lost.slot} /\ published' = ServingOf(card')
    /\ UNCHANGED <<log, treeVars, rowVars, seeder, envelope, joined, diskVars, tasks, holes, counts>>

\* Mutant: the grid is corrected and the card is not.
RetractGrid ==
    /\ lost.pc = "asking"
    /\ lost' = [pc |-> "waiting", slot |-> 0, row |-> 0]
    /\ IF lost.row # 0 /\ Whole(lost.slot, lost.row)
       THEN UNCHANGED card
       ELSE card' = card \ {lost.slot}
    /\ UNCHANGED <<log, treeVars, rowVars, seeder, envelope, meshVars, diskVars, tasks, holes, counts>>

\* A slot the store no longer backs leaves the grid and the card.
Retract ==
    /\ lost.pc = "asking"
    /\ lost' = [pc |-> "waiting", slot |-> 0, row |-> 0]
    /\ IF lost.row # 0 /\ Whole(lost.slot, lost.row)
       THEN UNCHANGED <<card, published>>
       ELSE card' = card \ {lost.slot} /\ published' = ServingOf(card')
    /\ UNCHANGED <<log, treeVars, rowVars, seeder, envelope, joined, diskVars, tasks, holes, counts>>

-----------------------------------------------------------------------------

Fetch(t) == TakePrefetched(t) \/ AskDifference(t) \/ AskTree(t) \/ TakeAnswer(t)
Advertise(t) ==
    \/ PersistManifest(t) \/ PersistLocator(t)
    \/ Arm(t) \/ Count(t) \/ Publish(t)
Refresh == ReadRows \/ SetRows
Sync == SyncArm \/ SyncWhole \/ SyncCover \/ SyncChunk \/ SyncFails \/ SyncMap \/ SyncBind
Keep == KeepNothing \/ KeepStore \/ KeepBind
LearnRow(t) == t \in {"sync", "keep"} /\ (LookUpRow(t) \/ TakeRow(t))

Run(t) ==
    /\ joined \/ LateJoin
    /\ \/ Fetch(t) \/ LearnRow(t) \/ Advertise(t)
       \/ t = "refresh" /\ Refresh
       \/ t = "sync" /\ Sync
       \/ t = "keep" /\ Keep
WatchForLostHoldings == TakeHole \/ Retract

User == SyncBegin \/ PublishBegin \/ Reload \/ \E s \in Slots, parts \in (SUBSET Parts) \ {{}} : KeepBegin(s, parts)
Environment == Evict \/ Join \/ Rewatch \/ (\E n \in 1..MaxUpsets + 1 : Follow(n)) \/ \E s \in Slots : Edit(s) \/ MeetHole(s)

Next == (\E t \in Tasks : Run(t)) \/ WatchForLostHoldings \/ User \/ Environment

Spec == Init /\ [][Next]_vars

\* A republish that began to advertise goes on, and so does the retraction
\* task; every slot this tab has a row for goes on being read.
FairSpec ==
    /\ Spec
    /\ WF_vars(\E t \in Tasks : Publish(t))
    /\ WF_vars(WatchForLostHoldings)
    /\ \A s \in Slots : WF_vars(MeetHole(s))

-----------------------------------------------------------------------------

\* Every variable holds what the code's types and this abstraction allow.
TypeOK ==
    LET Versions == 1..Len(log)
        Contents == 0..MaxUpsets + 1
        Rows == [Slots -> Contents]
    IN  /\ log \in Seq(Rows) /\ Len(log) \in 1..MaxUpsets + 1
        /\ believed \in Versions /\ lastTree \in Versions
        /\ prefetched \in {0} \cup Versions /\ fed \in {0} \cup Versions
        /\ rows \in Rows /\ bound \in Rows
        /\ seeder.armed \in BOOLEAN /\ seeder.rows \in Rows
        /\ envelope \in {0} \cup Versions /\ card \subseteq Slots
        /\ joined \in BOOLEAN /\ published.tree \in {0} \cup Versions /\ published.slots \subseteq Slots
        /\ disk.chunks \subseteq Slots \X Contents \X Parts /\ disk.maps \subseteq Slots \X Contents
        /\ disk.binds \subseteq [id : Slots \X Contents, row : Contents]
        /\ disk.manifests \subseteq Versions /\ locator \in {0} \cup Versions
        /\ synced \subseteq Slots \X Contents
        /\ \A t \in Tasks : tasks[t].pc \in
            {"idle", "fetch", "answered", "fetched", "found", "row", "asked", "known", "chunks",
             "bind", "persist", "locate", "count", "publish"}
        /\ lost.pc \in {"unwatched", "waiting", "asking"}
        /\ \A i \in DOMAIN holes : holes[i] \in Slots

\* On the mesh, with no republish about to set it, the card lists what this
\* tab's own grid says it holds: the grid, the publish path and the retraction
\* task "all read one copy" (CardHoldings), and none undoes the other's card.
CardIsPublished ==
    joined /\ (\A t \in Tasks : tasks[t].pc # "publish") => published.slots = card

\* Until the browser evicts, a slot on the card has all its chunks here, under a
\* row this tab learned: what a card claims is whole, not begun ("Only complete
\* slots go on the card", lib.rs), whatever syncs, keeps and updates overlap.
AdvertisedSlotsAreWhole ==
    ~evicted =>
        \A s \in published.slots : \E row \in 1..MaxUpsets + 1 : Leaves(s, row) \subseteq disk.chunks

\* While nothing is evicted or edited, a file a sync went through comes back
\* after any reload: its id leads to a row, and the row to every chunk.
SyncedFilesSurvive ==
    ~evicted /\ Len(log) = 1 =>
        \A id \in synced : \E b \in disk.binds : b.id = id /\ Whole(id[1], b.row)

\* Until the browser evicts, what the locator of a resting or reloaded tab names
\* stands the share back up: its manifest is whole in the store, and each file a
\* sync went through under it leads to a row (load_persisted_manifest).
PersistedTreesComeBack ==
    ~evicted /\ locator # 0 =>
        /\ PersistedManifest = locator
        /\ \A s \in Listed(locator) : FileId(locator, s) \in synced => RowsInStore(locator)[s] # 0

\* A slot on the card that an eviction made unreadable leaves the card or is
\* filled again, while peers go on reading (watch_for_lost_holdings).
LostSlotsAreRetracted ==
    \A s \in Slots :
        (s \in published.slots /\ ~CanRead(seeder, disk.chunks, s))
            ~> (s \notin published.slots \/ CanRead(seeder, disk.chunks, s))

\* What the mesh is told of this tab is what the tab has, and no less.
CardIsTrue == TypeOK /\ CardIsPublished /\ AdvertisedSlotsAreWhole

\* A reload finds what was synced and what was persisted.
ReloadsComeBack == SyncedFilesSurvive /\ PersistedTreesComeBack
=============================================================================
