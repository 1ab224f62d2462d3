# agent-share in TLA+

agent-share shares a directory from one process to others, live: a *producer*
serves a folder, *mounts* show it as a file system, *mirrors* copy it and may
serve the copy, *browser tabs* preview, download and seed it. This directory
holds a TLA+ model of the program, TLC configurations that check it on small
instances, and proofs checked by TLAPS.

Paths below abbreviate `src/crates/agent-share/src/mount/` to `mount/`,
`src/crates/agent-share-proto/src/` to `proto/`,
`src/crates/agent-share-mount/src/` to `serve/`,
`src/crates/agent-share-wasm-client/src/` to `wasm/` and
`src/packages/agent-share-web/src/` to `web/`. Line numbers are those of the
commit the model was written from; `PROJECT.json` maps each definition to its
lines.

## The system

| Part | State it keeps | Operations | Talks to |
|---|---|---|---|
| Manifest and authorship (`proto/manifest.rs`, `authorship.rs`) | none: tables of directories and files, tombstones, deltas, signed envelopes | `apply`, `apply_since`, `apply_watch_frame`, `accept`, sign and verify | everybody |
| Live tree (`mount/live.rs`, `scan.rs`) | the tree, `index_of`, the table READ opens from, version and signature, a budgeted history of deltas, the broadcast ring | `authored`, `apply`, `deltas_since`, the watcher's debounce loop | the disk's notify events; `serve.rs` |
| Serve loop (`serve/serve.rs`, `mount/source.rs`) | one task per stream; a broadcast receiver per watch | manifest, manifest since, read, row, chunk, watch | mounts, mirrors, tabs |
| Mount (`mount/consume.rs`, `nfs.rs`) | the signed manifest held, the mounted tree, the card | attach, bootstrap, follow, publish its serving field | producer, seeders, mesh |
| A mount's sources (`mount/sources.rs`) | cached rows, the active source, strikes, the seeder | `read`, `read_chunks`, `adopt_into_seeder`, `read_from_peers`, `serving` | producer, other mounts |
| Seeder (`serve/seed.rs`) | rows, the scope of addresses it answers, the envelope, arming | `update`, `adopt`, `complete_slots`, `answer_read`, `answer_chunk` | the chunk store |
| Serving field (`proto/serving.rs`) | none | `encode_serving`, `decode_serving` | the card on the mesh |
| Mirror (`mount/mirror.rs`) | the copy, its sidecar (manifest, secret, author key, token) | one run: manifest, sidecar, files, check; re-serve | producer |
| Mesh driver and card book (`mount/mesh.rs`, `wasm/mesh.rs`, `proto/client.rs`, `roster.rs`) | the peers present, the card book, two cells of this peer's card | join, publish, refresh, tick, leave | gossip (external) |
| Producer's card (`mount/produce.rs`) | fingerprint and serving field | join, republish after a change | mesh |
| Tab (`wasm/lib.rs`, `wasm/seed.rs`) | rows, file ids, holdings, store, card, followed tree | sync, keep, republish, retract, persist, resume | producer, mesh, other tabs |
| Tickets, authentication, framing (`proto/ticket.rs`, `lookup.rs`, `auth.rs`, `framing.rs`) | none | mint and read a ticket, derive a token, encode and decode every request and answer | everybody |
| Connecting tab (`wasm/lib.rs`, `link.rs`, `mesh.rs`) | the registered membership, the records of remembered seeders, attempts under way | race origin against mesh, vet, adopt, challenge, leave | producer, mesh |
| Data channels (`wasm/lib.rs`, `mount/webrtc.rs`) | two hubs of channels in a tab, one natively | offer, answer, reuse, complete, watch the channel's health | peers, fofoca's transport (external) |
| Swarm transfer (`wasm/swarm.rs`, `lib.rs`) | the peers joined, plan, queues, the store | dial the swarm, ask holdings, plan, drain, fall back on home | other tabs, home peer |
| Producing tab (`wasm/produce.rs`, `live_state.rs`, `web/lib/produce.ts`) | tree and envelope, watchers, the chunk table | rescan, update, undo, build a row, answer | the picked folder, peers |
| Web session (`web/components/session`, `web/lib/client`, `web/lib/webmcp`) | the cache of clients, a mount's phase, its dial loop and revival, the agent's entry | mount, dial, ask a password, revive, release | the wasm client |
| Streaming (`web/lib/stream`, `web/service-worker`) | page: published streams, live channel; worker: registry, waiting reads | register, recover, range, read, release | the media element |
| visage, moonspace, CLI, packaging | interface and tooling | | |

What makes it hard:

* **Live trees.** Peers address files by slot. Slots outlive deletions and
  returns, deltas are served from a history that forgets, frames repeat, lag
  and get lost, and what a reader rebuilds must be what the producer signed.
* **Many sources.** A read mixes parts from the origin and from peers while the
  file is edited, the origin fails and peers leave; what is read becomes
  something this peer serves and advertises.
* **Interruptions.** A mirror's run may be killed between any two writes, a
  producer restarts and counts versions from 1 again, the browser stops an idle
  service worker and closes tabs.
* **Shared state under several locks or awaits**, in `sources.rs`, in the tab and
  in the cache of clients that sessions share.
* **Races on purpose.** A tab dials the origin and the mesh at once, forms two
  data channels to one peer, and gives up the slower; what loses must neither leak
  nor take down what won.
* **Cards.** What a peer tells of itself travels by gossip, is published from two
  cells on a timer, outlives its author, and is all a reader chooses sources by.
* **Edges of encodings**: caps on manifests and frames, the size at which a
  serving field changes form.

What would make each part correct: a slot names one path for ever and READ opens
what the listing names; a reader shows a published tree and comes to show the
current one; a read returns one content of the file it names and ends; a
card lists only what can be read here; a serving field says what is held;
a mirror that ends well is exact and one that was interrupted serves nothing
under the wrong name; the kernel's handles never come to name another file; an
attach believes the right peers and blames the right cause; a client is never
closed under its user and an open page comes to show one; a download has every
chunk; an element gets the bytes of the position it asked for,
and every request is answered. `PROJECT.json` lists the hazards behind these at
their lines, with the properties that cover them.

## The modules

**`Manifest`** — operators. A manifest is `[dirs, files]`: `dirs` a sequence of
entries, `files` a sequence over slots (slot *i* of the code is entry *i + 1*),
`Tombstone` for a deleted one. `ApplyDelta` is `MountManifest::apply`,
`ApplySince` and `ApplyWatchFrame` the two ways a signed difference is taken,
`Acceptable` the version rule of `SignedManifest::accept`. A signature is the
value it signs, so "verifies" is equality of what was rebuilt with what was
signed, order included; with `Signed = FALSE` there is none, as in the code.
Sizes are counted in entries, modification time and size of a file are one
*stamp*. Bytes of the encodings are left out.

**`LiveTree`** (`live.rs`, `scan.rs`) — the disk, the watcher task, the tree.
`Touch` is a change on the disk, with its event if somebody watches;
`StartWatcher`, `Settle` (an event opens the debounce window, and further events
extend it), `Scan`/`ScanFails`, `Apply` and `Send` are the steps of the task in
`spawn_watcher`, apart because changes fall between them. `Apply` is the whole
function: new slots, new table for READ, delta, new version, signature,
`Remember` with the history budget, and the frame. `log` and `sent` are history
variables: every manifest published, every frame sent.

**`Watch`** (`consume.rs` `watch_tree`/`follow_watch_stream`, `serve.rs`
`OP_WATCH`, `source.rs`) — extends LiveTree with the streams of `Mounts`.
`Subscribe` precedes `WriteOpening`, as in the code; `Lag` is a receiver that
fell out of the ring of `Backlog` frames; `RefuseLength` a frame over the cap,
`Lose` a lost connection, which inside a frame is an error (retry) and between
two frames reads as a clean end. A mount whose first fetch is done is attached;
`Receive` is verification, application and the rebuilding of the tree in one
step, which the code does without an await in between that others can see.

**`PublishedTree`** — the abstract specification: readers show published trees,
whole, moving forward only. `Watch` implements it under `Promise`, checked as a
property.

**`Serving`** — `serving.rs` as operators, used by `Sources`; `MCSources` checks
them over every holding of a few slots.

**`Seeder`** — `seed.rs` as operators on a record, extended by `Sources` and `Tab`.

**`Sources`** (`sources.rs`, with the origin's `answer_read` and the serving task
of `consume.rs`) — a read is a process: `LookUpRow`, `AskRow`, `KeepRow`,
`ReadChunk` per part, `Adopt` and `Arm` (the check, the copy of the cache and
the update of `adopt_into_seeder`, each under a lock of its own), or
`ReadRanged`, `RetryOrigin`, `AskPeer`. Around it the environment edits files,
stops and restores the origin, and makes peers leave. The content of a file is a
number, counted up by edits, and a row names the content it addresses.

**`Mirror`** (`mirror.rs`, `LiveTree::mirrored`, the keys of a restarted
`produce.rs`) — extends LiveTree with lives of the producer and one folder. A
run is the sequence of its writes and calls; `Crash` may fall between any two.
`CopyServes` is what `serve` on the copy would answer.

**`Stream`** (`service-worker/index.ts`, `lib/stream`) — one published stream:
the page with its channel and published map, the worker with registry, waiting
reads and request ids, the ports between them with messages in flight, and a
media element that requests ranges, pulls and seeks away. `Die` is the browser
stopping a worker that has no fetch event to finish; messages between page and
worker process stay in order (`toWorker`), replies of the page's reads do not,
since the page runs its reads concurrently.

**`Tab`** (`wasm/lib.rs`, `wasm/mesh.rs`, over `Seeder`) — a tab that follows a
signed share from its producer. Five tasks of one event loop (`refresh_held`,
`sync`, `keep`, and `republish_holdings` called after a download or by the watch
callback) each keep their place and locals in `tasks`, and every step ends at an
await of the code. The stages they share are actions of a task: fetching the
manifest (`TakePrefetched`, `AskTree`, `TakeAnswer`), learning a row (`LookUpRow`,
`TakeRow`), persisting and advertising (`PersistManifest`, `PersistLocator`,
`Arm`, `Count`, `Publish`: the seeder is armed, the card counted from the store,
the tree named, the slots published). A tab that persisted a manifest
asks for the difference first (`AskDifference`). `Follow` is a frame of the watch, and
`Rewatch` its stream broken off and opened again; `TakeHole`
and `Retract` are the retraction task on either side of its question to the
store. `disk` is IndexedDB, with `synced` as history. Around it the producer
edits, the browser evicts a chunk, a row or a manifest, and the user reloads the page. The
producer is reachable throughout; the task `refresh` runs once per page, as the
session does. A file read whole while it is edited, whose row would match
neither content, is left out.

**`Roster`** (`proto/client.rs`, `roster.rs`) — operators: a card value, what a
reader makes of it, and the live cards of a meta document.

**`Mesh`** (`mount/mesh.rs`, `produce.rs`, `consume.rs` `attach`,
`bootstrap_from_seeders`, `spawn_serving_updates`) — every endpoint of a share: the
origin, mirrors that re-serve a copy, mounts. Joining, publishing a card from the
two cells (`SetCell` asks, `Republish` is the driver's event loop), the hooks for
peers that come and go, the tick, and leaving or being killed. `MetaApplied`, one replica
catching up with another, stands for gossip, `Evict` for the engine's sweep. On it a mount attaches:
redeem the ticket, join, ask the origin, and when it is dead wait for cards, count
votes and dial whoever vouches, then publish what it serves.

**`TabPeer`** (`wasm/mesh.rs`, and `connect`, `fetch_manifest`, `publish_serving`,
`leave_mesh`, `shutdown_mesh` and `swarm_rows` of `wasm/lib.rs`) — extends Mesh with a
browser tab that reaches the origin. It gives a password before any dial
(`TabRedeems`), joins behind the page (`TabSpawns`, `TabStarts`) while the first
manifest is fetched (`TabFetches`) or refused (`TabRefused`), publishes what it keeps,
and leaves or is closed with the join at any stage. `tab[t].slot` is the `MeshSlot`.
What it stores is Tab's, the seeder lane Connect's, other tabs' channels Swarm's.

**`Ticket`** (`ticket.rs`, `lookup.rs`) and **`Exchange`** (`framing.rs`, `auth.rs`,
`serve_stream`, and the fetches of both clients) — operators: the wire as sequences
of units, encoders and decoders, what a producer sends for a request and what each
client makes of an answer.

**`Inodes`** (`nfs.rs`) — the inode table and its builder as operators. **`Mounted`**
(`nfs.rs`, `consume.rs`) — the kernel that lists page by page and reads through
fileids of any age, the watch task that swaps the table, and the client both ask
through: a cached connection, a lock held across the dial, one retry.

**`WebProducer`** (`wasm/produce.rs`, `live_state.rs`, `web/lib/produce.ts`) — the
rescan loop over picked files, `Update` with its undo past the cap, signing,
watchers, and requests that build rows and read chunks across awaits through the
three maps of the chunk table.

**`Session`** (`web/lib/client`, `components/session`, `lib/webmcp/session.ts`) —
promises of `connect` in a cache, the mounts of the session component one after the
other, each with a dial loop, a revival and a poll, the password gate, and an
agent's calls. `Microtask` steps come before any timer or event (`Idle`).

**`Connect`** (`wasm/lib.rs` 563-815, 3369-5104) — connects of one tab: the origin's
dial and the seeder lanes, the waiting membership and its owners, the records in
local storage, vetting with its bulk probe, and release. A candidate whose connection
lands (`peer_answered`) raises `proven` at once; the vet behind it (`Serves`) ends in a
win (`Won`), a refusal (`Refused`), or the lane's deadline (`RedialOver`, `RaceOver`).
What a channel carries of one read before it freezes is `peer[p].reach`; a read that is
slow passes, unless the lane's deadline falls in the middle of it, as in the code.

**`Swarm`** (`wasm/lib.rs`, `swarm.rs`, `mount/webrtc.rs`) — one peer's channels to
the others, seen from both ends: the mount is carried by one, a swarm is dialled
over the mesh's or the mount's hub, and files are downloaded through it. `Plan` is
the planner as an operator, its sorts the one order `InOrder` names; `Drain`, `AskHome` and `StoreChunks` are the download.

**`LiveTreeProofs`**, **`ReadsProofs`**, **`StreamProofs`**, **`TabProofs`**,
**`ConnectProofs`**, **`SessionProofs`**, **`WebProducerProofs`**, **`PeersProofs`** —
theorems; see *What is proved*. The `MC` modules name the sets and the
samples the configurations use; `MCSources`, `MCSwarm` and `MCWire` (of `Ticket` and,
with `MCExchange`, of `Exchange`; `MCStream` extends it) state in addition what is asked
of the operators over every sample, and
`MCSources`, `MCConnect` and `MCMesh` choose between two small instances in the initial
state.

Operators named `…NotGrown`, `…Forgetting`, `…Unchecked` and the like, each
under a comment that begins "Mutant", are plausible mistakes; `PROJECT.json`
pairs each property of a run with one under which it fails, so that none holds by
accident. Properties of a run are conjunctions of named parts where several
statements say one thing together; the parts carry their own comments.

## The runs

| Run | What it checks |
|---|---|
| `Watch_unsigned` | A directory and two files come, vanish and return, three changes; one mount follows; history of 2, ring of 1, one frame in flight, one loss, a manifest cap that three entries reach. Unsigned, so nothing but the protocol's order catches a mistake. Slots: `SlotsAreStable`, `ServedMatchesListing`. Deltas: `DeltasAreSound` (a chain rebuilds the tree, applied twice it changes nothing). The mount: `MountsStayPublished`, and `ImplementsPublishedTree`, the refinement. |
| `Watch_live` | A signed share with edits and a rescan that may fail. `NoticedChangesArePublished`: a change the watcher is told of reaches the published tree, whatever it races with, unless a rescan fails. `FollowersConverge`: a mount whose watch task still runs comes to show the current tree, through lags and losses. |
| `Sources_reads` | Two reads at once of a file in two parts around an edit, an outage, a peer that leaves and one on another tree; or one read at a time with a store that may fail to keep a chunk. `ReadsAreSound` (one content, one the origin gave that slot), `AdvertisedSlotsAreServable`, `LoneReadsAreSeeded`, `ReadsEnd`. Over every holding of a few slots at sizes around the two limits: `ServingFieldsAreTrue`. |
| `Mirror_copies` | Two runs into one folder, of everything or of one file, an edit that keeps its length, a restarted producer, an interrupted run. `CopiesAreExact` (a run holds a published manifest, ends well only with an exact copy, and an earlier one's half-written copy cannot stop it), `RunsEnd`. |
| `Stream_ranges` | Seven bytes in chunks of two, reads of at most four; two requests out of a whole body, a start inside a chunk, an end inside one, a suffix and one past the end; seeks, answers in any order, one failed or empty read, one stopped worker, a release. `StreamsAreTrue` (answers meet their reads, what is played is kept), `NothingHangs`. `WireReadsTrue`, of what a stream's bytes come over: 384 minted tickets and each of their prefixes, every op with every password, producer age and point at which the request or the answer breaks off, and some thousands of bodies a peer makes up. It is about operators alone, and asked for in the initial states. |
| `Tab_holdings` | One file in two chunks; two calls of `sync`, `keep` or `republish_holdings`, the watch and the retraction task interleaved at every await, and one edit, reload or eviction anywhere. `CardIsTrue`: the card is the grid's and lists whole slots. `LostSlotsAreRetracted`; `ReloadsComeBack`: what was synced and persisted survives a reload. |
| `Mesh_attach` | An origin that changes its tree and stops by a signal and, under two tickets, one of two parties, each with a right or a wrong password: a mirror that is killed and a mount, or a tab. `PeersAreHonest`: a card that vouches is true of its mount, a bootstrap takes the majority, only a wrong password is blamed, and a tab's card says it has bytes only under a tree it knows and with some kept. `DepartedPeersAreDropped` (of the peers a tab lists as well), `NewsReachesEveryBook`, `AttachEnds`. |
| `Mounted_view` | Four frames over two names and a directory, pages of one entry, reads larger than the producer's cap, two dead connections. `KernelSeesTheTree` (a handle names one path for ever, a listing misses nothing that stayed), `ReadsAreCarriedThrough`, `ReadsComeBack`. |
| `WebProducer_share` | A folder of two or three files edited twice while it is walked, a cap of two slots, two requests at once. `SignedTreesAgree` (one version one tree, one slot one path), `WatchersHoldTheLatest`, `ChunksAreTrue`, `QuietScansPublish`. |
| `Session_tabs` | Two mounts one after the other and an agent's call over one cache; one failed dial, one dead connection, one typed password. `SessionsAreOrderly`: no client that left is handed out, a revival keeps the old client serving, the gate forgets the password. `OpenSessionsComeUp`. |
| `Connect_race` | Two connects against a slow origin and one seeder, or one, whose cap may be tight, against two seeders, one change of the world; one seeder may be at the end of a channel that freezes on the payload; a lane's deadline may fall anywhere. `ClientsAreWellHomed`, `RecordsAreSpentByEvidence`, `LiveOriginsAreReached`. |
| `Swarm_lanes` | A tab mounted over a channel downloads two files of two chunks through two peers, with one trouble: a channel lost or half formed, a stall, a blip. `DownloadsAreTrue`, `DownloadsEnd`, and `PlansAreWhole` over every plan of three chunks and three peers' claims. |

Every run passes. Where the code departs from what a comment says, the property is
asked of the part that holds; *Conditions worth knowing* and *Observed* say which.

### Bounds, and why they are enough

Every bound is a constant named `Max…` and appears in the guard of one action.

* *Changes* (`MaxTouches` 2 or 3, `MaxContent` 2). Three reach every case of a
  slot's life: vanish, return, and another change in the same scan. With three
  and a history of 2 the oldest link is dropped and a delta over `MaxDelta`
  clears the history. `Watch_unsigned` gives a file one stamp, so it covers
  coming and going; edits of a listed file are in `Watch_live`.
* *Peers, mounts, readers.* Mounts do not interact, so one is enough. Two
  readers and two peers are what a mix of parts and a failover need.
* *Channels.* A ring of 1 and one frame in flight make a lag happen after two
  sends. Larger ones only delay it.
* *Faults* (`MaxLosses`, `MaxOutages`, `MaxCrashes`, `MaxRestarts`, `MaxDeaths`,
  `MaxFailures`, `MaxScanFailures`): one of each, at any point, together with
  everything else. `MaxRuns` 2 is what a run over the remains of another needs.
* *A tab.* One task of each kind at a time, two calls (`MaxCalls`) next to the
  watch and `refresh_held`, and one upset (`MaxUpsets`): an edit, a reload or an
  eviction. Two calls make any two of the tasks overlap. With one edit no frame is
  refused, so the refusing branch of `Follow` needs `MaxUpsets = 2`: the
  invariants hold there too (8.4 million states, too long to keep as a run).
* *Meshes.* An origin, a mirror and a mount are one of each role; a second mount
  would only repeat the first. `Parties` says who comes beside the origin: the mirror
  and the mount, or a tab. Together they are too large to check; a tab reads its
  origin and no mirror, and mount and tab meet only through cards that are the same. Two trees make a vote that can be split, and a tree
  that a card still names.
* *Sessions* (`MaxDials`). A revival retries for as long as the page lives; after
  six promises it tries no more, which bounds the cache's history. The faults and
  deaths it answers to are fewer.
* *Connects* (`MCConnect`'s `Small`). Two attempts race over the membership; two
  seeders make one lose. Both at once is too large to check and adds the product
  of the two. The tight cap concerns one attempt's dial alone, so the instance of
  two attempts goes without it.
* *Channels and downloads* (`MaxTroubles` 1, `MaxFetches` 2). The second download
  finds the swarm as the first left it. Three chunks or two troubles exceed the
  time of a run; plans are checked apart, over three chunks and three peers.
* *A cap reached.* `WebProducer_share` fits two slots of three paths: a deletion
  and an addition overflow it, which is when `Update` is undone.
* *Sizes.* `Sources_reads` lowers the character limit to 8 so that all three
  forms occur; the formulas are those of the code. `Stream_ranges` keeps the
  ratio of a read to a chunk above one and a size that is no multiple of either.

### Fairness

* Producer and mounts run their tasks on a multi-threaded runtime, so the
  watcher's steps, the serve task of each stream and the follow task of each
  mount are each weakly fair. Changes on disk, failures and losses are not owed.
* A read's steps are weakly fair: every call ends in an answer or a timeout.
* A mirror's run is one task with the same argument.
* Between a page and a running worker, messages are delivered, the recovery
  timer fires, and a read the page makes ends: weak fairness of the page's
  steps, the worker's steps and the timer. The element owes nothing.
* On a mesh the drivers' event loops and ticks, gossip, the engine's sweep of silent
  peers, timers and the steps of an attach go on: some one of them is taken while
  there are any. What users do, changes, reads and stops, is not owed. A
  tab's background tasks (`TabTask`) go on as well, while its page lives.
* A mount's requests: tokio's mutex is a fair queue, so a waiting task gets the
  lock (strong fairness of taking it); a dial ends at its deadline, and a silent
  peer's connection times out.
* A page's microtasks, answers and timers go on (`Session`); nothing obliges a dial
  to succeed, but only `MaxFaults` fail.
* In a connect its own steps and timers go on (`Races`); in a download the task's,
  the health watcher's tick, and QUIC's timeout of a swarm peer's connection. The
  home connection is not given QUIC's timeout: the watcher is there to be sooner.
* In a tab, a republish that began to advertise goes on and the retraction task
  runs: both wait for local calls only. Peers go on reading the slots they know,
  since an eviction is only noticed by a read (`serve/seed.rs:220-232`).

### Conditions worth knowing

* `FollowersConverge` is checked over one directory and asked of mounts whose watch
  task runs. A new directory that sorts before a listed one breaks it: the
  producer lists in scan order (`live.rs:427`), a reader's `apply` appends
  (`manifest.rs:302`), so the rebuilt bytes are not the signed ones although the
  test at `live.rs:871` promises they are. A refused frame is skipped, not asked
  for again, and every later delta is refused too. And a connection lost between
  two frames is taken for the producer's clean end (`consume.rs:764`): such a mount
  never follows again.
* `NoticedChangesArePublished` excludes behaviours with a failed rescan: a rescan
  that fails spends its events.
* `LoneReadsAreSeeded` is asked of reads one at a time. Two find the seeder unarmed,
  the one that copied the row cache first updates last, and the other's row is
  dropped from the seeder (`sources.rs:184`); a later read finds the chunks in the
  store, fetches nothing and adopts nothing. With a store that fails as well, a
  slot may be advertised and unreadable until the next publish.
* `ReadsAreSound` does not say "the current content". A row is cached for the life
  of the mount (`sources.rs:189`): an edited file is shown with its new size and
  time, and read as it was, though `README.md:14` calls the share live.
* `AdvertisedSlotsAreServable` holds for the files present at the attach. The
  count of slots is frozen then (`sources.rs:153`): read a file added later and
  as many slots are held as the count says exist, so the card says "all".
* `CopiesAreExact` is checked and proved with `PasswordMayChange = FALSE`. The
  password's token is written for a protected share and never removed
  (`mirror.rs:311`), so a copy of a share since restarted without a password keeps
  the old one.
* `NothingHangs` is checked for a prompt page
  (`PromptPage`): what it posts arrives before the fetches it leads to, and its
  answer to `whoOwns` before the recovery timer. A slower page registers a second
  time while a response reads by the first port; the answers then go out on the
  second and the response is never settled. It speaks of
  reads on the registration of the moment: one that pulls after its release posts
  on a closed port (`service-worker/index.ts:203`).
* `StreamsAreTrue` speaks of answers that meet the read that asked. A read dropped by
  a seek is answered after the worker was stopped: the page replies on the live
  channel (`stream/index.ts:183`), the new worker counts ids from 1 again, and its
  first read gets the bytes of another offset, which `range.ts:50` rules out. For the
  same reason what was played is asked to be kept only where every read was answered
  in the worker's life that asked: an answer left over from a shorter read ends a
  window early and its last chunk is not whole.
* `CardIsTrue` is checked and proved with the mesh joined before the tab's tasks go on
  (`LateJoin = FALSE`). The join task publishes the tree that was recorded and never
  the slots (`wasm/lib.rs:766`, against its comment and those at 2101 and 2155): a
  tab whose first `refresh_held` or `sync` ends before the mesh is joined
  advertises nothing until it republishes.
* `LostSlotsAreRetracted` is checked with no call before `refresh_held` ends
  (`Early = FALSE`). Otherwise a row that a `keep` learns meanwhile is dropped from
  the table (`wasm/lib.rs:2124`); a publish that overlaps it may count the slot
  under the old table and arm the seeder with the new: it is advertised, refused
  as an unknown slot, and that refusal is not reported (`serve/seed.rs:408-437`).
* `ReloadsComeBack` speaks of tabs nothing was
  evicted from, the first of a tree without an edit: after one, `sync` and `keep`
  may bind the row of one content to the id of the other.
* `CardIsTrue` asks for a row this tab learned, not the seeder's of the
  moment: two rows asked for around an edit may leave the seeder on the one the
  card was not counted under.
* In `Mesh` producers start joined and knowing one another. `NewsReachesEveryBook`
  speaks of changes the producer was listening for: the card's fingerprint is taken
  at join and the subscription starts afterwards (`produce.rs:176`), and a change in
  between is published only with the next. Publishing the same card twice is one
  card; a mirror serves one tree for ever; only peers that are gone are evicted; a
  publish never fails. A fetch or a dial may fail at any time. An edit's new tree and
  serving field reach the cells together (`OriginFollows`), where the code awaits one
  and then the other; a mount that may use WebRTC only is left out.
* In `Tab` the puts of one file's chunks, and of one call's whole body, are one step,
  since their order is kept and each is idempotent; a file fetched whole (`SyncWhole`)
  has its row remembered once more with its bind, which the code does not repeat
  (`wasm/lib.rs:1466-1472`).
* In `Ticket` a relay's text has no cap of its own (`MAX_RELAY_URL_BYTES`,
  `lookup.rs:41`): a reader may take a longer one than the code's would.
* In `TabPeer` what a tab publishes before its join lands is kept out of its card until
  it publishes again (the slots of `LateJoin` above): `HoldingIsAdvertised` speaks of
  what reached the cells, and of the tree whenever it was learned. A tab whose page
  goes away says nothing, so only the tick notices. A wrong password under a ticket
  that names a mesh is refused before any dial and the page asks again.
* `Exchange` is about one request: `OP_WATCH` goes on and is in `Watch`, and the ops
  for hashes and benchmarks have no reader in the product's path. Of the refusals of
  fofoca's `ChunkMap::from_leaves` only the root's is modelled.
* In `Mounted` a frame that cannot be built into a tree keeps the tree, though the
  allocator has grown; the watch ends for good with its connection; a connection
  found dead only after its stream was open is not retried, as in the code.
* `QuietScansPublish` excludes a folder that would not fit the cap: one file too many
  keeps every other change from being published for as long as it is there. Rows of a
  file edited while they are built may be torn; `ChunksAreTrue` is about what is
  handed out under an address. Every content of the run has two chunks, so a read past
  the end of a file that shrank (`Unreadable` is false, the row is forgotten) is
  reached by the theorems alone. `Stop` is one step: the goodbye to the mesh, the
  detaching and the close (`wasm/produce.rs:612-628`) serve nothing in between.
* `OpenSessionsComeUp` is about mounts that hold the password: a revival never asks
  for one. The share is protected and its ticket names a mesh, so a wrong password is
  ruled on by `connect` without the producer. Leaving on pagehide is in `TabPeer`.
* `LiveOriginsAreReached` excludes two cases. A connection that lands is all that
  `peer_answered` asks for (`wasm/lib.rs:5003`), and from then on a slow origin is
  conceded at the floor (`:4064`), though the peer may never be won. So it is starved by
  a peer that answers and fails its vet on every attempt (`Agreeing`), and by an agreeing
  seeder whose vet a lane's deadline cuts short on every attempt (`CutsAVetShort`): the
  redial lane allows `vet_floor_ms`, which has no room for the probe (`:4490`), and the
  race drops what is in flight (`:5095`); that no finite deadline lets every
  slow-but-moving seeder finish is said at `:3145`. The origin is then given up for
  nobody. Without either premise TLC finds the starving loop.
* `Connect` takes a win and its adoption (`adopt_vetted`, which awaits the name of the
  settled path) as one step.
* `MembershipsAreKept` does not say that only duplicates are retired. A failing join,
  or a client released while one is under way, retires the waiting membership as well
  and the mark is never cleared (comment at `wasm/lib.rs:3930-3940`); and a failing
  attempt that is the last holder of a marked duplicate never collects it.
* `DownloadsEnd` excludes a peer that keeps its connection and answers nothing:
  `drain_queue` has no timeout, and only the home channel is watched. One round of
  `OP_HAVE` waits for the slowest peer as well, although the comment near
  `wasm/lib.rs:1886` would not have it delay the plan.

### Observed, without a run of their own

* A change between the startup scan (`produce.rs:302`) and the watcher's
  installation (`:325`) raises no event; `Init` and `StartWatcher` reproduce it.
* The debounce loop goes on while events keep arriving (`live.rs:608`): a directory
  written to steadily is never rescanned. `Settle` may repeat; liveness is asked of
  a bounded number of changes.
* A tree that grows past the manifest cap while served is published all the same
  (`live.rs:395`), and every reader refuses it.
* A re-served copy counts live slots as its total while its slots include
  tombstones (`live.rs:326`).
* A frame that is refused is skipped and nothing is asked for again
  (`consume.rs:778`).
* A watch frame is checked against the cap of the bare manifest
  (`consume.rs:769`): a tree just below it can be mounted and not followed.
  `RefuseLength` in `Watch_unsigned` shows the refusal.
* A row learned after an edit goes into a seeder whose envelope and card still
  name the tree of the attach (`sources.rs:176`).
* The active peer is asked, and struck, whether or not it vouches for the slot
  (`sources.rs:431`): two seeders with half of the tree each strike one another out.
* The page notes a cancelled read and never looks at the note
  (`stream/index.ts:177`).
* A mirror records its sidecar before the files (`mirror.rs:298`) and a copy serves
  by size alone (`live.rs:269`): after an interrupted re-run, old bytes of the
  same length are served under the new manifest. `CopyServes` in `Mirror` shows it.
* A tab's row table is kept across edits: `sync` and `keep` write the memoised row
  under the file id of another version (`wasm/lib.rs:1481`, `:1505`, `:1566`).
* `sync` asks `is_complete` of a coverage (`wasm/lib.rs:1479`), which is true of a
  root whose row the store lost, as `serve/seed.rs:353-357` warns: a file whose
  row was evicted is skipped.
* `fetch_manifest` makes what it fetched the version believed (`wasm/lib.rs:1261`),
  even when the watch brought a newer one meanwhile; later differences are refused
  until one applies again. A republish that began before an edit names the older
  tree, and persists it, after the newer.
* A mount's goodbye is never said: `spawn_serving_updates` holds the mesh in an Arc
  for ever, so `Unmount` finds it shared (`consume.rs:301-322`; the comment there
  expects that only in the middle of a publish).
* The clients differ on an older producer: where a tab declines, the native
  `fetch_chunk_map` and `fetch_chunk` fail on a stream that was dropped unanswered
  (`consume.rs:990`, `:1036`; `Unanswered` in `Exchange`).
* Of two files that share a chunk the first to claim its address answers for it. When
  that one is edited, `forget` drops the address and the other, which still has the
  chunk, is not asked again (`wasm/produce.rs:67-71`). Two edits within
  one second that keep the size leave entries equal, and nothing is published.
* Session: a failed client is dropped from the cache by key, whatever entry is there
  by then, so its successor's release does nothing and it never leaves
  (`web/lib/client/index.ts:147`). `dialUntilReady` does not look at its abort after
  the backoff and connects for a mount that is gone. A revival aborted while an
  attempt fails returns without retiring the client it replaced. When the watch fails
  after the client was shown, the dial loop and the poll's revival retire each
  other's promises. An agent's session drops a closed entry and is handed the same
  closed client by `connect` (`session.ts:91`, `:78`). The poll's `slept` changes
  nothing (`components/session/index.tsx:579`, near 700).
* Swarm: `swarm_dialled` is set before the mesh is joined or has candidates
  (`wasm/lib.rs:1735-1760`), and then no swarm forms for the client's life.
  `seeder_webrtc_dial` looks again only at the mount's hub, so a channel that formed on
  the mesh's during the wait is not taken. The native `dial_webrtc` fails when its
  completion does although the mesh's channel arrived meanwhile. The health watcher
  polls and may miss a recovery shorter than its tick.
* The watch's opening frame has the session republish (`session/index.tsx:783`), and
  `republish_holdings` opens the database: a tab that only browses leaves storage
  behind, which `refresh_held` takes care not to do (`wasm/lib.rs:2114`).

## What is proved

Each theorem holds for every value of the constants that its module assumes. The
assumptions are the modules' own, stated there beside the constants and evaluated by
TLC in the runs of that module; the theorems add no other, save the hypotheses named below.

**`LiveTreeProofs`**, of the producer, for any finite sets of directory and file
paths, any stamps, any budget and any number of changes and failures:

* `TypeCorrect`, `ServedIsListed`, `SlotsStable`: `TypeOK`, `ServedMatchesListing` and
  `SlotsAreStable` always hold. The last speaks of any two published versions and is
  not inductive: a step knows the current tree, not why an old version listed what it
  did. `SlotInv` (`SlotsInvariant`) adds the missing link: `index_of` is injective, and
  every slot any version ever listed is still recorded there for that path. Two
  versions that list a slot both agree with `index_of`, so with one another. What one
  more version looks like is `FoldedScan`; it rests on `ListingProperties`.
* `DeltasStaySound`: `DeltasAreSound`, that is, every chain the producer agrees to answer
  with leads from the tree asked about to its own, and a difference applied again
  changes nothing. `DeltaInv` (`DeltasInvariant`) says that each tree succeeds the one before
  (directories once, slots kept, a new slot not a tombstone), and that frames and
  remembered links are the differences of the trees they are numbered by.
  `DirsFollow` and `FilesFollow` are the two halves of `MountManifest::apply`: the
  difference of two trees, applied to anything with the content of either, gives the
  content of the newer. `ChainsRebuild` puts the links together.

Then of those who follow a producer. Of watching (`Watch`), for any mounts, any
backlog and buffer and any losses:

* `MountsShowPublishedTrees`: the tree a mount shows is the one published under the
  version it holds, on a signed share and an unsigned one. On a signed share the
  signature alone is the reason; on an unsigned one it is the order of the frames.
  `WatchInv` (`WatchInvariant`) states both: every frame in flight is one the producer
  wrote for some version, what is held has the content of its version (its directories
  may be in another order), and, without signatures, each difference in flight, and
  the next the producer would write, extends or repeats what will be held when it is
  read. The last part is what a resend after a lag restores.
* `UnsignedMountsStayPublished`: without signatures `MountsStayPublished` holds, its
  `NoFrameIsSkipped` included. On a signed share that part is not true and not meant:
  a refused difference is skipped (*Conditions*), and the next one does not fit.
* `WatchImplementsPublishedTree`: the refinement, `ImplementsPublishedTree`. A producer
  step publishes one tree or none; attaching and receiving show a tree; all else
  stutters. `WatchRunsLiveTree` carries LiveTree's theorems over.

Of mirroring (`Mirror`), for any folder, contents, restarts and interruptions:

* `CopiesStayExact`: `CopiesAreExact`, on a signed share whose password is kept (see
  *Conditions*) and whose folder never has more paths than a manifest may list
  (`PathsFit`: readers refuse a tree beyond the cap, and the run that meets one
  fails). `CopyInv` (`CopyInvariant`) says that what a run holds was published by the
  life of the producer it asked; and that, from where the producer rests, each step
  the run has passed left what it should: the sidecar is this life's manifest and
  keys, and the files behind it in slot order are whole. Nothing is asked of what an
  earlier run left. `TreeIsBounded` gives the size of a tree: every slot was once
  some path's, so it never outgrows the paths. A restart begins from a `Fresh` tree,
  for which `InitIsFresh` and `FreshSlots` are stated.
* `RunsHoldWhatWasPublished`: `RunsHoldAPublishedManifest`, which needs the signature
  only: it is what tells a manifest of this life from one of the life before.

**`ReadsProofs`**, of a mount's reads. Over its sources (`Sources`, `Serving`), for any
readers, peers, slots, parts, strikes and edits:

* `ReadsStaySound`: `ReadsAreSound`. `SourcesInv` (`SourcesInvariant`) says that
  every row, cached or in a seeder, was the origin's at some time, and that the chunks
  a read collected are all of its row's content; the property speaks only of a
  read that ended.
* `LoneReadsServe` (`AdvertisedSlotsAreServable`, `ReadSlotsAreSeeded`) is of `OneByOne`:
  any readers, none of which begins while another is in flight, and a file set that is
  that of the attach, numbered from 0 (`NumberedTree`). Both are false without it, as
  *Conditions* tells. `LoneInv` follows one read: from the row it took to the
  seeder it updates, no other read comes between; `AnyIdleRead` hands what is known on
  to the next reader. `LoneReadsSeed` (`LoneReadsAreSeeded`) is the same of the run's own
  specification, which has either lone reads or two at once that publish nothing.
* `FieldsListWhatIsHeld`, `SmallTreesAreAdvertised`: the serving field decodes to exactly
  the slots held for every size and limit, and a tree within the bitmap's
  limit always has one; `ServingFieldsStayTrue` (`ServingFieldsAreTrue`) has the run's
  samples as instances. `Runs` gives the maximal runs of a set; `Serving` states them
  without recursion.

Over one connection (`Mounted`), for any file size, read cap and number of losses, and
any paths, frames, slots and page size:

* `ReadsComeThrough`: `ReadsAreCarriedThrough`. `RequestInv` (`RequestsInvariant`) says
  that who dials holds the lock and that each failed attempt stands for a connection
  that died since the request was made.
* `KernelSeesTrue`: `KernelSeesTheTree`. `ViewInv` (`ViewInvariant`) says that the inode
  table is that of the manifest held (`TreeInv`); that a fileid handed out is its path's
  and in the table (`HandlesInv`); that the slot a READ carries has been its path's since
  the path was first seen (`ReadingInv`); and that what a listing has so far is in name
  order, its cookie last, with whatever was there throughout either listed or sorting
  after the cookie (`ListingInv`), which is why a cookie stays good while siblings come
  and go. The lemmas below it are about the operators of `Inodes`: `EnsureDirIs` and
  `PlaceIs`, what a directory's synthesized parents and one more entry do to a table;
  `BuildTreeIs`, that a build ends well with the table of its manifest or has refused it,
  the allocator grown either way; `WholeBuilds`, that no manifest the producer makes is
  refused, and `UnbuildableIs`, that each bad frame is; `FindIs` and `WalkIs`, that the
  binary search finds a name exactly when it is there and a walk reaches a path's own
  fileid; `ReadDirIs`, what one page is.

**`StreamProofs`**, of the service worker, for any size, chunk, read and header and
any number of requests and stopped workers: `StreamsStayTrue` proves `StreamsAreTrue`.
`StreamInv` (`StreamInvariant`) says that a response waits in the table once, under
an id below the next; that a read of this worker's life, wherever it is (posted,
being read, answered), is the one its response waits for; and that what was delivered
covers the window up to where the response has come.

`StreamProofs` has the theorems of the wire as well (`Ticket`, `Exchange`), for any caps the
samples fit. A field is a unit of the wire, a text its length and that
many units, any natural number each.

* `TicketsReadBack`: a ticket of any secret, address, relays, flags, mesh and author reads
  back as what it carries, whichever of its optional parts are missing.
* `CutTicketsReadTrue`: and of a ticket cut anywhere a reader refuses what it is given or
  takes only what was written. `DecodeIs` is the reader on any prefix, `TailIs` the part
  behind the lookups, where a missing field and a cut one look alike.
* `ExchangesReadTrue`: whatever op a client asks with whatever token, of a producer that
  knows the op or does not, and wherever the request or the answer breaks off, what it
  takes for an answer is what the source said to just that request. `ServeIs` is the
  producer on any prefix of a request, `AnswerTaken` the client on any prefix of an
  answer, with one lemma per op below it.
* `MadeUpBodiesAreRefused`: of a body a peer makes up a client takes only what is sound:
  a row that hashes to its root, a difference that is all of the body, slots that were
  asked about, an envelope no older than the last one and signed by the author.
* `WireIsTrue`: `WireReadsTrue`, the samples shown to be tickets, answers and bodies
  of the above.

**`TabProofs`**, of a tab that keeps what it fetches, for any slots, chunks and first
tree and any number of calls, edits, reloads, evictions and watch streams. `TabInv`
(`TabInvariant`) says what each of the five tasks has left behind at each of its
stages, as long as nothing was evicted: the row it works under is stored, the chunks it
no longer asks for are there, `sync` binds a file it has whole, and a locator is about
to name a manifest that is stored. Every row that is known anywhere, in the memo, a
task or a bind, was the producer's. None of it is undone between two awaits: the store
only grows (`WorldGrows`), so what a task knew it still knows (`TaskStays`), and each
action is left with the task that takes it (`Advances`, `FileAdvances`, `Binds`).

* `StorageComesBack`: `ReloadsComeBack`. A bind may replace another while two tasks store
  one file; before the first edit both lead to the same chunks (`BindIsSound`).
* `CardsStayTrue`: `CardIsTrue`, with the hypothesis `~LateJoin`, without which
  `CardIsPublished` is false (*Conditions*). `CardsAreWhole` has no hypothesis: late or
  not, early calls or not, what the card lists is whole here.

**`ConnectProofs`**, of a tab's racing connects, for any attempts, peers, trees and
files: `ClientsStayWellHomed` proves `ClientsAreWellHomed` and `RecordsAreSpentSoundly`
proves `RecordsAreSpentByEvidence`. `ConnectInv` (`ConnectInvariant`) says that every
attempt and every shared client is on the one membership of its tab, that strikes
follow misses in a row, and that what an attempt settles on was probed with the
share's largest file.

**`SessionProofs`**, of a page's sessions, for any mounts one after the other, any
sessions, promises and agent's calls: `SessionsStayOrderly` proves `SessionsAreOrderly`.
`SessionInv` (`SessionInvariant`) says that the cached client is coming up or serves;
that a loop which waits on a promise that failed has an empty cache before it, since
microtasks run before any event; that what is on its way out, of a retiring client or
an aborted mount, never comes back into the cache; that nobody retires what a mounted
session serves with; and that at most one session is mounted. Two mounts may hold one
promise, so the invariant speaks of pairs of sessions.

**`WebProducerProofs`**, of a share produced by a tab, for any folder, contents, slots'
history, requests in flight, watchers and cap: all four properties of its run.
`ProducerInv` (`ProducerInvariant`) has a part for each actor. Of the tree: `index_of`
is injective, and a slot is retired or is its path's file as some scan found it. Of the
signatures: every envelope ever sealed lists slots the tree still has, under the same
path or none. Of the scan: while the folder holds still, what it has seen is what it
has passed. Of the table: the rows are the tree's slots, and the maps agree.

* `SignaturesAgree` (`SignedTreesAgree`): no version is signed twice over different trees.
  `AppliedIs` is why: a tree that changed has the next version, and an update that does
  not fit is put back before it is sealed.
* `WatchersAreCurrent` (`WatchersHoldTheLatest`).
* `ChunksStayTrue` (`ChunksAreTrue`): `ForgetIs` and `InsertIs` keep the maps agreed. A row
  that replaces another takes the other's addresses and root with it first; an address
  another slot claimed stays with that slot.
* `QuietScansAreTrue` (`QuietScansPublish`, an action property): the invariant's part on
  the scan gives what was found, `FoldedIs` what folding it into the tree gives for a
  listing that says one thing of a path, and `SlotsAreCounted` that the length held
  against the cap is the number of paths the share ever had.

**`PeersProofs`**, of the peers of a share. Of cards and books (`TabPeer`, and so `Mesh`
and `Roster`), for any mounts, mirrors, tabs, tickets, trees and departures:
`PeersStayHonest` proves `PeersAreHonest`. A party that vouches, a bootstrap that
counts votes and one that blames the password each look at a moment; `PeerInv`
(`PeersInvariant`) says what was true from the moment before. Logs only grow and
each entry reads as a card its author could write; replicas stay behind their authors. A
mount's or a tab's card names a tree only once it serves one, and what is still queued
for publication says no more. The candidates of an unsigned bootstrap, tried or left,
were all of a tree no other outvotes. Who was given a wrong password knows nobody and
is in nobody's book. A tab's slot is filled, left and closed in one order.

Of lanes and downloads (`Swarm`), for any peers, file, claims, losses and stalls and any
number of downloads:

* `EveryPlanIsWhole`: whatever a file lacks and whoever claims whatever, the plan is a
  partition of what is missing, each chunk in one queue of a peer that claims it, rarest
  first and spread by load. `OrdersAreThere` shows that the order the planner chooses
  exists (a finite set under a total order has a last element, `LastOfFinite`), `AssignIs`
  what one position does to the plan, and `PartialPlan` is what holds after any number
  of them. `PlansStayWhole` (`PlansAreWhole`) is the property of the run.
* `DownloadsStayTrue`: `DownloadsAreTrue`. `SwarmInv` (`SwarmInvariant`) says that a
  channel counted as whole is held at both ends under one hub (`LanesMatch`); that a
  native mount dials nothing but its mount (`MountsAlone`); that a dial has its
  candidate who has neither joined nor is still on the list, and neither list repeats
  anybody or meets the other (`OneDialEach`); that nobody is given up over a channel of the mount's own
  (`ChannelsAreTaken`); and that from the plan on, each missing chunk is queued, being
  fetched, got, or left for the home peer (`NothingForgotten`). A peer that fails in the
  middle of its queue moves all of it, the chunk in hand included, to what the home
  peer is asked, so that no step loses one.

*Recursive functions.* A recursive function is a choice among the functions that
satisfy its equation, so a proof first shows that one exists. `SetInduction` (a set
with 0, and with each number the next, holds all numbers) is proved from the
well-founded order of the naturals; with it `OnlyIs` says what `Only` keeps, and
`ChainIs` what applying a chain of differences computes, and `FoldedIs` what folding a
listing into a tree does; `PlanGrows` and `PlanIs` do so for the planner,
`EnsureDirSteps`, `DirsSteps`, `FilesSteps`, `FindSteps` and `WalkSteps` for the inode table. `Only` is
`SelectSeq`, which the provers cannot open, written so that they can. `FlattenIs` opens
the library's `FlattenSeq` in the same way. `RecursionIs` says it once for every recursion
over the naturals, given the step as a function; with it come `FlattenSteps`,
`ReadLadderIs` (the loop over the relays of a ticket), `DecodeSinceIs` (the loop over the entries of a
difference) and `HashIs`.

*Only model-checked.* Liveness under fairness, everywhere. `LiveTree`'s
`NoticedChangesArePublished` and `Watch`'s `FollowersConverge` are of that kind.
`RunsEnd` of `Mirror` and `LostSlotsAreRetracted` of `Tab` are liveness as well.

## Not modelled, and why

* Bytes: a field is a unit of the wire (`Ticket`, `Exchange`) or a value; hashes and
  signatures do not collide. The token envelope's checksum, `OP_HASH`, `OP_BENCH`.
* The gossip engine, the transport and WebRTC itself: the external `fofoca` crate.
  The code's use of it is modelled: what it is told, and what may come back when.
* Discovery services (`lookup`, `protocol/swarm`): configuration.
* The command line, file listing, hash cache, benchmarks, output.
* The NFS server's protocol and installing the mount, which the `nfsserve` crate and
  the kernel do.
* A tab that stands a share up from what it persisted with no producer about; the
  browser producer's own mesh, which is joined and left as in `Mesh`; the counters and
  addresses a tab shows of its link.
* Web downloads and snapshots, the pages: they write files and draw what the modules
  above hold. visage and moonspace know nothing of shares.
* Packaging, the site, and the end-to-end driver `src/tasks`.

## Plan

Built, in this order: `Manifest`, `LiveTree`, `PublishedTree`, `Watch`,
`LiveTreeProofs`, `Seeder`, `Serving`, `Sources`, `Mirror`, `Stream`, `Tab`, `Roster`,
`Mesh`, `Ticket`, `Inodes`, `Mounted`, `WebProducer`, `Session`, `Connect`, `Swarm`,
`Exchange`, `TabPeer`; then the theorems: `ConnectProofs`, `ReadsProofs`,
`StreamProofs`, `SessionProofs`, `WebProducerProofs`, `TabProofs`, `PeersProofs`.

What is left to model: a tab's resurrection without a producer
(`wasm/lib.rs:3625-3660`), and visage's batching.
