-------------------------------- MODULE Mesh --------------------------------
(***************************************************************************)
(* A share's mesh as the native client uses it: the card every peer        *)
(* publishes, the card book it reads (agent-share/src/mount/mesh.rs), the  *)
(* producer that keeps its card true to its tree (produce.rs), and the     *)
(* attach of a mount, which asks the origin for the manifest and, when it  *)
(* cannot be reached, whoever vouches for the tree (consume.rs).           *)
(*                                                                         *)
(* The engine that carries cards and counts peers (fofoca) is external: a  *)
(* replica of the meta document catches up with any other, at any time and *)
(* never backwards, and a silent peer is evicted some day.                 *)
(***************************************************************************)
EXTENDS Roster, Sequences, SequencesExt

CONSTANTS
    Origin,     \* the producer's endpoint
    Mirrors,    \* the endpoints of producers that re-serve a copy
    Mounts,     \* the endpoints of the mounts
    Tabs,       \* the endpoints of the browser tabs: module TabPeer
    Parties,    \* who comes to the share beside the origin: one of these sets
    Tickets,    \* the tickets the share may have been handed out as
    Polite,     \* the producers that stop by Ctrl-C; the others are killed
    MaxHave,    \* bound: how far reads go, 1 for some chunk, 2 for a whole slot
    MaxTree     \* bound: trees the origin goes through

Producers == {Origin} \cup Mirrors
Nodes == Producers \cup Mounts \cup Tabs

ASSUME MeshAssumption ==
    /\ Nodes \subseteq Nat \ {0}
    /\ Origin \notin Mirrors /\ Producers \cap Mounts = {} /\ Polite \subseteq Producers
    /\ Tabs \cap (Producers \cup Mounts) = {} /\ Parties \subseteq SUBSET (Nodes \ {Origin})
    /\ Tickets \subseteq [signed : BOOLEAN, protected : BOOLEAN, meshId : BOOLEAN]
    /\ MaxTree \in Nat \ {0} /\ MaxHave \in 1..2

VARIABLES
    ticket,    \* what the share's ticket carries
    wrong,     \* the mounts and tabs given a wrong password
    armed,     \* armed[t]: the tree whose envelope the seeder of tab t has, 0 for none
    current,   \* the tree the origin serves
    node,      \* node[p]: its engine, "out", "in", "left" or "gone"
    cell,      \* cell[p]: SharedTree and SharedServing
    asked,     \* asked[p]: a RepublishCard waits for the event loop
    log,       \* log[p]: the card values p has published, in order
    doc,       \* doc[p][q]: how many of q's cards p's replica has seen
    known,     \* known[p]: the peers p's engine counts as present
    book,      \* book[p]: the CardBook
    listening, \* the origin's run loop has subscribed
    updates,   \* an update of the tree waits in the subscription
    mount      \* mount[m]: where the attach of m is

shareVars == <<ticket, wrong, armed>>
meshVars == <<node, cell, asked, log, doc, known, book>>
originVars == <<current, listening, updates>>
vars == <<shareVars, meshVars, originVars, mount>>

EmptyCell == [tree |-> 0, serving |-> FALSE, holding |-> FALSE]

NewMount == [pc |-> "redeem", join |-> "none", tree |-> 0,
             have |-> 0, cards |-> {}, left |-> {}, why |-> "none"]

\* A wrong password derives another token, and so a mesh of its own.
Right(p) == p \notin wrong
OriginUp == node[Origin] = "in"

(***************************************************************************)
(* The driver: publish_card and refresh_book, and the hooks that call them.*)
(***************************************************************************)
Role(p) == IF p \in Producers THEN "producer" ELSE "consumer"

\* The label of the path its bytes take; a tab's is a data channel here.
Transport(p) == IF p \in Tabs THEN "webrtc" ELSE "unicast"

\* The card p publishes with this in its cells.
OwnCard(p, value) ==
    ToCardValue([endpoint |-> p, transport |-> Transport(p), role |-> Role(p),
                 tree |-> value.tree, serving |-> value.serving,
                 holding |-> IF value.holding THEN "yes" ELSE "no"])

\* The meta document as p's replica has it.
MetaOf(seen, cards) == [q \in {q \in Nodes : seen[q] > 0} |-> cards[q][seen[q]]]

\* present_nicknames: the engine's roster, and p itself, who is never on it.
PresentNicknames(p, peers) == peers \cup {p}

BookOf(p, seen, peers, cards) ==
    [entries |-> EntriesFromMeta(MetaOf(seen, cards)), present |-> PresentNicknames(p, peers)]

\* Producers join with the tree they have.
FirstCell(p) ==
    IF p \in Producers THEN [tree |-> 1, serving |-> TRUE, holding |-> TRUE] ELSE EmptyCell

\* The producers that are here have joined and know each other already.
InitWith(party) ==
    LET here == Producers \cap (party \cup {Origin})
    IN  /\ ticket \in Tickets /\ wrong = {} /\ armed = [t \in Tabs |-> 0]
        /\ current = 1
        /\ node = [p \in Nodes |-> IF p \in here THEN "in" ELSE "out"]
        /\ cell = [p \in Nodes |-> IF p \in here THEN FirstCell(p) ELSE EmptyCell]
        /\ asked = [p \in Nodes |-> FALSE]
        /\ log = [p \in Nodes |-> IF p \in here THEN <<OwnCard(p, FirstCell(p))>> ELSE << >>]
        /\ doc = [p \in Nodes |-> [q \in Nodes |-> IF {p, q} \subseteq here THEN 1 ELSE 0]]
        /\ known = [p \in Nodes |-> IF p \in here THEN here \ {p} ELSE {}]
        /\ book = [p \in Nodes |-> IF p \in here THEN BookOf(p, doc[p], known[p], log) ELSE NewRoster]
        /\ listening = FALSE /\ updates = FALSE
        /\ mount = [m \in Mounts |-> IF m \in party THEN NewMount ELSE [NewMount EXCEPT !.pc = "done"]]

RefreshBook(p) == book' = [book EXCEPT ![p] = BookOf(p, doc'[p], known'[p], log')]

\* Merging the card the entry already holds changes nothing.
PublishCard(p) ==
    /\ LET card == OwnCard(p, cell'[p])
       IN  log' = IF log[p] # << >> /\ Last(log[p]) = card THEN log
                  ELSE [log EXCEPT ![p] = Append(@, card)]
    /\ doc' = [doc EXCEPT ![p][p] = Len(log'[p])]
    /\ RefreshBook(p)

\* join: the cells are what the caller says; the engine starts, publishes that
\* (on_startup), and whoever is on the mesh counts the newcomer and is counted,
\* which publishes it again (on_meshed).
Join(p, value) ==
    /\ node' = [node EXCEPT ![p] = "in"]
    /\ cell' = [cell EXCEPT ![p] = value]
    /\ known' = LET here == {q \in Nodes \ {p} : node[q] = "in" /\ Right(p) /\ Right(q)}
                IN  [q \in Nodes |-> IF q = p THEN here
                                     ELSE IF q \in here THEN known[q] \cup {p} ELSE known[q]]
    /\ PublishCard(p)

\* p's replica learns what r's knows better: on_meta_applied.
MetaApplied(p, r) ==
    /\ node[p] = "in" /\ node[r] = "in" /\ Right(p) /\ Right(r)
    /\ \E q \in Nodes : doc[p][q] < doc[r][q]
    /\ doc' = [doc EXCEPT ![p] = [q \in Nodes |-> IF doc[r][q] > @[q] THEN doc[r][q] ELSE @[q]]]
    /\ UNCHANGED <<log, known>> /\ RefreshBook(p)
    /\ UNCHANGED <<shareVars, node, cell, asked, originVars, mount>>

\* q said goodbye: on_peer_left.
PeerLeft(p, q) ==
    /\ node[p] = "in" /\ node[q] = "left" /\ q \in known[p]
    /\ known' = [known EXCEPT ![p] = @ \ {q}]
    /\ UNCHANGED <<log, doc>> /\ RefreshBook(p)
    /\ UNCHANGED <<shareVars, node, cell, asked, originVars, mount>>

\* The engine stops counting a silent peer, and tells the driver nothing.
Evict(p, q) ==
    /\ node[p] = "in" /\ q \in known[p] /\ node[q] = "gone"
    /\ known' = [known EXCEPT ![p] = @ \ {q}]
    /\ UNCHANGED <<shareVars, node, cell, asked, log, doc, book, originVars, mount>>

\* Mutant: the tick does nothing.
TickIdle(p) == node[p] = "in" /\ UNCHANGED vars

\* on_tick.
Tick(p) ==
    /\ node[p] = "in"
    /\ UNCHANGED <<log, doc, known>> /\ RefreshBook(p)
    /\ UNCHANGED <<shareVars, node, cell, asked, originVars, mount>>

\* handle_session: the card is read from the cells here, not when it was asked.
Republish(p) ==
    /\ node[p] = "in" /\ asked[p]
    /\ asked' = [asked EXCEPT ![p] = FALSE]
    /\ UNCHANGED <<cell, known>> /\ PublishCard(p)
    /\ UNCHANGED <<shareVars, node, originVars, mount>>

\* Mutant: the cell is set and nobody is told.
SetCellQuietly(p, value) ==
    /\ cell' = [cell EXCEPT ![p] = value]
    /\ UNCHANGED asked

\* set_tree and set_serving: a value the cell already has asks for nothing.
SetCell(p, value) ==
    /\ cell' = [cell EXCEPT ![p] = value]
    /\ asked' = [asked EXCEPT ![p] = @ \/ value # cell[p]]

\* The process of p ends, and what only it knew with it; how is whether it said
\* goodbye first.
Ends(p, how) ==
    /\ node' = [node EXCEPT ![p] = IF @ = "out" THEN @ ELSE how]
    /\ cell' = [cell EXCEPT ![p] = EmptyCell]
    /\ asked' = [asked EXCEPT ![p] = FALSE]
    /\ doc' = [doc EXCEPT ![p] = [q \in Nodes |-> 0]]
    /\ known' = [known EXCEPT ![p] = {}]
    /\ book' = [book EXCEPT ![p] = NewRoster]
    /\ UNCHANGED log

(***************************************************************************)
(* The producer: it joins with the tree it has, then follows its tree.     *)
(***************************************************************************)
\* A copy re-serves the tree it was made of, which never changes.
ServedTree(p) == IF p = Origin THEN current ELSE 1
ProducerCell(p) == [tree |-> ServedTree(p), serving |-> TRUE, holding |-> TRUE]

OriginSubscribes ==
    /\ node[Origin] = "in" /\ ~listening
    /\ listening' = TRUE
    /\ UNCHANGED <<shareVars, meshVars, current, updates, mount>>

\* The served directory changed.
TreeChanges ==
    /\ node[Origin] = "in" /\ current < MaxTree
    /\ current' = current + 1
    /\ updates' = listening
    /\ UNCHANGED <<shareVars, meshVars, listening, mount>>

\* An update, or the news that some were missed: both are the tree of now.
OriginFollows ==
    /\ node[Origin] = "in" /\ updates
    /\ updates' = FALSE
    /\ SetCell(Origin, ProducerCell(Origin))
    /\ UNCHANGED <<shareVars, node, log, doc, known, book, current, listening, mount>>

\* Ctrl-C, and the producer says goodbye; or it is killed.
ProducerStops(p) ==
    /\ node[p] = "in" /\ (p = Origin => listening)
    /\ Ends(p, IF p \in Polite THEN "left" ELSE "gone")
    /\ updates' = (updates /\ p # Origin)
    /\ UNCHANGED <<shareVars, current, listening, mount>>

(***************************************************************************)
(* The attach of mount m.                                                  *)
(***************************************************************************)
At(m, pc) == mount[m].pc = pc
attachOnly == <<shareVars, meshVars, originVars>>

\* attach returns an error: the process ends, and its engine with it.
Fail(m, why) ==
    /\ mount' = [mount EXCEPT ![m].pc = "failed", ![m].why = why]
    /\ Ends(m, "gone")
    /\ UNCHANGED <<shareVars, originVars>>

\* redeem_auth, with a password the ticket wants.  A ticket that names its mesh
\* rules on the password here; another one derives a mesh from it.
Redeem(m) ==
    /\ At(m, "redeem")
    /\ \E right \in (IF ticket.protected THEN BOOLEAN ELSE {TRUE}) :
          /\ wrong' = IF right THEN wrong ELSE wrong \cup {m}
          /\ mount' = IF ~right /\ ticket.meshId
                      THEN [mount EXCEPT ![m].pc = "failed", ![m].why = "password"]
                      ELSE [mount EXCEPT ![m].pc = "fetch", ![m].join = "pending"]
    /\ UNCHANGED <<ticket, armed, meshVars, originVars>>

\* join_share_mesh, beside the fetch: a consumer joins knowing no tree and
\* holding nothing.  A mesh that cannot be joined costs peers, not the mount.
JoinMesh(m) ==
    /\ mount[m].join = "pending" /\ mount[m].pc \notin {"failed", "done"}
    /\ \/ /\ mount' = [mount EXCEPT ![m].join = "joined"]
          /\ Join(m, EmptyCell)
       \/ /\ mount' = [mount EXCEPT ![m].join = "none"]
          /\ UNCHANGED <<node, cell, log, doc, known, book>>
    /\ UNCHANGED <<shareVars, asked, originVars>>

FetchFromOrigin(m) ==
    /\ At(m, "fetch") /\ OriginUp /\ Right(m)
    /\ mount' = [mount EXCEPT ![m].pc = "mount", ![m].tree = current]
    /\ UNCHANGED attachOnly

\* The origin closes the connection over the credential.
FetchRefused(m) ==
    /\ At(m, "fetch") /\ OriginUp /\ ~Right(m)
    /\ Fail(m, "password")

\* The discovery deadline passed: the origin is gone, or not to be reached now.
FetchFails(m) ==
    /\ At(m, "fetch")
    /\ mount' = [mount EXCEPT ![m].pc = "await mesh"]
    /\ UNCHANGED attachOnly

\* bootstrap_from_seeders waits for the join, and needs it.
BootstrapStarts(m) ==
    /\ At(m, "await mesh") /\ mount[m].join # "pending"
    /\ IF mount[m].join = "none"
       THEN Fail(m, "no mesh")
       ELSE mount' = [mount EXCEPT ![m].pc = "poll"] /\ UNCHANGED attachOnly

\* The cards that vouch for a tree, our own aside, among the peers present.
Vouching(m) ==
    {card \in Present(book[m]) : card.endpoint # m /\ card.tree # 0 /\ HoldsSomething(card)}

Votes(cards, tree) == Cardinality({card \in cards : card.tree = tree})

\* The trees with the most cards: which of several is up to a hash map.
MajorityTrees(cards) ==
    {card.tree : card \in {c \in cards : \A d \in cards : Votes(cards, c.tree) >= Votes(cards, d.tree)}}

\* Signed: every card is worth asking.  Unsigned: those of one majority tree.
Poll(m) ==
    /\ At(m, "poll") /\ Vouching(m) # {}
    /\ \E majority \in MajorityTrees(Vouching(m)) :
          mount' = [mount EXCEPT ![m].pc = "dial", ![m].cards = Vouching(m),
              ![m].left = IF ticket.signed THEN Vouching(m)
                          ELSE {card \in Vouching(m) : card.tree = majority}]
    /\ UNCHANGED attachOnly

\* Mutant: cards are waited for without a deadline.
PollForever(m) == FALSE

PollTimesOut(m) ==
    /\ At(m, "poll") /\ Vouching(m) = {}
    /\ Fail(m, "nobody vouches")

\* Unicast first, then by endpoint.
FirstCandidate(cards) ==
    CHOOSE card \in cards : \A other \in cards :
        \/ card.transport = "unicast" /\ other.transport # "unicast"
        \/ /\ card.transport = "unicast" \/ other.transport # "unicast"
           /\ card.endpoint <= other.endpoint

\* The tree whose manifest q answers with, 0 for no answer.  A mount answers
\* with the envelope it attached with, once it has kept a chunk.
Answer(q) ==
    IF node[q] # "in" THEN 0
    ELSE IF q \in Producers THEN ServedTree(q)
    ELSE IF q \in Tabs THEN armed[q]
    ELSE IF mount[q].have > 0 THEN mount[q].tree ELSE 0

\* Mutant: an unsigned answer is taken whatever its tree.
DialTrusting(m) ==
    /\ At(m, "dial") /\ mount[m].left # {}
    /\ LET card == FirstCandidate(mount[m].left)
       IN  \E answer \in {Answer(card.endpoint), 0} :
           IF answer # 0
           THEN mount' = [mount EXCEPT ![m].pc = "mount", ![m].tree = answer, ![m].left = {}]
           ELSE mount' = [mount EXCEPT ![m].left = @ \ {card}]
    /\ UNCHANGED attachOnly

\* One candidate is dialled, and may not be reached.  An unsigned answer is held to the tree the
\* candidates were picked for; a signed one has proved itself.
Dial(m) ==
    /\ At(m, "dial") /\ mount[m].left # {}
    /\ LET card == FirstCandidate(mount[m].left)
       IN  \E answer \in {Answer(card.endpoint), 0} :
           IF answer # 0 /\ (ticket.signed \/ answer = card.tree)
           THEN mount' = [mount EXCEPT ![m].pc = "mount", ![m].tree = answer, ![m].left = {}]
           ELSE mount' = [mount EXCEPT ![m].left = @ \ {card}]
    /\ UNCHANGED attachOnly

DialsRunOut(m) ==
    /\ At(m, "dial") /\ mount[m].left = {}
    /\ Fail(m, "no seeder")

\* The bridge is up and reads may come; only now is the join's result needed.
MeshIsWired(m) ==
    /\ At(m, "mount") /\ mount[m].join # "pending"
    /\ IF mount[m].join = "none"
       THEN /\ mount' = [mount EXCEPT ![m].pc = "alone"]
            /\ UNCHANGED <<cell, asked>>
       ELSE /\ mount' = [mount EXCEPT ![m].pc = "serving"]
            /\ SetCell(m, [cell[m] EXCEPT !.tree = mount[m].tree])
    /\ UNCHANGED <<shareVars, node, log, doc, known, book, originVars>>

\* A read keeps chunks, and arms the seeder the mesh serves from: first some
\* chunk, in the end a whole slot.
Read(m) ==
    /\ mount[m].pc \in {"mount", "alone", "serving"} /\ mount[m].have < MaxHave
    /\ \/ OriginUp
       \/ At(m, "serving") /\ \E card \in All(book[m]) :
             card.endpoint # m /\ Answer(card.endpoint) = mount[m].tree
    /\ mount' = [mount EXCEPT ![m].have = @ + 1]
    /\ UNCHANGED attachOnly

\* spawn_serving_updates: every few seconds, if it moved since the last time.
ServingUpdate(m) ==
    /\ At(m, "serving")
    /\ LET value == [tree |-> cell[m].tree, serving |-> mount[m].have = 2,
                     holding |-> mount[m].have > 0]
       IN  cell[m] # value /\ SetCell(m, value)
    /\ UNCHANGED <<shareVars, node, log, doc, known, book, originVars, mount>>

\* Ctrl-C.  The task of ServingUpdate never ends and holds the mesh, so the
\* goodbye that wants it back is skipped: the engine just goes.
Unmount(m) ==
    /\ mount[m].pc \in {"alone", "serving"}
    /\ mount' = [mount EXCEPT ![m].pc = "done"]
    /\ Ends(m, "gone")
    /\ UNCHANGED <<shareVars, originVars>>

Attach(m) ==
    \/ Redeem(m) \/ JoinMesh(m)
    \/ FetchFromOrigin(m) \/ FetchRefused(m) \/ FetchFails(m)
    \/ BootstrapStarts(m) \/ Poll(m) \/ PollTimesOut(m) \/ Dial(m) \/ DialsRunOut(m)
    \/ MeshIsWired(m)

Engine(p) ==
    \/ Tick(p) \/ Republish(p)
    \/ \E q \in Nodes : PeerLeft(p, q) \/ MetaApplied(p, q)

Next ==
    \/ OriginSubscribes \/ TreeChanges \/ OriginFollows
    \/ \E p \in Producers : ProducerStops(p)
    \/ \E p \in Nodes : Engine(p) \/ \E q \in Nodes : Evict(p, q)
    \/ \E m \in Mounts : Attach(m) \/ Read(m) \/ ServingUpdate(m) \/ Unmount(m)

(***************************************************************************)
(* What should hold.                                                       *)
(***************************************************************************)
\* Every variable has its shape, and no replica is ahead of an author.
MeshTypeOK ==
    /\ ticket \in Tickets /\ wrong \subseteq Mounts \cup Tabs /\ armed \in [Tabs -> 0..MaxTree]
    /\ current \in 1..MaxTree
    /\ node \in [Nodes -> {"out", "in", "left", "gone"}]
    /\ cell \in [Nodes -> [tree : 0..MaxTree, serving : BOOLEAN, holding : BOOLEAN]]
    /\ asked \in [Nodes -> BOOLEAN] /\ listening \in BOOLEAN /\ updates \in BOOLEAN
    /\ known \in [Nodes -> SUBSET Nodes]
    /\ \A p, q \in Nodes : doc[p][q] \in 0..Len(log[q])
    /\ \A m \in Mounts : mount[m].tree \in 0..MaxTree /\ mount[m].have \in 0..MaxHave

\* A reader dials a peer on the word of its card alone.  Whatever card of a
\* mount is still about, however old, if it vouches for a tree then the mount
\* answers with that tree's manifest and has bytes of it for as long as it runs,
\* although the mount joined before it had either.
VouchersServeTheirTree ==
    \A m \in Mounts : \A k \in 1..Len(log[m]) :
        LET card == FromCardValue(log[m][k])
        IN  card.tree # 0 /\ HoldsSomething(card) =>
                mount[m].tree = card.tree /\ mount[m].have > 0

\* With an unsigned ticket and no origin, a mount attaches to a tree that no
\* other tree outvoted among the cards it had, whatever the peers it dialled
\* answered: an origin that is back with a newer tree than its card names is
\* refused.
BootstrapTakesTheMajority ==
    \A m \in Mounts : ~ticket.signed /\ mount[m].cards # {} /\ mount[m].tree # 0 =>
        \A card \in mount[m].cards :
            Votes(mount[m].cards, mount[m].tree) >= Votes(mount[m].cards, card.tree)

\* A wrong password mounts nothing, whatever is up and whoever vouches; and an
\* attach that blames the password was given a wrong one.
PasswordErrorsAreTrue ==
    \A m \in Mounts :
        /\ ~Right(m) => mount[m].tree = 0
        /\ mount[m].why = "password" => ~Right(m)

\* An attach believes the right peers and blames the right cause.
AttachesAreHonest ==
    /\ MeshTypeOK /\ VouchersServeTheirTree
    /\ BootstrapTakesTheMajority /\ PasswordErrorsAreTrue

ShowsCurrent(p) ==
    \E card \in All(book[p]) : card.endpoint = Origin /\ card.tree = current

\* A change of the tree the producer was listening for reaches the book of every
\* peer on the mesh, unless the producer goes away first.
ChangesReachEveryBook ==
    updates ~> \/ node[Origin] # "in"
               \/ \A p \in Nodes : node[p] = "in" /\ Right(p) => ShowsCurrent(p)

ShowsHolding(p, q) ==
    \E card \in All(book[p]) : card.endpoint = q /\ HoldsSomething(card)

\* A mount wired to the mesh with something kept; a tab that told the mesh so.
Holds(q) ==
    IF q \in Tabs THEN cell[q].holding ELSE At(q, "serving") /\ mount[q].have > 0

\* An attach ends: mounted, with or without a mesh, or with an error.  The dead
\* origin, the join and every candidate are each waited for a bounded time.
AttachEnds == []<>(\A m \in Mounts : mount[m].pc \in {"alone", "serving", "failed", "done"})

(***************************************************************************)
(* Fairness: the event loop serves its hooks and its tick, gossip goes on, *)
(* silent peers are evicted, timers fire, a dial ends.  Of the steps that  *)
(* nobody chooses, some one is taken as long as there are any; what users  *)
(* and processes do (changes, reads, stops) is never forced.               *)
(***************************************************************************)
Unchosen ==
    \/ OriginFollows
    \/ \E p \in Nodes : Engine(p) \/ \E q \in Nodes : Evict(p, q)
    \/ \E m \in Mounts : Attach(m) \/ ServingUpdate(m)
=============================================================================
