------------------------------- MODULE TabPeer -------------------------------
(***************************************************************************)
(* A browser tab on a share's mesh (agent-share-wasm-client/src/mesh.rs    *)
(* and what of lib.rs drives it).  The tab runs the driver of Mesh, but it *)
(* joins in the background, before it has a manifest, and its page may     *)
(* leave the mesh or be closed at any moment.                              *)
(*                                                                         *)
(* This is the tab that reaches the origin and mounts it; the seeder lane  *)
(* and the memberships it keeps waiting are module Connect's, what a tab   *)
(* keeps in its storage is module Tab's.                                   *)
(***************************************************************************)
EXTENDS Mesh

VARIABLE tab  \* tab[t]: the client of page t

allVars == <<vars, tab>>

\* join: the background join; slot: the MeshSlot; tree: last_tree; have: how far
\* the page's downloads are.
NewTab == [pc |-> "redeem", join |-> "none", slot |-> "pending", tree |-> 0, have |-> 0]

TabInit ==
    \E party \in Parties :
        /\ InitWith(party)
        /\ tab = [t \in Tabs |-> IF t \in party THEN NewTab ELSE [NewTab EXCEPT !.pc = "closed"]]

Open(t) == tab[t].pc = "open"
meshOnly == <<shareVars, originVars, mount>>

\* password_required: read off the ticket, before any dial.
password_required == ticket.protected

\* What the page gives: it asks when it is told to, and redeem_auth takes it.
Passwords == IF password_required THEN {"right", "wrong"} ELSE {"none"}

\* resolve_share, before any dial: a mesh id in the ticket rules on the password,
\* and the page asks again; without one a mesh is minted from whatever was given.
TabRedeems(t) ==
    /\ tab[t].pc = "redeem"
    /\ \E password \in Passwords :
          /\ password = "wrong" => ~ticket.meshId
          /\ wrong' = IF password = "wrong" THEN wrong \cup {t} ELSE wrong
    /\ tab' = [tab EXCEPT ![t].pc = "dial"]
    /\ UNCHANGED <<ticket, armed, meshVars, originVars, mount>>

\* The origin is dialled with no credential, and the join begins behind the
\* client; or it is not reached, and the page has an error to show.
TabConnects(t) ==
    /\ tab[t].pc = "dial"
    /\ \/ OriginUp /\ tab' = [tab EXCEPT ![t].pc = "open", ![t].join = "pending"]
       \/ tab' = [tab EXCEPT ![t].pc = "closed"]
    /\ UNCHANGED vars

\* set_tree and set_serving of the tab's MeshPeer.
SetTree(t, tree) == SetCell(t, [cell[t] EXCEPT !.tree = tree])
SetServing(t, value) == SetCell(t, value)

\* spawn_peer_inner: the book starts with the tab's own card, which knows no tree,
\* and the cells empty.
Seeded(t) ==
    [entries |-> {[nickname |-> t, card |-> [FromCardValue(OwnCard(t, EmptyCell)) EXCEPT !.holding = "unknown"]]},
     present |-> {t}]

\* The join lands.  A page that still wants it has a membership, on which the
\* tree fetched meanwhile is published; a mesh that does not start costs peers.
TabSpawns(t) ==
    /\ tab[t].join = "pending"
    /\ \/ /\ tab' = [tab EXCEPT ![t].join = "none"]
          /\ UNCHANGED <<cell, asked, book>>
       \/ /\ tab' = [tab EXCEPT ![t].join = "landed", ![t].slot = IF @ = "pending" THEN "joined" ELSE @]
          /\ book' = [book EXCEPT ![t] = Seeded(t)]
          /\ IF tab[t].slot = "pending" /\ tab[t].tree # 0
             THEN SetTree(t, tab[t].tree)
             ELSE UNCHANGED <<cell, asked>>
    /\ UNCHANGED <<meshOnly, node, log, doc, known>>

\* The engine's event loop starts: on_startup, and on_meshed as peers are met.
TabStarts(t) ==
    /\ tab[t].join = "landed" /\ node[t] = "out"
    /\ Join(t, cell[t])
    /\ UNCHANGED <<meshOnly, asked, tab>>

\* fetch_manifest, first or after the watch brought a change: recorded for the
\* join to find, and published if it has landed.
TabFetches(t) ==
    /\ Open(t) /\ OriginUp /\ Right(t) /\ tab[t].tree # current
    /\ tab' = [tab EXCEPT ![t].tree = current]
    /\ IF tab[t].slot = "joined" THEN SetTree(t, current) ELSE UNCHANGED <<cell, asked>>
    /\ UNCHANGED <<meshOnly, node, log, doc, known, book>>

\* The producer reads the credential with the first request and closes the
\* connection over it: the page lets go of the client.
TabRefused(t) ==
    /\ Open(t) /\ OriginUp /\ ~Right(t)
    /\ tab' = [tab EXCEPT ![t].pc = "closed", ![t].slot = "left"]
    /\ UNCHANGED vars

\* publish_serving: a download keeps chunks and republishes, or a changed tree does.
\* The seeder is armed first, then the card, whose tree fetch_manifest has set; before
\* the join there is no card to set.
TabPublishes(t) ==
    /\ Open(t) /\ tab[t].tree # 0
    /\ \/ /\ OriginUp /\ tab[t].have < MaxHave
          /\ tab' = [tab EXCEPT ![t].have = @ + 1]
       \/ /\ tab[t].have > 0 /\ armed[t] # tab[t].tree
          /\ UNCHANGED tab
    /\ armed' = [armed EXCEPT ![t] = tab[t].tree]
    /\ IF tab[t].slot = "joined"
       THEN SetServing(t, [tree |-> tab[t].tree, serving |-> tab'[t].have = 2, holding |-> TRUE])
       ELSE UNCHANGED <<cell, asked>>
    /\ UNCHANGED <<ticket, wrong, node, log, doc, known, book, originVars, mount>>

\* leave_mesh: the slot is left at once, whatever the join is at.
TabLeaves(t) ==
    /\ Open(t)
    /\ tab' = [tab EXCEPT ![t].pc = "closed", ![t].slot = "left"]
    /\ UNCHANGED vars

\* leave of a membership whose page let go of it: the goodbye is broadcast.
TabSaysGoodbye(t) ==
    /\ tab[t].slot = "left" /\ node[t] = "in"
    /\ Ends(t, "left")
    /\ UNCHANGED <<meshOnly, tab>>

\* The page is torn down before any broadcast runs.
TabDies(t) ==
    /\ tab[t].pc \in {"open", "closed"} /\ (Open(t) \/ tab[t].join # "none") /\ node[t] # "left"
    /\ tab' = [tab EXCEPT ![t].pc = "dead", ![t].join = "none", ![t].slot = "left"]
    /\ Ends(t, "gone")
    /\ UNCHANGED meshOnly

-----------------------------------------------------------------------------

\* The peers with a data channel open: the producer's here, those of other tabs
\* are module Swarm's.
DirectPeers(t) == IF Open(t) THEN {Origin} ELSE {}

\* Who t and its producer are, whom t has a channel to, and the cards the mesh and
\* the document have.  Two ids are t's only where a seeder is mounted, see Connect.
SwarmView(t) ==
    [local |-> t, ours |-> {t}, producer |-> Origin, direct |-> DirectPeers(t),
     present |-> Present(book[t]), all |-> All(book[t])]

\* swarm_rows: one row per peer, the tab itself and its producer whatever the
\* mesh says of them, then the other channels, then whoever else is here.  Any
\* card dresses a row, only a present peer's makes one.
SwarmRows(t) ==
    LET view == SwarmView(t)
        Row(id, role) ==
            [id |-> id, role |-> role, direct |-> id \in view.direct,
             trees |-> {card.tree : card \in {c \in view.all : c.endpoint = id}}]
        others == view.direct \ (view.ours \cup {view.producer})
        rest == {card.endpoint : card \in view.present} \ (view.ours \cup {view.producer} \cup others)
    IN  {Row(view.local, "self"), Row(view.producer, "producer")}
        \cup {Row(id, "direct") : id \in others}
        \cup {Row(id, "gossip") : id \in rest}

TabTask(t) == TabSpawns(t) \/ TabStarts(t) \/ TabSaysGoodbye(t)

TabNext ==
    \/ Next /\ UNCHANGED tab
    \/ \E t \in Tabs :
        \/ TabRedeems(t) \/ TabConnects(t) \/ TabTask(t)
        \/ TabFetches(t) \/ TabRefused(t) \/ TabPublishes(t)
        \/ TabLeaves(t) \/ TabDies(t)

ShareSpec == TabInit /\ [][TabNext]_allVars

\* As in Mesh, and a tab's background tasks run; what the page and its user do
\* is never forced.
FairSpec == ShareSpec /\ WF_allVars((Unchosen /\ UNCHANGED tab) \/ \E t \in Tabs : TabTask(t))

-----------------------------------------------------------------------------

\* The client of a page has its shape, and no card before its membership.
TabTypeOK ==
    \A t \in Tabs :
        /\ tab[t].pc \in {"redeem", "dial", "open", "closed", "dead"}
        /\ tab[t].join \in {"none", "pending", "landed"}
        /\ tab[t].slot \in {"pending", "joined", "left"}
        /\ tab[t].tree \in 0..MaxTree /\ tab[t].have \in 0..MaxHave
        /\ log[t] # << >> => tab[t].slot # "pending"

\* A reader takes a tab for a source on the word of its card.  Whatever card of a
\* tab is still about, if it says there are bytes then it names the tree their
\* slots index into, the page kept some, and it had the password; although the
\* membership came up before the tab knew a tree, and the two are set apart.
TabCardsAreEarned ==
    \A t \in Tabs : \A k \in 1..Len(log[t]) :
        LET card == FromCardValue(log[t][k])
        IN  /\ HoldsSomething(card) => card.tree # 0 /\ tab[t].have > 0
            /\ card.tree # 0 => Right(t) /\ card.tree <= tab[t].tree

\* Peers of either kind take and give a card for what it is.
PeersAreHonest == AttachesAreHonest /\ TabTypeOK /\ TabCardsAreEarned

\* What p shows of the tree q is on: a tab in its list, a mount in its book.
ShowsTree(p, q, tree) ==
    IF p \in Tabs THEN \E row \in SwarmRows(p) : row.id = q /\ tree \in row.trees
    ELSE \E card \in All(book[p]) : card.endpoint = q /\ card.tree = tree

\* What a mount or a tab has kept is in every peer's book in the end, and so is
\* the tree a tab on the mesh is on: publishing on a timer, from a cell, behind a
\* queue, and a join that lands before or after the first manifest, lose no last
\* word.
HoldingIsAdvertised ==
    []<>(\A p \in Nodes, q \in Mounts \cup Tabs :
            node[p] = "in" /\ node[q] = "in" /\ Right(p) =>
                /\ Holds(q) => ShowsHolding(p, q)
                /\ q \in Tabs /\ tab[q].slot = "joined" /\ tab[q].tree # 0 => ShowsTree(p, q, tab[q].tree))

\* News of the tree and of what peers have reaches every book.
NewsReachesEveryBook == ChangesReachEveryBook /\ HoldingIsAdvertised

\* What p's user sees of the peers: a tab's list has more than the mesh in it.
Lists(p, q) ==
    IF p \in Tabs THEN \E row \in SwarmRows(p) : row.id = q /\ row.role = "gossip"
    ELSE \E card \in Present(book[p]) : card.endpoint = q

\* The list a user sees drops a peer that is gone, however it went: a goodbye
\* refreshes the book, a silence, and every closed page is one, is only found by
\* the tick.
DepartedPeersAreDropped ==
    []<>(\A p, q \in Nodes : node[p] = "in" /\ node[q] \in {"left", "gone"} => ~Lists(p, q))
=============================================================================
