---------------------------- MODULE PeersProofs ----------------------------
(***************************************************************************)
(* Theorems of the peers of a share: producers, mounts and tabs on its     *)
(* mesh (TabPeer, and so Mesh and Roster), for any number of each, any     *)
(* tickets, trees and departures; and of the lanes between them and the    *)
(* downloads over those (Swarm), for any peers, files, claims and losses.  *)
(***************************************************************************)
EXTENDS TabPeer, MCSwarm, TLAPS, FiniteSetTheorems, SequenceTheorems, WellFoundedInduction

-----------------------------------------------------------------------------
(* The mesh: cards, books and who is believed.                               *)

Cells == [tree : 0..MaxTree, serving : BOOLEAN, holding : BOOLEAN]

\* What is published, and what is read: a tab's book also has its card from
\* before it was published.
Values == {OwnCard(p, value) : p \in Nodes, value \in Cells}
SeedCard(t) == [FromCardValue(OwnCard(t, EmptyCell)) EXCEPT !.holding = "unknown"]
Cards == {FromCardValue(value) : value \in Values} \cup {SeedCard(t) : t \in Tabs}
Rosters == [entries : SUBSET [nickname : Nodes, card : Cards], present : SUBSET Nodes]

Attaching == {"redeem", "fetch", "await mesh", "poll"}
Attached == {"mount", "alone", "serving", "done"}
MountState ==
    [pc : Attaching \cup Attached \cup {"dial", "failed"}, join : {"none", "pending", "joined"},
     tree : 0..MaxTree, have : 0..MaxHave, cards : SUBSET Cards, left : SUBSET Cards,
     why : {"none", "password", "no mesh", "nobody vouches", "no seeder"}]
TabState ==
    [pc : {"redeem", "dial", "open", "closed", "dead"}, join : {"none", "pending", "landed"},
     slot : {"pending", "joined", "left"}, tree : 0..MaxTree, have : 0..MaxHave]

Shapes ==
    /\ ticket \in Tickets /\ wrong \subseteq Mounts \cup Tabs /\ armed \in [Tabs -> 0..MaxTree]
    /\ current \in 1..MaxTree /\ listening \in BOOLEAN /\ updates \in BOOLEAN
    /\ node \in [Nodes -> {"out", "in", "left", "gone"}]
    /\ cell \in [Nodes -> Cells] /\ asked \in [Nodes -> BOOLEAN]
    /\ log \in [Nodes -> Seq(Values)] /\ doc \in [Nodes -> [Nodes -> Nat]]
    /\ known \in [Nodes -> SUBSET Nodes] /\ book \in [Nodes -> Rosters]
    /\ mount \in [Mounts -> MountState] /\ tab \in [Tabs -> TabState]

\* Whatever a peer published reads as a card of its own.
IsCardOf(p, card) ==
    /\ card.endpoint = p /\ card.tree \in 0..MaxTree /\ card.holding \in {"yes", "no"}
LogsRead == \A p \in Nodes : \A k \in 1..Len(log[p]) : IsCardOf(p, FromCardValue(log[p][k]))

\* No replica is ahead of an author.
ReplicasFollow == \A p, q \in Nodes : doc[p][q] <= Len(log[q])

\* No tree among these cards has more votes.
Wins(cards, tree) == \A card \in cards : Votes(cards, tree) >= Votes(cards, card.tree)

\* The attach of a mount: what it is at, and why it is let go on.
AttachIsHonest(m) ==
    /\ mount[m].tree # 0 => mount[m].pc \in Attached
    /\ mount[m].pc = "redeem" => mount[m].join = "none" /\ node[m] = "out"
    /\ mount[m].pc \in Attaching => mount[m].cards = {}
    /\ mount[m].left \subseteq mount[m].cards
    /\ ~ticket.signed /\ mount[m].pc = "dial" =>
        \A card \in mount[m].left : Wins(mount[m].cards, card.tree)
    /\ ~ticket.signed /\ mount[m].cards # {} /\ mount[m].tree # 0 =>
        Wins(mount[m].cards, mount[m].tree)
    /\ mount[m].why = "password" => ~Right(m)

\* A mount with a wrong password is on a mesh of its own: nothing is dialled from
\* there, and nobody else is in its book.
StrangerIsAlone(m) ==
    /\ node[m] = "out" => (\A q \in Nodes : doc[m][q] = 0) /\ book[m].entries = {}
    /\ ~Right(m) =>
        /\ mount[m].tree = 0 /\ mount[m].pc # "dial"
        /\ \A q \in Nodes \ {m} : doc[m][q] = 0
        /\ \A e \in book[m].entries : e.card.endpoint = m

\* What a mount says of itself, in its cell or in a card ever published.
MountSays(k, tree, holds) ==
    /\ tree # 0 => k.pc \in {"serving", "done"} /\ k.tree = tree
    /\ holds => k.have > 0
MountWord(m) ==
    /\ MountSays(mount[m], cell[m].tree, cell[m].holding)
    /\ \A k \in 1..Len(log[m]) :
        LET card == FromCardValue(log[m][k])
        IN  MountSays(mount[m], card.tree, HoldsSomething(card))

\* A page has a membership, and a tree, only after its password was read.
TabIsHonest(t) ==
    /\ tab[t].tree <= current
    /\ tab[t].tree # 0 => Right(t)
    /\ tab[t].pc \in {"redeem", "dial"} =>
        tab[t].join = "none" /\ tab[t].slot = "pending" /\ tab[t].tree = 0
    /\ tab[t].slot = "pending" =>
        tab[t].join # "landed" /\ node[t] = "out" /\ cell[t] = EmptyCell /\ log[t] = << >>

TabSays(t, k, mistaken, tree, holds) ==
    /\ holds => tree # 0 /\ k.have > 0
    /\ tree # 0 => t \notin mistaken /\ tree <= k.tree
TabWord(t) ==
    /\ TabSays(t, tab[t], wrong, cell[t].tree, cell[t].holding)
    /\ \A k \in 1..Len(log[t]) :
        LET card == FromCardValue(log[t][k])
        IN  TabSays(t, tab[t], wrong, card.tree, HoldsSomething(card))

HonestMount(m) == AttachIsHonest(m) /\ StrangerIsAlone(m) /\ MountWord(m)
HonestTab(t) == TabIsHonest(t) /\ TabWord(t)

PeerInv ==
    /\ Shapes /\ LogsRead /\ ReplicasFollow
    /\ \A m \in Mounts : HonestMount(m)
    /\ \A t \in Tabs : HonestTab(t)

LEMMA OwnCardReads ==
    ASSUME NEW p \in Nodes, NEW value \in Cells
    PROVE  LET card == FromCardValue(OwnCard(p, value))
           IN  /\ card.endpoint = p /\ card.tree = value.tree
               /\ card.holding = IF value.holding THEN "yes" ELSE "no"
<1> DEFINE full == [endpoint |-> p, transport |-> Transport(p), role |-> Role(p),
                    tree |-> value.tree, serving |-> value.serving,
                    holding |-> IF value.holding THEN "yes" ELSE "no"]
           v == ToCardValue(full)
<1>1. OwnCard(p, value) = v
  BY DEF OwnCard
<1>2. /\ full.endpoint = p /\ full.tree = value.tree
      /\ full.holding = IF value.holding THEN "yes" ELSE "no"
  OBVIOUS
<1>3. /\ full["endpoint"] = p /\ full["tree"] = value.tree
      /\ full["holding"] = IF value.holding THEN "yes" ELSE "no"
  BY <1>2
<1> HIDE DEF full
<1>4. "endpoint" \in DOMAIN v /\ v["endpoint"] = full["endpoint"]
  BY DEF ToCardValue, CardFields
<1>5. "tree" \in DOMAIN v <=> full["tree"] # 0
  BY DEF ToCardValue, CardFields, Unknown
<1>6. "tree" \in DOMAIN v => v["tree"] = full["tree"]
  BY DEF ToCardValue, CardFields, Unknown
<1>7. "holding" \in DOMAIN v <=> full["holding"] # "unknown"
  BY DEF ToCardValue, CardFields, Unknown
<1>8. "holding" \in DOMAIN v => v["holding"] = full["holding"]
  BY DEF ToCardValue, CardFields, Unknown
<1> HIDE DEF v
<1>9. FromCardValue(v).endpoint = p
  BY <1>3, <1>4 DEF FromCardValue, CardFields
<1>10. FromCardValue(v).tree = value.tree
  BY <1>3, <1>5, <1>6 DEF FromCardValue, CardFields, Unknown
<1>11. FromCardValue(v).holding = IF value.holding THEN "yes" ELSE "no"
  BY <1>3, <1>7, <1>8 DEF FromCardValue, CardFields, Unknown
<1>12. QED
  BY <1>1, <1>9, <1>10, <1>11

(* So a reader takes a published card for what its author's cells said.      *)
LEMMA CardSaysTheCell ==
    ASSUME NEW p \in Nodes, NEW value \in Cells
    PROVE  LET card == FromCardValue(OwnCard(p, value))
           IN  /\ IsCardOf(p, card) /\ card.tree = value.tree
               /\ HoldsSomething(card) = value.holding
<1>1. value.tree \in 0..MaxTree /\ value.holding \in BOOLEAN
  BY DEF Cells
<1>2. QED
  BY <1>1, OwnCardReads DEF IsCardOf, HoldsSomething

(* Every card in a book has an endpoint and a tree.                          *)
LEMMA CardsRead ==
    \A card \in Cards : card.endpoint \in Nodes /\ card.tree \in 0..MaxTree
<1> SUFFICES ASSUME NEW card \in Cards
             PROVE  card.endpoint \in Nodes /\ card.tree \in 0..MaxTree
  OBVIOUS
<1>1. CASE card \in {FromCardValue(value) : value \in Values}
  <2>1. PICK p \in Nodes, value \in Cells : card = FromCardValue(OwnCard(p, value))
    BY <1>1 DEF Values
  <2>2. QED
    BY <2>1, CardSaysTheCell DEF IsCardOf
<1>2. CASE card \in {SeedCard(t) : t \in Tabs}
  <2>1. PICK t \in Tabs : card = SeedCard(t)
    BY <1>2
  <2>2. t \in Nodes /\ EmptyCell \in Cells /\ 0 \in 0..MaxTree
    BY MeshAssumption DEF Nodes, EmptyCell, Cells
  <2> DEFINE own == FromCardValue(OwnCard(t, EmptyCell))
  <2>3. own.endpoint = t /\ own.tree = 0
    BY <2>2, OwnCardReads DEF EmptyCell
  <2>4. card = [own EXCEPT !.holding = "unknown"] /\ own = [f \in CardFields |-> own[f]]
    BY <2>1 DEF SeedCard, FromCardValue
  <2> HIDE DEF own
  <2>5. card.endpoint = t /\ card.tree = 0
    BY <2>3, <2>4 DEF CardFields
  <2>6. QED
    BY <2>2, <2>5
<1>3. QED
  BY <1>1, <1>2 DEF Cards

(* A book is read off the replica: each entry is a card some author published *)
(* under its own endpoint, and the replica has seen that author.             *)
LEMMA BookReads ==
    ASSUME NEW p \in Nodes, NEW seen \in [Nodes -> Nat], NEW peers \in SUBSET Nodes,
           NEW cards \in [Nodes -> Seq(Values)], \A q \in Nodes : seen[q] <= Len(cards[q]),
           \A q \in Nodes : \A k \in 1..Len(cards[q]) : IsCardOf(q, FromCardValue(cards[q][k]))
    PROVE  /\ BookOf(p, seen, peers, cards) \in Rosters
           /\ \A e \in BookOf(p, seen, peers, cards).entries : seen[e.card.endpoint] > 0
<1> DEFINE meta == MetaOf(seen, cards)
<1>1. DOMAIN meta = {q \in Nodes : seen[q] > 0} /\ \A q \in DOMAIN meta : meta[q] = cards[q][seen[q]]
  BY DEF MetaOf
<1>2. \A q \in DOMAIN meta : seen[q] \in 1..Len(cards[q])
  BY <1>1
<1>3. \A q \in DOMAIN meta : meta[q] \in Values /\ IsCardOf(q, FromCardValue(meta[q]))
  BY <1>1, <1>2
<1> HIDE DEF meta
<1>4. \A e \in EntriesFromMeta(meta) : \E q \in DOMAIN meta :
        e = [nickname |-> q, card |-> FromCardValue(meta[q])]
  BY DEF EntriesFromMeta
<1>5. ASSUME NEW e \in EntriesFromMeta(meta)
      PROVE  e \in [nickname : Nodes, card : Cards] /\ seen[e.card.endpoint] > 0
  <2>1. PICK q \in DOMAIN meta : e = [nickname |-> q, card |-> FromCardValue(meta[q])]
    BY <1>4
  <2>2. FromCardValue(meta[q]) \in Cards
    BY <1>3, <2>1 DEF Cards
  <2>3. e.card.endpoint = q
    BY <1>3, <2>1 DEF IsCardOf
  <2>4. QED
    BY <1>1, <2>1, <2>2, <2>3
<1>6. PresentNicknames(p, peers) \in SUBSET Nodes
  BY DEF PresentNicknames
<1>7. BookOf(p, seen, peers, cards)
        = [entries |-> EntriesFromMeta(meta), present |-> PresentNicknames(p, peers)]
  BY DEF BookOf, meta
<1>8. QED
  BY <1>5, <1>6, <1>7 DEF Rosters

-----------------------------------------------------------------------------
(* What steps do to one peer, and leave of the others.                       *)

\* Nothing of p but who it counts as present has changed.
PeerAside(p) ==
    /\ Right(p)' = Right(p) /\ node'[p] = node[p] /\ cell'[p] = cell[p]
    /\ log'[p] = log[p] /\ doc'[p] = doc[p] /\ book'[p] = book[p]

LEMMA MountAside ==
    ASSUME NEW m \in Mounts, HonestMount(m), PeerAside(m), ticket' = ticket, mount'[m] = mount[m]
    PROVE  HonestMount(m)'
<1>1. AttachIsHonest(m)'
  BY DEF HonestMount, AttachIsHonest, PeerAside, Wins
<1>2. StrangerIsAlone(m)'
  BY DEF HonestMount, StrangerIsAlone, PeerAside
<1>3. MountWord(m)'
  BY DEF HonestMount, MountWord, MountSays, PeerAside
<1>4. QED
  BY <1>1, <1>2, <1>3 DEF HonestMount

LEMMA TabAside ==
    ASSUME NEW t \in Tabs, HonestTab(t), PeerAside(t), tab'[t] = tab[t], tab[t].tree \in Nat,
           current \in Nat, current' \in Nat, current <= current'
    PROVE  HonestTab(t)'
<1>1. TabIsHonest(t)'
  BY DEF HonestTab, TabIsHonest, PeerAside
<1>2. TabWord(t)'
  BY DEF HonestTab, TabWord, TabSays, PeerAside, Right
<1>3. QED
  BY <1>1, <1>2 DEF HonestTab

\* What p has published, by now, is what it had or what its cells say.
LogGrows(p) ==
    \A k \in 1..Len(log'[p]) :
        \/ LET card == FromCardValue(log'[p][k])
           IN  card.tree = cell'[p].tree /\ HoldsSomething(card) = cell'[p].holding
        \/ k \in 1..Len(log[p]) /\ log'[p][k] = log[p][k]

LEMMA Refreshed ==
    ASSUME Shapes, NEW p \in Nodes, RefreshBook(p),
           log' \in [Nodes -> Seq(Values)], doc' \in [Nodes -> [Nodes -> Nat]],
           known' \in [Nodes -> SUBSET Nodes], LogsRead', ReplicasFollow'
    PROVE  /\ book' \in [Nodes -> Rosters]
           /\ \A q \in Nodes \ {p} : book'[q] = book[q]
           /\ \A e \in book'[p].entries : e.card.endpoint \in Nodes /\ doc'[p][e.card.endpoint] > 0
<1>1. PICK seen \in [Nodes -> Nat], peers \in SUBSET Nodes, cards \in [Nodes -> Seq(Values)] :
        seen = doc'[p] /\ peers = known'[p] /\ cards = log'
  OBVIOUS
<1>2. \A q \in Nodes : seen[q] <= Len(cards[q])
  BY <1>1 DEF ReplicasFollow
<1>3. \A q \in Nodes : \A k \in 1..Len(cards[q]) : IsCardOf(q, FromCardValue(cards[q][k]))
  BY <1>1 DEF LogsRead
<1>4. PICK roster : roster = BookOf(p, seen, peers, cards)
  OBVIOUS
<1>5. roster \in Rosters /\ \A e \in roster.entries : seen[e.card.endpoint] > 0
  BY <1>2, <1>3, <1>4, BookReads
<1>6. \A e \in roster.entries : e.card.endpoint \in Nodes
  BY <1>5, CardsRead DEF Rosters
<1>7. book' = [book EXCEPT ![p] = roster] /\ book \in [Nodes -> Rosters]
  BY <1>1, <1>4 DEF RefreshBook, Shapes
<1>8. book'[p] = roster
  BY <1>7
<1>9. QED
  BY <1>1, <1>5, <1>6, <1>7, <1>8

LEMMA Published ==
    ASSUME Shapes, LogsRead, ReplicasFollow, NEW p \in Nodes, PublishCard(p),
           cell' \in [Nodes -> Cells], known' \in [Nodes -> SUBSET Nodes]
    PROVE  /\ log' \in [Nodes -> Seq(Values)] /\ doc' \in [Nodes -> [Nodes -> Nat]]
           /\ book' \in [Nodes -> Rosters]
           /\ LogsRead' /\ ReplicasFollow'
           /\ \A q \in Nodes \ {p} : log'[q] = log[q] /\ doc'[q] = doc[q] /\ book'[q] = book[q]
           /\ \A q \in Nodes \ {p} : doc'[p][q] = doc[p][q]
           /\ \A e \in book'[p].entries : e.card.endpoint \in Nodes /\ doc'[p][e.card.endpoint] > 0
           /\ LogGrows(p)
<1>1. PICK value \in Cells : value = cell'[p]
  OBVIOUS
<1>2. PICK card : card = OwnCard(p, value)
  OBVIOUS
<1>3. card \in Values /\ IsCardOf(p, FromCardValue(card)) /\ FromCardValue(card).tree = value.tree
      /\ HoldsSomething(FromCardValue(card)) = value.holding
  BY <1>2, CardSaysTheCell DEF Values
<1>4. log \in [Nodes -> Seq(Values)] /\ doc \in [Nodes -> [Nodes -> Nat]]
  BY DEF Shapes
<1>5. log' = log \/ log' = [log EXCEPT ![p] = Append(@, card)]
  BY <1>1, <1>2 DEF PublishCard
<1>6. Append(log[p], card) \in Seq(Values) /\ Len(Append(log[p], card)) = Len(log[p]) + 1
      /\ Append(log[p], card)[Len(log[p]) + 1] = card
      /\ \A k \in 1..Len(log[p]) : Append(log[p], card)[k] = log[p][k]
  BY <1>3, <1>4
<1>7. Len(log[p]) \in Nat
  BY <1>4
<1>8. log' \in [Nodes -> Seq(Values)] /\ \A q \in Nodes \ {p} : log'[q] = log[q]
  BY <1>4, <1>5, <1>6
<1>9. log'[p] = log[p] \/ log'[p] = Append(log[p], card)
  BY <1>4, <1>5
<1>10. \A k \in 1..Len(log'[p]) : log'[p][k] = card \/ (k \in 1..Len(log[p]) /\ log'[p][k] = log[p][k])
  <2>1. CASE log'[p] = log[p]
    BY <2>1
  <2>2. CASE log'[p] = Append(log[p], card)
    <3>1. ASSUME NEW k \in 1..Len(log'[p]) PROVE k = Len(log[p]) + 1 \/ k \in 1..Len(log[p])
      BY <1>6, <1>7, <2>2
    <3>2. QED
      BY <1>6, <2>2, <3>1
  <2>3. QED
    BY <1>9, <2>1, <2>2
<1>11. Len(log'[p]) \in Nat /\ Len(log[p]) <= Len(log'[p])
  BY <1>6, <1>7, <1>9
<1>12. LogGrows(p)
  BY <1>1, <1>3, <1>10 DEF LogGrows
<1>13. LogsRead'
  <2>1. ASSUME NEW q \in Nodes, NEW k \in 1..Len(log'[q])
        PROVE  IsCardOf(q, FromCardValue(log'[q][k]))
    <3>1. CASE q = p
      BY <1>3, <1>10, <3>1 DEF LogsRead
    <3>2. CASE q # p
      BY <1>8, <3>2 DEF LogsRead
    <3>3. QED
      BY <3>1, <3>2
  <2>2. QED
    BY <2>1 DEF LogsRead
<1>14. doc' = [doc EXCEPT ![p][p] = Len(log'[p])]
  BY DEF PublishCard
<1>15. doc' \in [Nodes -> [Nodes -> Nat]] /\ doc'[p][p] = Len(log'[p])
       /\ (\A q \in Nodes \ {p} : doc'[q] = doc[q]) /\ (\A q \in Nodes \ {p} : doc'[p][q] = doc[p][q])
  BY <1>4, <1>11, <1>14
<1>16. ReplicasFollow'
  <2>1. ASSUME NEW r \in Nodes, NEW q \in Nodes PROVE doc'[r][q] <= Len(log'[q])
    <3>1. doc[r][q] <= Len(log[q]) /\ doc[r][q] \in Nat /\ Len(log[q]) \in Nat
      BY <1>4 DEF ReplicasFollow
    <3>2. Len(log[q]) <= Len(log'[q]) /\ Len(log'[q]) \in Nat
      BY <1>8, <1>11, <3>1
    <3>3. doc'[r][q] = doc[r][q] \/ (q = p /\ doc'[r][q] = Len(log'[q]))
      BY <1>15
    <3>4. QED
      BY <3>1, <3>2, <3>3
  <2>2. QED
    BY <2>1 DEF ReplicasFollow
<1>17. RefreshBook(p)
  BY DEF PublishCard
<1>18. QED
  BY <1>8, <1>12, <1>13, <1>15, <1>16, <1>17, Refreshed

LEMMA Ended ==
    ASSUME Shapes, LogsRead, ReplicasFollow, NEW p \in Nodes, NEW how \in {"left", "gone"}, Ends(p, how)
    PROVE  /\ node' \in [Nodes -> {"out", "in", "left", "gone"}]
           /\ cell' \in [Nodes -> Cells] /\ asked' \in [Nodes -> BOOLEAN] /\ log' = log
           /\ doc' \in [Nodes -> [Nodes -> Nat]] /\ known' \in [Nodes -> SUBSET Nodes]
           /\ book' \in [Nodes -> Rosters]
           /\ LogsRead' /\ ReplicasFollow'
           /\ \A q \in Nodes \ {p} : /\ node'[q] = node[q] /\ cell'[q] = cell[q]
                                     /\ doc'[q] = doc[q] /\ book'[q] = book[q]
           /\ node'[p] = (IF node[p] = "out" THEN "out" ELSE how) /\ cell'[p] = EmptyCell
           /\ (\A q \in Nodes : doc'[p][q] = 0) /\ book'[p].entries = {}
<1>1. EmptyCell \in Cells /\ NewRoster \in Rosters /\ NewRoster.entries = {}
  BY MeshAssumption DEF EmptyCell, Cells, NewRoster, Rosters
<1>2. LogsRead'
  BY DEF LogsRead, Ends
<1>3. /\ node' \in [Nodes -> {"out", "in", "left", "gone"}]
      /\ cell' \in [Nodes -> Cells] /\ asked' \in [Nodes -> BOOLEAN] /\ log' = log
      /\ known' \in [Nodes -> SUBSET Nodes] /\ book' \in [Nodes -> Rosters]
  BY <1>1 DEF Ends, Shapes
<1>4. \A q \in Nodes \ {p} : node'[q] = node[q] /\ cell'[q] = cell[q] /\ book'[q] = book[q]
  BY DEF Ends, Shapes
<1>5. /\ node'[p] = (IF node[p] = "out" THEN "out" ELSE how) /\ cell'[p] = EmptyCell
      /\ book'[p].entries = {}
  BY <1>1 DEF Ends, Shapes
<1>6. /\ doc' \in [Nodes -> [Nodes -> Nat]] /\ (\A q \in Nodes : doc'[p][q] = 0)
      /\ \A q \in Nodes \ {p} : doc'[q] = doc[q]
  BY DEF Ends, Shapes
<1>7. ReplicasFollow'
  <2>1. ASSUME NEW r \in Nodes, NEW q \in Nodes PROVE doc'[r][q] <= Len(log'[q])
    <3>1. Len(log[q]) \in Nat /\ doc[r][q] <= Len(log[q])
      BY DEF Shapes, ReplicasFollow
    <3>2. doc'[r][q] = doc[r][q] \/ doc'[r][q] = 0
      BY <1>6
    <3>3. QED
      BY <1>3, <3>1, <3>2
  <2>2. QED
    BY <2>1 DEF ReplicasFollow
<1>8. QED
  BY <1>2, <1>3, <1>4, <1>5, <1>6, <1>7

\* The words of p, where no word it has given is taken back.
LEMMA MountKeepsItsWord ==
    ASSUME NEW m \in Mounts, MountWord(m), LogGrows(m),
           MountSays(mount'[m], cell'[m].tree, cell'[m].holding),
           \A tree, holds : MountSays(mount[m], tree, holds) => MountSays(mount'[m], tree, holds)
    PROVE  MountWord(m)'
<1>1. ASSUME NEW k \in 1..Len(log'[m])
      PROVE  LET card == FromCardValue(log'[m][k])
             IN  MountSays(mount'[m], card.tree, HoldsSomething(card))
  <2>1. PICK card : card = FromCardValue(log'[m][k])
    OBVIOUS
  <2>2. CASE card.tree = cell'[m].tree /\ HoldsSomething(card) = cell'[m].holding
    BY <2>1, <2>2
  <2>3. CASE k \in 1..Len(log[m]) /\ log'[m][k] = log[m][k]
    <3>1. MountSays(mount[m], card.tree, HoldsSomething(card))
      BY <2>1, <2>3 DEF MountWord
    <3>2. QED
      BY <2>1, <3>1
  <2>4. QED
    BY <2>1, <2>2, <2>3 DEF LogGrows
<1>2. QED
  BY <1>1 DEF MountWord

LEMMA TabKeepsItsWord ==
    ASSUME NEW t \in Tabs, TabWord(t), LogGrows(t),
           TabSays(t, tab'[t], wrong', cell'[t].tree, cell'[t].holding),
           \A tree \in 0..MaxTree : \A holds :
                TabSays(t, tab[t], wrong, tree, holds) => TabSays(t, tab'[t], wrong', tree, holds),
           LogsRead
    PROVE  TabWord(t)'
<1>1. ASSUME NEW k \in 1..Len(log'[t])
      PROVE  LET card == FromCardValue(log'[t][k])
             IN  TabSays(t, tab'[t], wrong', card.tree, HoldsSomething(card))
  <2>1. PICK card : card = FromCardValue(log'[t][k])
    OBVIOUS
  <2>2. CASE card.tree = cell'[t].tree /\ HoldsSomething(card) = cell'[t].holding
    BY <2>1, <2>2
  <2>3. CASE k \in 1..Len(log[t]) /\ log'[t][k] = log[t][k]
    <3>1. TabSays(t, tab[t], wrong, card.tree, HoldsSomething(card)) /\ card.tree \in 0..MaxTree
      BY <2>1, <2>3, MeshAssumption DEF TabWord, LogsRead, IsCardOf, Nodes
    <3>2. QED
      BY <2>1, <3>1
  <2>4. QED
    BY <2>1, <2>2, <2>3 DEF LogGrows
<1>2. QED
  BY <1>1 DEF TabWord

(* A step of one peer: the others are as honest as they were.                *)
LEMMA LocalStep ==
    ASSUME PeerInv, NEW p \in Nodes, Shapes', LogsRead', ReplicasFollow', ticket' = ticket,
           current <= current',
           \A q \in Nodes \ {p} : PeerAside(q),
           \A m \in Mounts \ {p} : mount'[m] = mount[m],
           \A t \in Tabs \ {p} : tab'[t] = tab[t],
           p \in Mounts => HonestMount(p)',
           p \in Tabs => HonestTab(p)'
    PROVE  PeerInv'
<1>1. ASSUME NEW m \in Mounts PROVE HonestMount(m)'
  <2>1. CASE m = p
    BY <2>1
  <2>2. CASE m # p
    <3>1. m \in Nodes /\ HonestMount(m)
      BY DEF Nodes, PeerInv
    <3>2. QED
      BY <2>2, <3>1, MountAside
  <2>3. QED
    BY <2>1, <2>2
<1>2. ASSUME NEW t \in Tabs PROVE HonestTab(t)'
  <2>1. CASE t = p
    BY <2>1
  <2>2. CASE t # p
    <3>1. t \in Nodes /\ HonestTab(t) /\ Shapes
      BY DEF Nodes, PeerInv
    <3>2. tab[t].tree \in Nat /\ current \in Nat /\ current' \in Nat
      BY <3>1 DEF Shapes, TabState
    <3>3. PeerAside(t) /\ tab'[t] = tab[t]
      BY <2>2, <3>1
    <3>4. QED
      BY <3>1, <3>2, <3>3, TabAside
  <2>3. QED
    BY <2>1, <2>2
<1>3. QED
  BY <1>1, <1>2 DEF PeerInv

\* Nobody's cells, cards or books change, nor what mounts and tabs are at.
LEMMA SharedStep ==
    ASSUME PeerInv, Shapes', UNCHANGED <<ticket, wrong, node, cell, log, doc, book, mount, tab>>,
           current <= current'
    PROVE  PeerInv'
<1>1. LogsRead' /\ ReplicasFollow'
  BY DEF PeerInv, LogsRead, ReplicasFollow
<1>2. \A p \in Nodes : PeerAside(p)
  BY DEF PeerAside, Right
<1>3. Origin \in Nodes /\ Origin \notin Mounts /\ Origin \notin Tabs
  BY MeshAssumption DEF Nodes, Producers
<1>4. QED
  BY <1>1, <1>2, <1>3, LocalStep

(* The engine of p: its book is read again from what its replica has.        *)
LEMMA BookStep ==
    ASSUME PeerInv, NEW p \in Nodes, node[p] = "in", RefreshBook(p),
           UNCHANGED <<shareVars, node, cell, asked, log, originVars, mount, tab>>,
           doc' \in [Nodes -> [Nodes -> Nat]], known' \in [Nodes -> SUBSET Nodes], ReplicasFollow',
           \A q \in Nodes \ {p} : doc'[q] = doc[q], ~Right(p) => doc'[p] = doc[p]
    PROVE  PeerInv'
<1>1. Shapes /\ LogsRead
  BY DEF PeerInv
<1>2. log' \in [Nodes -> Seq(Values)] /\ LogsRead'
  BY <1>1 DEF Shapes, LogsRead
<1>3. /\ book' \in [Nodes -> Rosters]
      /\ \A q \in Nodes \ {p} : book'[q] = book[q]
      /\ \A e \in book'[p].entries : e.card.endpoint \in Nodes /\ doc'[p][e.card.endpoint] > 0
  BY <1>1, <1>2, Refreshed
<1>4. Shapes'
  BY <1>1, <1>3 DEF Shapes, shareVars, originVars
<1>5. \A q \in Nodes \ {p} : PeerAside(q)
  BY <1>3 DEF PeerAside, Right, shareVars
<1>6. ASSUME p \in Mounts PROVE HonestMount(p)'
  <2>1. HonestMount(p)
    BY <1>6 DEF PeerInv
  <2>2. AttachIsHonest(p)'
    BY <2>1 DEF HonestMount, AttachIsHonest, Right, Wins, shareVars
  <2>3. MountWord(p)'
    BY <2>1 DEF HonestMount, MountWord, MountSays
  <2>4. StrangerIsAlone(p)'
    <3>1. ASSUME ~Right(p) PROVE \A e \in book'[p].entries : e.card.endpoint = p
      <4>1. \A q \in Nodes \ {p} : doc'[p][q] = 0
        BY <2>1, <3>1 DEF HonestMount, StrangerIsAlone
      <4>2. QED
        BY <1>3, <4>1
    <3>2. QED
      BY <2>1, <3>1 DEF HonestMount, StrangerIsAlone, Right, shareVars
  <2>5. QED
    BY <2>2, <2>3, <2>4 DEF HonestMount
<1>7. ASSUME p \in Tabs PROVE HonestTab(p)'
  <2>1. HonestTab(p)
    BY <1>7 DEF PeerInv
  <2>2. TabIsHonest(p)'
    BY <2>1 DEF HonestTab, TabIsHonest, Right, shareVars, originVars
  <2>3. TabWord(p)'
    BY <2>1 DEF HonestTab, TabWord, TabSays, Right, shareVars
  <2>4. QED
    BY <2>2, <2>3 DEF HonestTab
<1>8. current <= current'
  BY <1>1 DEF Shapes, originVars
<1>9. ticket' = ticket /\ mount' = mount /\ tab' = tab
  BY DEF shareVars
<1>10. QED
  BY <1>2, <1>4, <1>5, <1>6, <1>7, <1>8, <1>9, LocalStep

LEMMA TickStep ==
    ASSUME PeerInv, NEW p \in Nodes, Tick(p), UNCHANGED tab
    PROVE  PeerInv'
<1>1. Shapes /\ ReplicasFollow
  BY DEF PeerInv
<1>2. /\ doc' \in [Nodes -> [Nodes -> Nat]] /\ known' \in [Nodes -> SUBSET Nodes]
      /\ ReplicasFollow' /\ doc' = doc
  BY <1>1 DEF Tick, Shapes, ReplicasFollow
<1>3. QED
  BY <1>2, BookStep DEF Tick

LEMMA PeerLeftStep ==
    ASSUME PeerInv, NEW p \in Nodes, NEW q \in Nodes, PeerLeft(p, q), UNCHANGED tab
    PROVE  PeerInv'
<1>1. Shapes /\ ReplicasFollow
  BY DEF PeerInv
<1>2. /\ doc' \in [Nodes -> [Nodes -> Nat]] /\ known' \in [Nodes -> SUBSET Nodes]
      /\ ReplicasFollow' /\ doc' = doc
  BY <1>1 DEF PeerLeft, Shapes, ReplicasFollow
<1>3. QED
  BY <1>2, BookStep DEF PeerLeft

LEMMA MetaAppliedStep ==
    ASSUME PeerInv, NEW p \in Nodes, NEW r \in Nodes, MetaApplied(p, r), UNCHANGED tab
    PROVE  PeerInv'
<1>1. Shapes /\ ReplicasFollow
  BY DEF PeerInv
<1>2. doc \in [Nodes -> [Nodes -> Nat]] /\ known' \in [Nodes -> SUBSET Nodes]
  BY <1>1 DEF MetaApplied, Shapes
<1>3. doc' = [doc EXCEPT ![p] = [q \in Nodes |-> IF doc[r][q] > doc[p][q] THEN doc[r][q] ELSE doc[p][q]]]
  BY <1>2 DEF MetaApplied
<1>4. /\ doc' \in [Nodes -> [Nodes -> Nat]] /\ \A q \in Nodes \ {p} : doc'[q] = doc[q]
      /\ \A q \in Nodes : doc'[p][q] \in {doc[r][q], doc[p][q]}
  BY <1>2, <1>3
<1>5. ReplicasFollow'
  <2>1. log' = log
    BY DEF MetaApplied
  <2>2. ASSUME NEW s \in Nodes, NEW q \in Nodes PROVE doc'[s][q] <= Len(log'[q])
    BY <1>1, <1>4, <2>1 DEF ReplicasFollow
  <2>3. QED
    BY <2>2 DEF ReplicasFollow
<1>6. Right(p)
  BY DEF MetaApplied
<1>7. QED
  BY <1>2, <1>4, <1>5, <1>6, BookStep DEF MetaApplied

LEMMA EvictStep ==
    ASSUME PeerInv, NEW p \in Nodes, NEW q \in Nodes, Evict(p, q), UNCHANGED tab
    PROVE  PeerInv'
<1>1. Shapes
  BY DEF PeerInv
<1>2. Shapes' /\ current <= current'
  BY <1>1 DEF Evict, Shapes, shareVars, originVars
<1>3. QED
  BY <1>2, SharedStep DEF Evict, shareVars

LEMMA RepublishStep ==
    ASSUME PeerInv, NEW p \in Nodes, Republish(p), UNCHANGED tab
    PROVE  PeerInv'
<1>1. Shapes /\ LogsRead /\ ReplicasFollow
  BY DEF PeerInv
<1>2. cell' = cell /\ known' = known /\ node' = node /\ mount' = mount /\ node[p] = "in"
      /\ asked' = [asked EXCEPT ![p] = FALSE] /\ UNCHANGED <<shareVars, originVars>> /\ PublishCard(p)
  BY DEF Republish
<1>3. cell' \in [Nodes -> Cells] /\ known' \in [Nodes -> SUBSET Nodes]
  BY <1>1, <1>2 DEF Shapes
<1>4. /\ log' \in [Nodes -> Seq(Values)] /\ doc' \in [Nodes -> [Nodes -> Nat]]
      /\ book' \in [Nodes -> Rosters]
      /\ LogsRead' /\ ReplicasFollow'
      /\ \A q \in Nodes \ {p} : log'[q] = log[q] /\ doc'[q] = doc[q] /\ book'[q] = book[q]
      /\ \A q \in Nodes \ {p} : doc'[p][q] = doc[p][q]
      /\ \A e \in book'[p].entries : e.card.endpoint \in Nodes /\ doc'[p][e.card.endpoint] > 0
      /\ LogGrows(p)
  BY <1>1, <1>2, <1>3, Published
<1>5. Shapes'
  BY <1>1, <1>2, <1>3, <1>4 DEF Shapes, shareVars, originVars
<1>6. \A q \in Nodes \ {p} : PeerAside(q)
  BY <1>2, <1>4 DEF PeerAside, Right, shareVars
<1>7. wrong' = wrong /\ ticket' = ticket /\ current' = current
  BY <1>2 DEF shareVars, originVars
<1>8. ASSUME p \in Mounts PROVE HonestMount(p)'
  <2>1. HonestMount(p)
    BY <1>8 DEF PeerInv
  <2>2. AttachIsHonest(p)'
    BY <1>2, <1>7, <2>1 DEF HonestMount, AttachIsHonest, Right, Wins
  <2>3. MountWord(p) /\ MountSays(mount'[p], cell'[p].tree, cell'[p].holding)
    BY <1>2, <2>1 DEF HonestMount, MountWord
  <2>4. MountWord(p)'
    BY <1>2, <1>4, <1>8, <2>3, MountKeepsItsWord
  <2>5. StrangerIsAlone(p)'
    <3>1. ASSUME ~Right(p)
          PROVE  /\ \A q \in Nodes \ {p} : doc'[p][q] = 0
                 /\ \A e \in book'[p].entries : e.card.endpoint = p
      <4>1. \A q \in Nodes \ {p} : doc'[p][q] = 0
        BY <1>4, <2>1, <3>1 DEF HonestMount, StrangerIsAlone
      <4>2. QED
        BY <1>4, <4>1
    <3>2. QED
      BY <1>2, <1>7, <2>1, <3>1 DEF HonestMount, StrangerIsAlone, Right
  <2>6. QED
    BY <2>2, <2>4, <2>5 DEF HonestMount
<1>9. ASSUME p \in Tabs PROVE HonestTab(p)'
  <2>1. HonestTab(p)
    BY <1>9 DEF PeerInv
  <2>2. TabIsHonest(p)'
    BY <1>2, <1>7, <2>1 DEF HonestTab, TabIsHonest, Right
  <2>3. TabWord(p) /\ TabSays(p, tab'[p], wrong', cell'[p].tree, cell'[p].holding)
    BY <1>2, <1>7, <2>1 DEF HonestTab, TabWord
  <2>4. TabWord(p)'
    BY <1>1, <1>4, <1>7, <1>9, <2>3, TabKeepsItsWord
  <2>5. QED
    BY <2>2, <2>4 DEF HonestTab
<1>10. current <= current' /\ mount' = mount
  BY <1>1, <1>2, <1>7 DEF Shapes
<1>11. QED
  BY <1>4, <1>5, <1>6, <1>7, <1>8, <1>9, <1>10, LocalStep

-----------------------------------------------------------------------------
(* The producers.                                                            *)

LEMMA ProducerStep ==
    ASSUME PeerInv, UNCHANGED tab,
           OriginSubscribes \/ TreeChanges \/ OriginFollows \/ \E p \in Producers : ProducerStops(p)
    PROVE  PeerInv'
<1>1. Shapes /\ LogsRead /\ ReplicasFollow /\ current \in Nat /\ MaxTree \in Nat
  BY MeshAssumption DEF PeerInv, Shapes
<1>2. \A p \in Producers : p \in Nodes /\ p \notin Mounts /\ p \notin Tabs
  BY MeshAssumption DEF Nodes
<1>3. Origin \in Producers
  BY DEF Producers
<1>4. CASE OriginSubscribes
  <2>1. Shapes' /\ current <= current'
    BY <1>1, <1>4 DEF OriginSubscribes, Shapes, shareVars, meshVars
  <2>2. QED
    BY <1>4, <2>1, SharedStep DEF OriginSubscribes, shareVars, meshVars
<1>5. CASE TreeChanges
  <2>1. current' \in 1..MaxTree /\ updates' \in BOOLEAN /\ current <= current'
    BY <1>1, <1>5, MeshAssumption DEF TreeChanges, Shapes
  <2>2. Shapes'
    BY <1>1, <1>5, <2>1 DEF TreeChanges, Shapes, shareVars, meshVars
  <2>3. QED
    BY <1>5, <2>1, <2>2, SharedStep DEF TreeChanges, shareVars, meshVars
<1>6. CASE OriginFollows
  <2>1. ProducerCell(Origin) \in Cells
    BY <1>1 DEF ProducerCell, ServedTree, Cells, Shapes
  <2>2. cell' \in [Nodes -> Cells] /\ asked' \in [Nodes -> BOOLEAN] /\ updates' \in BOOLEAN
        /\ \A q \in Nodes \ {Origin} : cell'[q] = cell[q]
    BY <1>1, <1>2, <1>3, <1>6, <2>1 DEF OriginFollows, SetCell, Shapes
  <2>3. Shapes' /\ current <= current'
    BY <1>1, <1>6, <2>2 DEF OriginFollows, Shapes, shareVars
  <2>4. LogsRead' /\ ReplicasFollow' /\ ticket' = ticket /\ mount' = mount
    BY <1>1, <1>6 DEF OriginFollows, LogsRead, ReplicasFollow, shareVars
  <2>5. \A q \in Nodes \ {Origin} : PeerAside(q)
    BY <1>6, <2>2 DEF OriginFollows, PeerAside, Right, shareVars
  <2>6. QED
    BY <1>2, <1>3, <2>3, <2>4, <2>5, LocalStep
<1>7. CASE \E p \in Producers : ProducerStops(p)
  <2>1. PICK p \in Producers : ProducerStops(p)
    BY <1>7
  <2>2. PICK how \in {"left", "gone"} : Ends(p, how)
    BY <2>1 DEF ProducerStops
  <2>3. /\ node' \in [Nodes -> {"out", "in", "left", "gone"}]
        /\ cell' \in [Nodes -> Cells] /\ asked' \in [Nodes -> BOOLEAN] /\ log' = log
        /\ doc' \in [Nodes -> [Nodes -> Nat]] /\ known' \in [Nodes -> SUBSET Nodes]
        /\ book' \in [Nodes -> Rosters]
        /\ LogsRead' /\ ReplicasFollow'
        /\ \A q \in Nodes \ {p} : /\ node'[q] = node[q] /\ cell'[q] = cell[q]
                                  /\ doc'[q] = doc[q] /\ book'[q] = book[q]
    BY <1>1, <1>2, <2>2, Ended
  <2>4. /\ UNCHANGED <<ticket, wrong, armed, current, listening, mount>> /\ updates' \in BOOLEAN
    BY <1>1, <2>1 DEF ProducerStops, shareVars, Shapes
  <2>5. Shapes' /\ current <= current'
    BY <1>1, <2>3, <2>4 DEF Shapes
  <2>6. \A q \in Nodes \ {p} : PeerAside(q)
    BY <2>3, <2>4 DEF PeerAside, Right
  <2>7. QED
    BY <1>2, <2>3, <2>4, <2>5, <2>6, LocalStep
<1>8. QED
  BY <1>4, <1>5, <1>6, <1>7

-----------------------------------------------------------------------------
(* The attach of a mount.                                                    *)

\* A step of the attach that leaves the mesh alone.
LEMMA AttachStep ==
    ASSUME PeerInv, NEW m \in Mounts, UNCHANGED <<shareVars, meshVars, originVars, tab>>,
           NEW k \in MountState, mount' = [mount EXCEPT ![m] = k],
           AttachIsHonest(m)', ~Right(m) => k.tree = 0 /\ k.pc # "dial",
           \A tree, holds : MountSays(mount[m], tree, holds) => MountSays(k, tree, holds)
    PROVE  PeerInv'
<1>1. Shapes /\ m \in Nodes /\ m \notin Tabs
  BY MeshAssumption DEF PeerInv, Nodes
<1>2. mount' \in [Mounts -> MountState] /\ mount'[m] = k /\ \A n \in Mounts \ {m} : mount'[n] = mount[n]
  BY <1>1 DEF Shapes
<1>3. Shapes' /\ current <= current' /\ ticket' = ticket /\ tab' = tab
  BY <1>1, <1>2 DEF Shapes, shareVars, meshVars, originVars
<1>4. LogsRead' /\ ReplicasFollow'
  BY DEF PeerInv, LogsRead, ReplicasFollow, meshVars
<1>5. \A q \in Nodes \ {m} : PeerAside(q)
  BY DEF PeerAside, Right, shareVars, meshVars
<1>6. HonestMount(m)'
  <2>1. HonestMount(m)
    BY DEF PeerInv
  <2>2. StrangerIsAlone(m)'
    BY <1>2, <2>1 DEF HonestMount, StrangerIsAlone, Right, shareVars, meshVars
  <2>3. MountWord(m)'
    BY <1>2, <2>1 DEF HonestMount, MountWord, meshVars
  <2>4. QED
    BY <2>2, <2>3 DEF HonestMount
<1>7. QED
  BY <1>1, <1>2, <1>3, <1>4, <1>5, <1>6, LocalStep

(* A set of naturals that is not empty has a least.                          *)
LEMMA LeastOfNaturals ==
    ASSUME NEW S, S \subseteq Nat, S # {}
    PROVE  \E n \in S : \A i \in S : n <= i
<1>1. PICK n \in S : \A i \in S : ~ (<<i, n>> \in OpToRel(<, Nat))
  BY NatLessThanWellFounded, WFMin
<1>2. \A i \in S : ~ (i < n)
  BY <1>1 DEF OpToRel
<1>3. QED
  BY <1>2

(* There is a candidate to dial as long as any is left.                      *)
LEMMA FirstIsOne ==
    ASSUME NEW cards \in SUBSET Cards, cards # {}
    PROVE  FirstCandidate(cards) \in cards
<1>1. \A card \in Cards : card.endpoint \in Nat
  BY CardsRead, MeshAssumption
<1>2. ASSUME NEW those \in SUBSET cards, those # {}
      PROVE  \E card \in those : \A other \in those : card.endpoint <= other.endpoint
  <2> DEFINE ids == {card.endpoint : card \in those}
  <2>1. PICK x \in ids : \A y \in ids : x <= y
    <3>1. ids \subseteq Nat /\ ids # {}
      BY <1>1, <1>2
    <3>2. QED
      BY <3>1, LeastOfNaturals
  <2>2. QED
    BY <2>1
<1> DEFINE direct == {card \in cards : card.transport = "unicast"}
<1> DEFINE Best(card) == \A other \in cards :
        \/ card.transport = "unicast" /\ other.transport # "unicast"
        \/ /\ card.transport = "unicast" \/ other.transport # "unicast"
           /\ card.endpoint <= other.endpoint
<1>3. \E card \in cards : Best(card)
  <2>1. CASE direct # {}
    <3>1. PICK card \in direct : \A other \in direct : card.endpoint <= other.endpoint
      BY <1>2, <2>1
    <3>2. QED
      BY <3>1
  <2>2. CASE direct = {}
    <3>1. PICK card \in cards : \A other \in cards : card.endpoint <= other.endpoint
      BY <1>2
    <3>2. QED
      BY <2>2, <3>1
  <2>3. QED
    BY <2>1, <2>2
<1>4. QED
  BY <1>3 DEF FirstCandidate

(* Whoever answers names a tree there is.                                    *)
LEMMA AnswersAreTrees ==
    ASSUME Shapes, NEW q \in Nodes
    PROVE  Answer(q) \in 0..MaxTree
<1>1. q \in Mounts => mount[q] \in MountState
  BY DEF Shapes
<1>2. current \in 0..MaxTree /\ 1 \in 0..MaxTree /\ (q \in Tabs => armed[q] \in 0..MaxTree)
  BY MeshAssumption DEF Shapes
<1>3. q \in Mounts => mount[q].tree \in 0..MaxTree
  BY <1>1 DEF MountState
<1>4. 0 \in 0..MaxTree /\ (q \in Producers \/ q \in Tabs \/ q \in Mounts)
  BY MeshAssumption DEF Nodes
<1>5. QED
  BY <1>2, <1>3, <1>4 DEF Answer, ServedTree

(* The cards that vouch are other peers', with a wrong password none do.     *)
LEMMA VouchersAreOthers ==
    ASSUME PeerInv, NEW m \in Mounts
    PROVE  Vouching(m) \in SUBSET Cards /\ (Vouching(m) # {} => Right(m))
<1>1. book[m] \in Rosters
  BY DEF PeerInv, Shapes, Nodes
<1>2. \A card \in Present(book[m]) : \E e \in book[m].entries : card = e.card
  BY DEF Present, LiveCards
<1>3. \A e \in book[m].entries : e.card \in Cards
  BY <1>1 DEF Rosters
<1>4. ASSUME ~Right(m), NEW card \in Vouching(m) PROVE FALSE
  <2>1. PICK e \in book[m].entries : card = e.card
    BY <1>2 DEF Vouching
  <2>2. e.card.endpoint = m
    BY <1>4 DEF PeerInv, HonestMount, StrangerIsAlone
  <2>3. QED
    BY <2>1, <2>2 DEF Vouching
<1>5. QED
  BY <1>2, <1>3, <1>4 DEF Vouching

LEMMA FetchStep ==
    ASSUME PeerInv, NEW m \in Mounts, FetchFromOrigin(m) \/ FetchFails(m), UNCHANGED tab
    PROVE  PeerInv'
<1>1. mount \in [Mounts -> MountState] /\ mount[m] \in MountState /\ current \in 0..MaxTree
  BY DEF PeerInv, Shapes
<1>2. AttachIsHonest(m) /\ StrangerIsAlone(m)
  BY DEF PeerInv, HonestMount
<1>3. UNCHANGED <<shareVars, meshVars, originVars, tab>> /\ At(m, "fetch")
  BY DEF FetchFromOrigin, FetchFails, attachOnly
<1>4. CASE FetchFromOrigin(m)
  <2>1. PICK k \in MountState : k = [mount[m] EXCEPT !.pc = "mount", !.tree = current]
    BY <1>1 DEF MountState, Attached
  <2>2. mount' = [mount EXCEPT ![m] = k] /\ mount'[m] = k /\ Right(m)
    BY <1>1, <1>4, <2>1 DEF FetchFromOrigin
  <2>3. k.pc = "mount" /\ k.tree = current /\ k.have = mount[m].have /\ k.cards = mount[m].cards
        /\ k.left = mount[m].left /\ k.why = mount[m].why
    BY <1>1, <2>1 DEF MountState
  <2>4. mount[m].pc = "fetch" /\ mount[m].cards = {}
    BY <1>2, <1>3 DEF At, AttachIsHonest, Attaching
  <2>5. AttachIsHonest(m)'
    BY <1>2, <1>3, <2>2, <2>3, <2>4 DEF AttachIsHonest, Attached, Attaching, Right, shareVars
  <2>6. \A tree, holds : MountSays(mount[m], tree, holds) => MountSays(k, tree, holds)
    BY <2>3, <2>4 DEF MountSays
  <2>7. QED
    BY <1>3, <2>2, <2>5, <2>6, AttachStep
<1>5. CASE FetchFails(m)
  <2>1. PICK k \in MountState : k = [mount[m] EXCEPT !.pc = "await mesh"]
    BY <1>1 DEF MountState, Attaching
  <2>2. mount' = [mount EXCEPT ![m] = k] /\ mount'[m] = k
    BY <1>1, <1>5, <2>1 DEF FetchFails
  <2>3. k.pc = "await mesh" /\ k.tree = mount[m].tree /\ k.have = mount[m].have
        /\ k.cards = mount[m].cards /\ k.left = mount[m].left /\ k.why = mount[m].why
    BY <1>1, <2>1 DEF MountState
  <2>4. mount[m].pc = "fetch" /\ mount[m].cards = {} /\ mount[m].tree = 0
    BY <1>2, <1>3 DEF At, AttachIsHonest, Attaching, Attached
  <2>5. AttachIsHonest(m)'
    BY <1>2, <1>3, <2>2, <2>3, <2>4 DEF AttachIsHonest, Attached, Attaching, Right, shareVars
  <2>6. \A tree, holds : MountSays(mount[m], tree, holds) => MountSays(k, tree, holds)
    BY <2>3, <2>4 DEF MountSays
  <2>7. QED
    BY <1>3, <2>2, <2>3, <2>4, <2>5, <2>6, AttachStep
<1>6. QED
  BY <1>4, <1>5

LEMMA PollStep ==
    ASSUME PeerInv, NEW m \in Mounts, Poll(m), UNCHANGED tab
    PROVE  PeerInv'
<1>1. mount \in [Mounts -> MountState] /\ mount[m] \in MountState
  BY DEF PeerInv, Shapes
<1>2. AttachIsHonest(m)
  BY DEF PeerInv, HonestMount
<1>3. UNCHANGED <<shareVars, meshVars, originVars, tab>> /\ mount[m].pc = "poll"
  BY DEF Poll, attachOnly, At
<1>4. PICK cards : cards = Vouching(m)
  OBVIOUS
<1>5. cards \in SUBSET Cards /\ Right(m)
  BY <1>4, VouchersAreOthers DEF Poll
<1>6. PICK majority \in MajorityTrees(cards) :
        mount' = [mount EXCEPT ![m].pc = "dial", ![m].cards = cards,
            ![m].left = IF ticket.signed THEN cards ELSE {card \in cards : card.tree = majority}]
  BY <1>4 DEF Poll
<1>7. PICK left \in SUBSET cards :
        left = IF ticket.signed THEN cards ELSE {card \in cards : card.tree = majority}
  OBVIOUS
<1>8. PICK k \in MountState : k = [mount[m] EXCEPT !.pc = "dial", !.cards = cards, !.left = left]
  BY <1>1, <1>5, <1>7 DEF MountState
<1>9. mount' = [mount EXCEPT ![m] = k] /\ mount'[m] = k
  BY <1>1, <1>6, <1>7, <1>8
<1>10. k.pc = "dial" /\ k.tree = mount[m].tree /\ k.have = mount[m].have
       /\ k.cards = cards /\ k.left = left /\ k.why = mount[m].why
  BY <1>1, <1>8 DEF MountState
<1>11. mount[m].tree = 0
  BY <1>2, <1>3 DEF AttachIsHonest, Attached
<1>12. ~ticket.signed => \A card \in left : Wins(cards, card.tree)
  <2>1. ASSUME ~ticket.signed, NEW card \in left PROVE Wins(cards, card.tree)
    <3>1. card.tree = majority
      BY <1>7, <2>1
    <3>2. PICK c \in cards : majority = c.tree /\ \A d \in cards : Votes(cards, c.tree) >= Votes(cards, d.tree)
      BY <1>6 DEF MajorityTrees
    <3>3. QED
      BY <3>1, <3>2 DEF Wins
  <2>2. QED
    BY <2>1
<1>13. AttachIsHonest(m)'
  BY <1>2, <1>3, <1>7, <1>9, <1>10, <1>11, <1>12 DEF AttachIsHonest, Attached, Attaching, Right, shareVars
<1>14. \A tree, holds : MountSays(mount[m], tree, holds) => MountSays(k, tree, holds)
  BY <1>3, <1>10 DEF MountSays
<1>15. QED
  BY <1>3, <1>5, <1>9, <1>13, <1>14, AttachStep

LEMMA DialStep ==
    ASSUME PeerInv, NEW m \in Mounts, Dial(m), UNCHANGED tab
    PROVE  PeerInv'
<1>1. mount \in [Mounts -> MountState] /\ mount[m] \in MountState /\ Shapes
  BY DEF PeerInv, Shapes
<1>2. AttachIsHonest(m) /\ StrangerIsAlone(m)
  BY DEF PeerInv, HonestMount
<1>3. UNCHANGED <<shareVars, meshVars, originVars, tab>> /\ mount[m].pc = "dial" /\ mount[m].left # {}
  BY DEF Dial, attachOnly, At
<1>4. PICK card : card = FirstCandidate(mount[m].left)
  OBVIOUS
<1>5. mount[m].left \in SUBSET Cards /\ mount[m].cards \in SUBSET Cards
  BY <1>1 DEF MountState
<1>6. card \in mount[m].left /\ card.endpoint \in Nodes
  BY <1>3, <1>4, <1>5, FirstIsOne, CardsRead
<1>7. PICK answer \in {Answer(card.endpoint), 0} :
        IF answer # 0 /\ (ticket.signed \/ answer = card.tree)
        THEN mount' = [mount EXCEPT ![m].pc = "mount", ![m].tree = answer, ![m].left = {}]
        ELSE mount' = [mount EXCEPT ![m].left = @ \ {card}]
  BY <1>4 DEF Dial
<1>8. answer \in 0..MaxTree
  BY <1>1, <1>6, <1>7, AnswersAreTrees, MeshAssumption
<1>9. Right(m) /\ mount[m].tree = 0
  BY <1>2, <1>3 DEF StrangerIsAlone, AttachIsHonest, Attached
<1>10. CASE answer # 0 /\ (ticket.signed \/ answer = card.tree)
  <2>1. PICK k \in MountState : k = [mount[m] EXCEPT !.pc = "mount", !.tree = answer, !.left = {}]
    BY <1>1, <1>8 DEF MountState, Attached
  <2>2. mount' = [mount EXCEPT ![m] = k] /\ mount'[m] = k
    BY <1>1, <1>7, <1>10, <2>1
  <2>3. k.pc = "mount" /\ k.tree = answer /\ k.have = mount[m].have
        /\ k.cards = mount[m].cards /\ k.left = {} /\ k.why = mount[m].why
    BY <1>1, <2>1 DEF MountState
  <2>4. ~ticket.signed => Wins(k.cards, k.tree)
    BY <1>2, <1>3, <1>6, <1>10, <2>3 DEF AttachIsHonest
  <2>5. AttachIsHonest(m)'
    BY <1>2, <1>3, <1>9, <2>2, <2>3, <2>4 DEF AttachIsHonest, Attached, Attaching, Right, shareVars
  <2>6. \A tree, holds : MountSays(mount[m], tree, holds) => MountSays(k, tree, holds)
    BY <1>3, <2>3 DEF MountSays
  <2>7. QED
    BY <1>3, <1>9, <2>2, <2>5, <2>6, AttachStep
<1>11. CASE ~(answer # 0 /\ (ticket.signed \/ answer = card.tree))
  <2>1. PICK k \in MountState : k = [mount[m] EXCEPT !.left = @ \ {card}]
    BY <1>1 DEF MountState
  <2>2. mount' = [mount EXCEPT ![m] = k] /\ mount'[m] = k
    BY <1>1, <1>7, <1>11, <2>1
  <2>3. k.pc = "dial" /\ k.tree = mount[m].tree /\ k.have = mount[m].have
        /\ k.cards = mount[m].cards /\ k.left \subseteq mount[m].left /\ k.why = mount[m].why
    BY <1>1, <1>3, <2>1 DEF MountState
  <2>4. AttachIsHonest(m)'
    BY <1>2, <1>3, <1>9, <2>2, <2>3 DEF AttachIsHonest, Attached, Attaching, Right, shareVars
  <2>5. \A tree, holds : MountSays(mount[m], tree, holds) => MountSays(k, tree, holds)
    BY <1>3, <2>3 DEF MountSays
  <2>6. QED
    BY <1>3, <1>9, <2>2, <2>4, <2>5, AttachStep
<1>12. QED
  BY <1>10, <1>11

LEMMA ReadStep ==
    ASSUME PeerInv, NEW m \in Mounts, Read(m), UNCHANGED tab
    PROVE  PeerInv'
<1>1. mount \in [Mounts -> MountState] /\ mount[m] \in MountState
  BY DEF PeerInv, Shapes
<1>2. AttachIsHonest(m) /\ StrangerIsAlone(m)
  BY DEF PeerInv, HonestMount
<1>3. UNCHANGED <<shareVars, meshVars, originVars, tab>> /\ mount[m].have < MaxHave
      /\ mount[m].pc \in {"mount", "alone", "serving"}
  BY DEF Read, attachOnly
<1>4. mount[m].have + 1 \in 0..MaxHave /\ mount[m].have \in Nat
  <2>1. mount[m].have \in 0..MaxHave
    BY <1>1 DEF MountState
  <2>2. QED
    BY <1>3, <2>1, MeshAssumption
<1>5. PICK k \in MountState : k = [mount[m] EXCEPT !.have = @ + 1]
  BY <1>1, <1>4 DEF MountState
<1>6. mount' = [mount EXCEPT ![m] = k] /\ mount'[m] = k
  BY <1>1, <1>5 DEF Read
<1>7. k.pc = mount[m].pc /\ k.tree = mount[m].tree /\ k.have = mount[m].have + 1 /\ k.join = mount[m].join
      /\ k.cards = mount[m].cards /\ k.left = mount[m].left /\ k.why = mount[m].why
  BY <1>1, <1>5 DEF MountState
<1>8. AttachIsHonest(m)'
  BY <1>2, <1>3, <1>6, <1>7 DEF AttachIsHonest, Right, shareVars, meshVars
<1>9. \A tree, holds : MountSays(mount[m], tree, holds) => MountSays(k, tree, holds)
  BY <1>4, <1>7 DEF MountSays
<1>10. QED
  BY <1>2, <1>3, <1>6, <1>7, <1>8, <1>9, AttachStep DEF StrangerIsAlone

\* The tree of the origin, where a step leaves it alone.
LEMMA CurrentStays ==
    ASSUME Shapes, current' = current
    PROVE  current <= current'
<1>1. current \in Nat
  BY MeshAssumption DEF Shapes
<1>2. QED
  BY <1>1

\* An attach that fails takes its engine with it.
LEMMA FailStep ==
    ASSUME PeerInv, NEW m \in Mounts, UNCHANGED tab,
           NEW why, why \in {"none", "password", "no mesh", "nobody vouches", "no seeder"}, Fail(m, why),
           mount[m].pc \in {"fetch", "await mesh", "poll", "dial"},
           why = "password" => ~Right(m)
    PROVE  PeerInv'
<1>1. Shapes /\ LogsRead /\ ReplicasFollow /\ m \in Nodes /\ m \notin Tabs
  BY MeshAssumption DEF PeerInv, Nodes
<1>2. mount \in [Mounts -> MountState] /\ mount[m] \in MountState
  BY <1>1 DEF Shapes
<1>3. HonestMount(m)
  BY DEF PeerInv
<1>4. PICK k \in MountState : k = [mount[m] EXCEPT !.pc = "failed", !.why = why]
  BY <1>2 DEF MountState
<1>5. mount' = [mount EXCEPT ![m] = k]
  BY <1>2, <1>4 DEF Fail
<1>6. mount' \in [Mounts -> MountState] /\ mount'[m] = k /\ \A n \in Mounts \ {m} : mount'[n] = mount[n]
  BY <1>2, <1>5
<1>7. k.pc = "failed" /\ k.tree = mount[m].tree /\ k.have = mount[m].have
      /\ k.cards = mount[m].cards /\ k.left = mount[m].left /\ k.why = why
  BY <1>2, <1>4 DEF MountState
<1>8. /\ node' \in [Nodes -> {"out", "in", "left", "gone"}]
      /\ cell' \in [Nodes -> Cells] /\ asked' \in [Nodes -> BOOLEAN] /\ log' = log
      /\ doc' \in [Nodes -> [Nodes -> Nat]] /\ known' \in [Nodes -> SUBSET Nodes]
      /\ book' \in [Nodes -> Rosters]
      /\ LogsRead' /\ ReplicasFollow'
      /\ \A q \in Nodes \ {m} : /\ node'[q] = node[q] /\ cell'[q] = cell[q]
                                /\ doc'[q] = doc[q] /\ book'[q] = book[q]
      /\ cell'[m] = EmptyCell /\ (\A q \in Nodes : doc'[m][q] = 0) /\ book'[m].entries = {}
  BY <1>1, Ended DEF Fail
<1>9. UNCHANGED <<ticket, wrong, armed, current, listening, updates>>
  BY DEF Fail, shareVars, originVars
<1>10. Shapes' /\ current <= current'
  <2>1. current <= current'
    BY <1>1, <1>9, CurrentStays
  <2>2. tab' = tab
    OBVIOUS
  <2>3. QED
    BY <1>1, <1>6, <1>8, <1>9, <2>1, <2>2 DEF Shapes
<1>11. \A q \in Nodes \ {m} : PeerAside(q)
  BY <1>8, <1>9 DEF PeerAside, Right
<1>12. mount[m].tree = 0
  BY <1>3 DEF HonestMount, AttachIsHonest, Attached
<1>13. AttachIsHonest(m)'
  BY <1>3, <1>6, <1>7, <1>9, <1>12 DEF HonestMount, AttachIsHonest, Attached, Attaching, Right
<1>14. StrangerIsAlone(m)'
  BY <1>6, <1>7, <1>8, <1>12 DEF StrangerIsAlone
<1>15. MountWord(m)'
  <2>1. \A tree, holds : MountSays(mount[m], tree, holds) => MountSays(k, tree, holds)
    BY <1>7 DEF MountSays
  <2>2. MountSays(k, EmptyCell.tree, EmptyCell.holding)
    BY DEF MountSays, EmptyCell
  <2>3. QED
    BY <1>3, <1>6, <1>8, <2>1, <2>2 DEF HonestMount, MountWord
<1>16. QED
  BY <1>1, <1>6, <1>8, <1>9, <1>10, <1>11, <1>13, <1>14, <1>15, LocalStep DEF HonestMount

LEMMA FailsStep ==
    ASSUME PeerInv, NEW m \in Mounts, FetchRefused(m) \/ PollTimesOut(m) \/ DialsRunOut(m), UNCHANGED tab
    PROVE  PeerInv'
<1>1. CASE FetchRefused(m)
  BY <1>1, FailStep DEF FetchRefused, At
<1>2. CASE PollTimesOut(m)
  BY <1>2, FailStep DEF PollTimesOut, At
<1>3. CASE DialsRunOut(m)
  BY <1>3, FailStep DEF DialsRunOut, At
<1>4. QED
  BY <1>1, <1>2, <1>3

LEMMA BootstrapStartsStep ==
    ASSUME PeerInv, NEW m \in Mounts, BootstrapStarts(m), UNCHANGED tab
    PROVE  PeerInv'
<1>1. mount[m].pc = "await mesh"
  BY DEF BootstrapStarts, At
<1>2. CASE Fail(m, "no mesh")
  BY <1>1, <1>2, FailStep
<1>3. CASE ~Fail(m, "no mesh")
  <2>1. mount' = [mount EXCEPT ![m].pc = "poll"] /\ UNCHANGED <<shareVars, meshVars, originVars, tab>>
    BY <1>3 DEF BootstrapStarts, attachOnly
  <2>2. mount \in [Mounts -> MountState] /\ mount[m] \in MountState
    BY DEF PeerInv, Shapes
  <2>3. AttachIsHonest(m) /\ StrangerIsAlone(m)
    BY DEF PeerInv, HonestMount
  <2>4. PICK k \in MountState : k = [mount[m] EXCEPT !.pc = "poll"]
    BY <2>2 DEF MountState, Attaching
  <2>5. mount' = [mount EXCEPT ![m] = k] /\ mount'[m] = k
    BY <2>1, <2>2, <2>4
  <2>6. k.pc = "poll" /\ k.tree = mount[m].tree /\ k.have = mount[m].have
        /\ k.cards = mount[m].cards /\ k.left = mount[m].left /\ k.why = mount[m].why
    BY <2>2, <2>4 DEF MountState
  <2>7. mount[m].cards = {} /\ mount[m].tree = 0
    BY <1>1, <2>3 DEF AttachIsHonest, Attaching, Attached
  <2>8. AttachIsHonest(m)'
    BY <2>1, <2>3, <2>5, <2>6, <2>7 DEF AttachIsHonest, Attached, Attaching, Right, shareVars
  <2>9. \A tree, holds : MountSays(mount[m], tree, holds) => MountSays(k, tree, holds)
    BY <2>6, <2>7 DEF MountSays
  <2>10. QED
    BY <2>1, <2>5, <2>6, <2>7, <2>8, <2>9, AttachStep
<1>4. QED
  BY <1>2, <1>3

(* The password is read before the mount has anything to show for it.        *)
LEMMA RedeemStep ==
    ASSUME PeerInv, NEW m \in Mounts, Redeem(m), UNCHANGED tab
    PROVE  PeerInv'
<1>1. Shapes /\ LogsRead /\ ReplicasFollow /\ m \in Nodes /\ m \notin Tabs
  BY MeshAssumption DEF PeerInv, Nodes
<1>2. mount \in [Mounts -> MountState] /\ mount[m] \in MountState
  BY <1>1 DEF Shapes
<1>3. HonestMount(m) /\ mount[m].pc = "redeem"
  BY DEF PeerInv, Redeem, At
<1>4. UNCHANGED <<ticket, armed, meshVars, originVars, tab>>
  BY DEF Redeem
<1>5. wrong' \in {wrong, wrong \cup {m}}
  BY DEF Redeem
<1>6. \/ wrong' = wrong \cup {m} /\ mount' = [mount EXCEPT ![m].pc = "failed", ![m].why = "password"]
      \/ mount' = [mount EXCEPT ![m].pc = "fetch", ![m].join = "pending"]
  BY DEF Redeem
<1>7. PICK k \in MountState :
        /\ mount' = [mount EXCEPT ![m] = k]
        /\ k.tree = mount[m].tree /\ k.have = mount[m].have
        /\ k.cards = mount[m].cards /\ k.left = mount[m].left
        /\ \/ k.pc = "failed" /\ k.why = "password" /\ m \in wrong'
           \/ k.pc = "fetch" /\ k.why = mount[m].why
  <2>1. CASE wrong' = wrong \cup {m} /\ mount' = [mount EXCEPT ![m].pc = "failed", ![m].why = "password"]
    <3>1. PICK k \in MountState : k = [mount[m] EXCEPT !.pc = "failed", !.why = "password"]
      BY <1>2 DEF MountState
    <3>2. mount' = [mount EXCEPT ![m] = k] /\ m \in wrong'
      BY <1>2, <2>1, <3>1
    <3>3. QED
      BY <1>2, <3>1, <3>2 DEF MountState
  <2>2. CASE mount' = [mount EXCEPT ![m].pc = "fetch", ![m].join = "pending"]
    <3>1. PICK k \in MountState : k = [mount[m] EXCEPT !.pc = "fetch", !.join = "pending"]
      BY <1>2 DEF MountState, Attaching
    <3>2. mount' = [mount EXCEPT ![m] = k]
      BY <1>2, <2>2, <3>1
    <3>3. QED
      BY <1>2, <3>1, <3>2 DEF MountState
  <2>3. QED
    BY <1>6, <2>1, <2>2
<1>8. mount' \in [Mounts -> MountState] /\ mount'[m] = k /\ \A n \in Mounts \ {m} : mount'[n] = mount[n]
  BY <1>2, <1>7
<1>9. current \in 1..MaxTree /\ current' = current /\ ticket' = ticket /\ tab' = tab
  BY <1>1, <1>4 DEF Shapes, originVars
<1>10. current <= current'
  BY <1>9, MeshAssumption
<1>11. Shapes'
  BY <1>1, <1>4, <1>5, <1>8 DEF Shapes, meshVars, originVars
<1>12. LogsRead' /\ ReplicasFollow'
  BY <1>1, <1>4 DEF LogsRead, ReplicasFollow, meshVars
<1>13. \A q \in Nodes \ {m} : PeerAside(q)
  BY <1>4, <1>5 DEF PeerAside, Right, meshVars
<1>14. mount[m].tree = 0 /\ mount[m].cards = {} /\ mount[m].left = {} /\ node[m] = "out"
  BY <1>3 DEF HonestMount, AttachIsHonest, Attached, Attaching
<1>15. mount[m].why = "password" => m \in wrong'
  BY <1>3, <1>5 DEF HonestMount, AttachIsHonest, Right
<1>16. AttachIsHonest(m)'
  BY <1>7, <1>8, <1>14, <1>15 DEF AttachIsHonest, Attached, Attaching, Right
<1>17. StrangerIsAlone(m)'
  BY <1>3, <1>4, <1>7, <1>8, <1>14 DEF HonestMount, StrangerIsAlone, Right, meshVars
<1>18. MountWord(m)'
  <2>1. \A tree, holds : MountSays(mount[m], tree, holds) => MountSays(k, tree, holds)
    BY <1>3, <1>7 DEF MountSays
  <2>2. QED
    BY <1>3, <1>4, <1>8, <2>1 DEF HonestMount, MountWord, meshVars
<1>19. QED
  BY <1>1, <1>8, <1>9, <1>10, <1>11, <1>12, <1>13, <1>16, <1>17, <1>18, LocalStep DEF HonestMount

\* Whoever joins is counted by the others, and publishes what it joins with.
LEMMA Joined ==
    ASSUME Shapes, LogsRead, ReplicasFollow, NEW p \in Nodes, NEW value \in Cells, Join(p, value)
    PROVE  /\ node' \in [Nodes -> {"out", "in", "left", "gone"}] /\ cell' \in [Nodes -> Cells]
           /\ known' \in [Nodes -> SUBSET Nodes]
           /\ node'[p] = "in" /\ cell'[p] = value
           /\ \A q \in Nodes \ {p} : node'[q] = node[q] /\ cell'[q] = cell[q]
           /\ log' \in [Nodes -> Seq(Values)] /\ doc' \in [Nodes -> [Nodes -> Nat]]
           /\ book' \in [Nodes -> Rosters]
           /\ LogsRead' /\ ReplicasFollow'
           /\ \A q \in Nodes \ {p} : log'[q] = log[q] /\ doc'[q] = doc[q] /\ book'[q] = book[q]
           /\ \A q \in Nodes \ {p} : doc'[p][q] = doc[p][q]
           /\ \A e \in book'[p].entries : e.card.endpoint \in Nodes /\ doc'[p][e.card.endpoint] > 0
           /\ LogGrows(p)
<1>1. /\ node' \in [Nodes -> {"out", "in", "left", "gone"}] /\ cell' \in [Nodes -> Cells]
      /\ node'[p] = "in" /\ cell'[p] = value
      /\ \A q \in Nodes \ {p} : node'[q] = node[q] /\ cell'[q] = cell[q]
  BY DEF Join, Shapes
<1>2. known' \in [Nodes -> SUBSET Nodes]
  BY DEF Join, Shapes
<1>3. PublishCard(p)
  BY DEF Join
<1>4. QED
  BY <1>1, <1>2, <1>3, Published

LEMMA JoinMeshStep ==
    ASSUME PeerInv, NEW m \in Mounts, JoinMesh(m), UNCHANGED tab
    PROVE  PeerInv'
<1>1. Shapes /\ LogsRead /\ ReplicasFollow /\ m \in Nodes /\ m \notin Tabs
  BY MeshAssumption DEF PeerInv, Nodes
<1>2. mount \in [Mounts -> MountState] /\ mount[m] \in MountState
  BY <1>1 DEF Shapes
<1>3. HonestMount(m) /\ mount[m].join = "pending" /\ UNCHANGED <<shareVars, asked, originVars, tab>>
  BY DEF PeerInv, JoinMesh
<1>4. PICK join \in {"joined", "none"} :
        /\ mount' = [mount EXCEPT ![m].join = join]
        /\ \/ join = "joined" /\ Join(m, EmptyCell)
           \/ join = "none" /\ UNCHANGED <<node, cell, log, doc, known, book>>
  BY DEF JoinMesh
<1>5. PICK k \in MountState : k = [mount[m] EXCEPT !.join = join]
  BY <1>2 DEF MountState
<1>6. mount' = [mount EXCEPT ![m] = k] /\ mount'[m] = k /\ mount' \in [Mounts -> MountState]
      /\ \A n \in Mounts \ {m} : mount'[n] = mount[n]
  BY <1>2, <1>4, <1>5
<1>7. k.pc = mount[m].pc /\ k.tree = mount[m].tree /\ k.have = mount[m].have
      /\ k.cards = mount[m].cards /\ k.left = mount[m].left /\ k.why = mount[m].why
  BY <1>2, <1>5 DEF MountState
<1>8. mount[m].pc # "redeem"
  BY <1>3 DEF HonestMount, AttachIsHonest
<1>9. AttachIsHonest(m)'
  BY <1>3, <1>6, <1>7, <1>8 DEF HonestMount, AttachIsHonest, Right, shareVars
<1>10. \A tree, holds : MountSays(mount[m], tree, holds) => MountSays(k, tree, holds)
  BY <1>7 DEF MountSays
<1>11. CASE UNCHANGED <<node, cell, log, doc, known, book>>
  <2>1. UNCHANGED <<shareVars, meshVars, originVars, tab>>
    BY <1>3, <1>11 DEF meshVars
  <2>2. ~Right(m) => k.tree = 0 /\ k.pc # "dial"
    BY <1>3, <1>7 DEF HonestMount, StrangerIsAlone
  <2>3. QED
    BY <1>6, <1>9, <1>10, <2>1, <2>2, AttachStep
<1>12. CASE Join(m, EmptyCell)
  <2>1. EmptyCell \in Cells /\ EmptyCell.tree = 0 /\ EmptyCell.holding = FALSE
    BY MeshAssumption DEF EmptyCell, Cells
  <2>2. /\ node' \in [Nodes -> {"out", "in", "left", "gone"}] /\ cell' \in [Nodes -> Cells]
        /\ known' \in [Nodes -> SUBSET Nodes]
        /\ node'[m] = "in" /\ cell'[m] = EmptyCell
        /\ \A q \in Nodes \ {m} : node'[q] = node[q] /\ cell'[q] = cell[q]
        /\ log' \in [Nodes -> Seq(Values)] /\ doc' \in [Nodes -> [Nodes -> Nat]]
        /\ book' \in [Nodes -> Rosters]
        /\ LogsRead' /\ ReplicasFollow'
        /\ \A q \in Nodes \ {m} : log'[q] = log[q] /\ doc'[q] = doc[q] /\ book'[q] = book[q]
        /\ \A q \in Nodes \ {m} : doc'[m][q] = doc[m][q]
        /\ \A e \in book'[m].entries : e.card.endpoint \in Nodes /\ doc'[m][e.card.endpoint] > 0
        /\ LogGrows(m)
    BY <1>1, <1>12, <2>1, Joined
  <2>3. Shapes'
    BY <1>1, <1>3, <1>6, <2>2 DEF Shapes, shareVars, originVars
  <2>4. ticket' = ticket /\ wrong' = wrong /\ tab' = tab /\ current' = current
    BY <1>3 DEF shareVars, originVars
  <2>5. \A q \in Nodes \ {m} : PeerAside(q)
    BY <2>2, <2>4 DEF PeerAside, Right
  <2>6. StrangerIsAlone(m)'
    <3>1. ASSUME ~Right(m)
          PROVE  /\ \A q \in Nodes \ {m} : doc'[m][q] = 0
                 /\ \A e \in book'[m].entries : e.card.endpoint = m
      <4>1. \A q \in Nodes \ {m} : doc'[m][q] = 0
        BY <1>3, <2>2, <3>1 DEF HonestMount, StrangerIsAlone
      <4>2. QED
        BY <2>2, <4>1
    <3>2. QED
      BY <1>3, <1>6, <1>7, <2>2, <2>4, <3>1 DEF HonestMount, StrangerIsAlone, Right
  <2>7. MountWord(m)'
    <3>1. MountWord(m) /\ MountSays(mount'[m], cell'[m].tree, cell'[m].holding)
      BY <1>3, <2>1, <2>2 DEF HonestMount, MountSays
    <3>2. QED
      BY <1>6, <1>10, <2>2, <3>1, MountKeepsItsWord
  <2>8. current <= current'
    BY <1>1, <2>4, CurrentStays
  <2>9. QED
    BY <1>1, <1>6, <1>9, <2>2, <2>3, <2>4, <2>5, <2>6, <2>7, <2>8, LocalStep DEF HonestMount
<1>13. QED
  BY <1>4, <1>11, <1>12

\* A mount's cell is set, and published another time.
LEMMA CellStep ==
    ASSUME PeerInv, NEW m \in Mounts, UNCHANGED <<shareVars, node, log, doc, known, book, originVars, tab>>,
           NEW value \in Cells, SetCell(m, value) \/ UNCHANGED <<cell, asked>>,
           NEW k \in MountState, mount' = [mount EXCEPT ![m] = k],
           AttachIsHonest(m)', ~Right(m) => k.tree = 0 /\ k.pc # "dial",
           \A tree, holds : MountSays(mount[m], tree, holds) => MountSays(k, tree, holds),
           MountSays(k, value.tree, value.holding)
    PROVE  PeerInv'
<1>1. Shapes /\ LogsRead /\ ReplicasFollow /\ m \in Nodes /\ m \notin Tabs /\ HonestMount(m)
  BY MeshAssumption DEF PeerInv, Nodes
<1>2. mount' \in [Mounts -> MountState] /\ mount'[m] = k /\ \A n \in Mounts \ {m} : mount'[n] = mount[n]
  BY <1>1 DEF Shapes
<1>3. /\ cell' \in [Nodes -> Cells] /\ asked' \in [Nodes -> BOOLEAN]
      /\ cell'[m] \in {cell[m], value} /\ \A q \in Nodes \ {m} : cell'[q] = cell[q]
  <2>1. CASE SetCell(m, value)
    BY <1>1, <2>1 DEF SetCell, Shapes
  <2>2. CASE UNCHANGED <<cell, asked>>
    BY <1>1, <2>2 DEF Shapes
  <2>3. QED
    BY <2>1, <2>2
<1>4. ticket' = ticket /\ wrong' = wrong /\ tab' = tab /\ current' = current
  BY DEF shareVars, originVars
<1>5. Shapes'
  BY <1>1, <1>2, <1>3 DEF Shapes, shareVars, originVars
<1>6. LogsRead' /\ ReplicasFollow'
  BY <1>1 DEF LogsRead, ReplicasFollow
<1>7. \A q \in Nodes \ {m} : PeerAside(q)
  BY <1>3, <1>4 DEF PeerAside, Right
<1>8. StrangerIsAlone(m)'
  BY <1>1, <1>2, <1>4 DEF HonestMount, StrangerIsAlone, Right
<1>9. MountWord(m)'
  BY <1>1, <1>2, <1>3 DEF HonestMount, MountWord
<1>10. current <= current'
  BY <1>1, <1>4, CurrentStays
<1>11. QED
  BY <1>1, <1>2, <1>4, <1>5, <1>6, <1>7, <1>8, <1>9, <1>10, LocalStep DEF HonestMount

(* A mount's card names its tree once the mesh is wired, and not before.     *)
LEMMA MeshIsWiredStep ==
    ASSUME PeerInv, NEW m \in Mounts, MeshIsWired(m), UNCHANGED tab
    PROVE  PeerInv'
<1>1. Shapes /\ m \in Nodes /\ HonestMount(m) /\ mount[m].pc = "mount"
      /\ UNCHANGED <<shareVars, node, log, doc, known, book, originVars, tab>>
  BY DEF PeerInv, Nodes, MeshIsWired, At
<1>2. mount \in [Mounts -> MountState] /\ mount[m] \in MountState /\ cell[m] \in Cells
  BY <1>1 DEF Shapes
<1>3. PICK value \in Cells : value = [cell[m] EXCEPT !.tree = mount[m].tree]
  BY <1>2 DEF Cells, MountState
<1>4. value.tree = mount[m].tree /\ value.holding = cell[m].holding
  BY <1>2, <1>3 DEF Cells
<1>5. PICK pc \in {"alone", "serving"} :
        /\ mount' = [mount EXCEPT ![m].pc = pc]
        /\ \/ pc = "alone" /\ UNCHANGED <<cell, asked>>
           \/ pc = "serving" /\ SetCell(m, value)
  BY <1>3 DEF MeshIsWired
<1>6. PICK k \in MountState : k = [mount[m] EXCEPT !.pc = pc]
  BY <1>2 DEF MountState, Attached
<1>7. mount' = [mount EXCEPT ![m] = k] /\ mount'[m] = k
  BY <1>2, <1>5, <1>6
<1>8. k.pc = pc /\ k.tree = mount[m].tree /\ k.have = mount[m].have
      /\ k.cards = mount[m].cards /\ k.left = mount[m].left /\ k.why = mount[m].why
  BY <1>2, <1>6 DEF MountState
<1>9. AttachIsHonest(m)'
  BY <1>1, <1>5, <1>7, <1>8 DEF HonestMount, AttachIsHonest, Right, shareVars, Attached, Attaching
<1>10. ~Right(m) => k.tree = 0 /\ k.pc # "dial"
  BY <1>1, <1>5, <1>8 DEF HonestMount, StrangerIsAlone
<1>11. \A tree, holds : MountSays(mount[m], tree, holds) => MountSays(k, tree, holds)
  BY <1>1, <1>8 DEF MountSays
<1>12. MountSays(mount[m], cell[m].tree, cell[m].holding)
  BY <1>1 DEF HonestMount, MountWord
<1>13. CASE pc = "serving" /\ SetCell(m, value)
  <2>1. MountSays(k, value.tree, value.holding)
    BY <1>4, <1>8, <1>12, <1>13 DEF MountSays
  <2>2. QED
    BY <1>1, <1>7, <1>9, <1>10, <1>11, <1>13, <2>1, CellStep
<1>14. CASE UNCHANGED <<cell, asked>>
  BY <1>1, <1>2, <1>7, <1>9, <1>10, <1>11, <1>12, <1>14, CellStep
<1>15. QED
  BY <1>5, <1>13, <1>14

LEMMA ServingUpdateStep ==
    ASSUME PeerInv, NEW m \in Mounts, ServingUpdate(m), UNCHANGED tab
    PROVE  PeerInv'
<1>1. Shapes /\ m \in Nodes /\ HonestMount(m) /\ mount[m].pc = "serving" /\ mount' = mount
      /\ UNCHANGED <<shareVars, node, log, doc, known, book, originVars, tab>>
  BY DEF PeerInv, Nodes, ServingUpdate, At
<1>2. mount \in [Mounts -> MountState] /\ mount[m] \in MountState /\ cell[m] \in Cells
  BY <1>1 DEF Shapes
<1>3. PICK value \in Cells :
        value = [tree |-> cell[m].tree, serving |-> mount[m].have = 2, holding |-> mount[m].have > 0]
  <2>1. cell[m].tree \in 0..MaxTree
    BY <1>2 DEF Cells
  <2>2. (mount[m].have = 2) \in BOOLEAN /\ (mount[m].have > 0) \in BOOLEAN
    OBVIOUS
  <2>3. [tree |-> cell[m].tree, serving |-> mount[m].have = 2, holding |-> mount[m].have > 0] \in Cells
    BY <2>1, <2>2 DEF Cells
  <2>4. QED
    BY <2>3
<1>4. SetCell(m, value) /\ value.tree = cell[m].tree /\ value.holding = (mount[m].have > 0)
  BY <1>3 DEF ServingUpdate
<1>5. PICK k \in MountState : k = mount[m]
  BY <1>2
<1>6. mount' = [mount EXCEPT ![m] = k] /\ mount'[m] = mount[m]
  BY <1>1, <1>2, <1>5
<1>7. AttachIsHonest(m)'
  BY <1>1 DEF HonestMount, AttachIsHonest, Right, shareVars
<1>8. ~Right(m) => k.tree = 0 /\ k.pc # "dial"
  BY <1>1, <1>5 DEF HonestMount, StrangerIsAlone
<1>9. MountSays(k, value.tree, value.holding)
  BY <1>1, <1>4, <1>5 DEF HonestMount, MountWord, MountSays
<1>10. QED
  BY <1>1, <1>4, <1>5, <1>6, <1>7, <1>8, <1>9, CellStep

LEMMA UnmountStep ==
    ASSUME PeerInv, NEW m \in Mounts, Unmount(m), UNCHANGED tab
    PROVE  PeerInv'
<1>1. Shapes /\ LogsRead /\ ReplicasFollow /\ m \in Nodes /\ m \notin Tabs /\ HonestMount(m)
  BY MeshAssumption DEF PeerInv, Nodes
<1>2. mount \in [Mounts -> MountState] /\ mount[m] \in MountState
  BY <1>1 DEF Shapes
<1>3. mount[m].pc \in {"alone", "serving"} /\ UNCHANGED <<shareVars, originVars, tab>>
  BY DEF Unmount
<1>4. PICK k \in MountState : k = [mount[m] EXCEPT !.pc = "done"]
  BY <1>2 DEF MountState, Attached
<1>5. mount' = [mount EXCEPT ![m] = k]
  BY <1>2, <1>4 DEF Unmount
<1>6. mount' \in [Mounts -> MountState] /\ mount'[m] = k /\ \A n \in Mounts \ {m} : mount'[n] = mount[n]
  BY <1>2, <1>5
<1>7. k.pc = "done" /\ k.tree = mount[m].tree /\ k.have = mount[m].have
      /\ k.cards = mount[m].cards /\ k.left = mount[m].left /\ k.why = mount[m].why
  BY <1>2, <1>4 DEF MountState
<1>8. /\ node' \in [Nodes -> {"out", "in", "left", "gone"}]
      /\ cell' \in [Nodes -> Cells] /\ asked' \in [Nodes -> BOOLEAN] /\ log' = log
      /\ doc' \in [Nodes -> [Nodes -> Nat]] /\ known' \in [Nodes -> SUBSET Nodes]
      /\ book' \in [Nodes -> Rosters]
      /\ LogsRead' /\ ReplicasFollow'
      /\ \A q \in Nodes \ {m} : /\ node'[q] = node[q] /\ cell'[q] = cell[q]
                                /\ doc'[q] = doc[q] /\ book'[q] = book[q]
      /\ cell'[m] = EmptyCell /\ (\A q \in Nodes : doc'[m][q] = 0) /\ book'[m].entries = {}
  BY <1>1, Ended DEF Unmount
<1>9. ticket' = ticket /\ wrong' = wrong /\ current' = current
  BY <1>3 DEF shareVars, originVars
<1>10. Shapes'
  BY <1>1, <1>3, <1>6, <1>8 DEF Shapes, shareVars, originVars
<1>11. \A q \in Nodes \ {m} : PeerAside(q)
  BY <1>8, <1>9 DEF PeerAside, Right
<1>12. AttachIsHonest(m)'
  BY <1>1, <1>6, <1>7, <1>9 DEF HonestMount, AttachIsHonest, Attached, Attaching, Right
<1>13. StrangerIsAlone(m)'
  BY <1>1, <1>6, <1>7, <1>8, <1>9 DEF HonestMount, StrangerIsAlone, Right
<1>14. MountWord(m)'
  <2>1. \A tree, holds : MountSays(mount[m], tree, holds) => MountSays(k, tree, holds)
    BY <1>3, <1>7 DEF MountSays
  <2>2. MountSays(k, EmptyCell.tree, EmptyCell.holding)
    BY DEF MountSays, EmptyCell
  <2>3. QED
    BY <1>1, <1>6, <1>8, <2>1, <2>2 DEF HonestMount, MountWord
<1>15. current <= current'
  BY <1>1, <1>9, CurrentStays
<1>16. QED
  BY <1>1, <1>3, <1>6, <1>8, <1>9, <1>10, <1>11, <1>12, <1>13, <1>14, <1>15, LocalStep DEF HonestMount

-----------------------------------------------------------------------------
(* The tabs.                                                                 *)

\* What a page goes on to say, it may say.
TabStaysTrue(t, k) ==
    \A tree \in 0..MaxTree : \A holds :
        TabSays(t, tab[t], wrong, tree, holds) => TabSays(t, k, wrong, tree, holds)

\* A step of the page that at most sets its cell and its book.
LEMMA PageStep ==
    ASSUME PeerInv, NEW t \in Tabs, UNCHANGED <<ticket, wrong, node, log, doc, known, originVars, mount>>,
           armed' \in [Tabs -> 0..MaxTree],
           book' \in [Nodes -> Rosters], \A q \in Nodes \ {t} : book'[q] = book[q],
           NEW value \in Cells, SetCell(t, value) \/ UNCHANGED <<cell, asked>>,
           NEW k \in TabState, tab' = [tab EXCEPT ![t] = k],
           TabIsHonest(t)', TabStaysTrue(t, k),
           TabSays(t, k, wrong, value.tree, value.holding)
    PROVE  PeerInv'
<1>1. Shapes /\ LogsRead /\ ReplicasFollow /\ t \in Nodes /\ t \notin Mounts /\ HonestTab(t)
  BY MeshAssumption DEF PeerInv, Nodes
<1>2. tab' \in [Tabs -> TabState] /\ tab'[t] = k /\ \A u \in Tabs \ {t} : tab'[u] = tab[u]
  BY <1>1 DEF Shapes
<1>3. /\ cell' \in [Nodes -> Cells] /\ asked' \in [Nodes -> BOOLEAN]
      /\ cell'[t] \in {cell[t], value} /\ \A q \in Nodes \ {t} : cell'[q] = cell[q]
  <2>1. CASE SetCell(t, value)
    BY <1>1, <2>1 DEF SetCell, Shapes
  <2>2. CASE UNCHANGED <<cell, asked>>
    BY <1>1, <2>2 DEF Shapes
  <2>3. QED
    BY <2>1, <2>2
<1>4. current' = current /\ Shapes'
  BY <1>1, <1>2, <1>3 DEF Shapes, originVars
<1>5. LogsRead' /\ ReplicasFollow'
  BY <1>1 DEF LogsRead, ReplicasFollow
<1>6. \A q \in Nodes \ {t} : PeerAside(q)
  BY <1>3 DEF PeerAside, Right
<1>7. TabWord(t)'
  <2>1. TabSays(t, k, wrong, cell[t].tree, cell[t].holding)
    <3>1. cell[t].tree \in 0..MaxTree
      BY <1>1 DEF Shapes, Cells
    <3>2. QED
      BY <1>1, <3>1 DEF HonestTab, TabWord, TabStaysTrue
  <2>2. ASSUME NEW n \in 1..Len(log[t])
        PROVE  LET card == FromCardValue(log[t][n])
               IN  TabSays(t, k, wrong, card.tree, HoldsSomething(card))
    <3>1. PICK card : card = FromCardValue(log[t][n])
      OBVIOUS
    <3>2. card.tree \in 0..MaxTree /\ TabSays(t, tab[t], wrong, card.tree, HoldsSomething(card))
      BY <1>1, <3>1 DEF LogsRead, IsCardOf, HonestTab, TabWord
    <3>3. QED
      BY <3>1, <3>2 DEF TabStaysTrue
  <2>3. TabSays(t, k, wrong, cell'[t].tree, cell'[t].holding)
    BY <1>3, <2>1
  <2>4. QED
    BY <1>2, <2>2, <2>3 DEF TabWord
<1>8. current <= current'
  BY <1>1, <1>4, CurrentStays
<1>9. QED
  BY <1>1, <1>2, <1>4, <1>5, <1>6, <1>7, <1>8, LocalStep DEF HonestTab

\* The page's engine ends, with a goodbye or without.
LEMMA PageEnds ==
    ASSUME PeerInv, NEW t \in Tabs, UNCHANGED meshOnly,
           NEW how \in {"left", "gone"}, Ends(t, how),
           NEW k \in TabState, tab' = [tab EXCEPT ![t] = k],
           TabIsHonest(t)', TabStaysTrue(t, k)
    PROVE  PeerInv'
<1>1. Shapes /\ LogsRead /\ ReplicasFollow /\ t \in Nodes /\ t \notin Mounts /\ HonestTab(t)
  BY MeshAssumption DEF PeerInv, Nodes
<1>2. tab' \in [Tabs -> TabState] /\ tab'[t] = k /\ \A u \in Tabs \ {t} : tab'[u] = tab[u]
  BY <1>1 DEF Shapes
<1>3. UNCHANGED <<ticket, wrong, armed, current, listening, updates, mount>>
  BY DEF meshOnly, shareVars, originVars
<1>4. /\ node' \in [Nodes -> {"out", "in", "left", "gone"}]
      /\ cell' \in [Nodes -> Cells] /\ asked' \in [Nodes -> BOOLEAN] /\ log' = log
      /\ doc' \in [Nodes -> [Nodes -> Nat]] /\ known' \in [Nodes -> SUBSET Nodes]
      /\ book' \in [Nodes -> Rosters]
      /\ LogsRead' /\ ReplicasFollow'
      /\ \A q \in Nodes \ {t} : /\ node'[q] = node[q] /\ cell'[q] = cell[q]
                                /\ doc'[q] = doc[q] /\ book'[q] = book[q]
      /\ cell'[t] = EmptyCell
  BY <1>1, Ended
<1>5. Shapes'
  BY <1>1, <1>2, <1>3, <1>4 DEF Shapes
<1>6. \A q \in Nodes \ {t} : PeerAside(q)
  BY <1>3, <1>4 DEF PeerAside, Right
<1>7. TabWord(t)'
  <2>1. TabSays(t, k, wrong, EmptyCell.tree, EmptyCell.holding)
    BY DEF TabSays, EmptyCell
  <2>2. ASSUME NEW n \in 1..Len(log[t])
        PROVE  LET card == FromCardValue(log[t][n])
               IN  TabSays(t, k, wrong, card.tree, HoldsSomething(card))
    <3>1. PICK card : card = FromCardValue(log[t][n])
      OBVIOUS
    <3>2. card.tree \in 0..MaxTree /\ TabSays(t, tab[t], wrong, card.tree, HoldsSomething(card))
      BY <1>1, <3>1 DEF LogsRead, IsCardOf, HonestTab, TabWord
    <3>3. QED
      BY <3>1, <3>2 DEF TabStaysTrue
  <2>3. QED
    BY <1>2, <1>3, <1>4, <2>1, <2>2 DEF TabWord
<1>8. current <= current'
  BY <1>1, <1>3, CurrentStays
<1>9. QED
  BY <1>1, <1>2, <1>3, <1>4, <1>5, <1>6, <1>7, <1>8, LocalStep DEF HonestTab

(* A wrong password is not found out before a page has anything to say.      *)
LEMMA TabRedeemsStep ==
    ASSUME PeerInv, NEW t \in Tabs, TabRedeems(t)
    PROVE  PeerInv'
<1>1. Shapes /\ LogsRead /\ ReplicasFollow /\ t \in Nodes /\ t \notin Mounts /\ TabIsHonest(t)
  BY MeshAssumption DEF PeerInv, Nodes, HonestTab
<1>2. tab \in [Tabs -> TabState] /\ tab[t] \in TabState /\ tab[t].pc = "redeem"
  BY <1>1 DEF Shapes, TabRedeems
<1>3. tab[t].slot = "pending" /\ tab[t].tree = 0 /\ cell[t] = EmptyCell /\ log[t] = << >>
      /\ node[t] = "out" /\ tab[t].join = "none"
  BY <1>1, <1>2 DEF TabIsHonest
<1>4. PICK k \in TabState : k = [tab[t] EXCEPT !.pc = "dial"]
  BY <1>2 DEF TabState
<1>5. tab' = [tab EXCEPT ![t] = k]
  BY <1>2, <1>4 DEF TabRedeems
<1>6. tab' \in [Tabs -> TabState] /\ tab'[t] = k /\ \A u \in Tabs \ {t} : tab'[u] = tab[u]
  BY <1>2, <1>5
<1>7. k.pc = "dial" /\ k.slot = "pending" /\ k.tree = 0 /\ k.join = tab[t].join
  BY <1>2, <1>3, <1>4 DEF TabState
<1>8. UNCHANGED <<ticket, armed, meshVars, originVars, mount>> /\ wrong' \in {wrong, wrong \cup {t}}
  BY DEF TabRedeems
<1>9. Shapes'
  BY <1>1, <1>6, <1>8 DEF Shapes, meshVars, originVars
<1>10. LogsRead' /\ ReplicasFollow'
  BY <1>1, <1>8 DEF LogsRead, ReplicasFollow, meshVars
<1>11. \A q \in Nodes \ {t} : PeerAside(q)
  BY <1>8 DEF PeerAside, Right, meshVars
<1>12. TabIsHonest(t)'
  BY <1>1, <1>3, <1>6, <1>7, <1>8 DEF TabIsHonest, Right, meshVars, originVars
<1>13. TabWord(t)'
  <2>1. cell'[t].tree = 0 /\ cell'[t].holding = FALSE /\ log'[t] = << >>
    BY <1>3, <1>8 DEF EmptyCell, meshVars
  <2>2. QED
    BY <2>1 DEF TabWord, TabSays
<1>14. current <= current'
  BY <1>1, <1>8, CurrentStays DEF originVars
<1>15. QED
  BY <1>1, <1>6, <1>8, <1>9, <1>10, <1>11, <1>12, <1>13, <1>14, LocalStep DEF HonestTab

(* What the page does where its client, its cell and its book stay as they are. *)
LEMMA PageMoves ==
    ASSUME PeerInv, NEW t \in Tabs, UNCHANGED vars,
           NEW k \in TabState, tab' = [tab EXCEPT ![t] = k],
           k.tree = tab[t].tree, k.have = tab[t].have,
           k.slot = "pending" =>
                tab[t].slot = "pending" /\ k.join # "landed",
           k.pc \notin {"redeem", "dial"}
    PROVE  PeerInv'
<1>1. Shapes /\ TabIsHonest(t) /\ TabWord(t) /\ t \in Nodes
  BY DEF PeerInv, HonestTab, Nodes
<1>2. tab \in [Tabs -> TabState] /\ cell[t] \in Cells
  BY <1>1 DEF Shapes
<1>3. tab'[t] = k
  BY <1>2
<1>4. UNCHANGED <<ticket, wrong, armed, node, cell, asked, log, doc, known, book, originVars, mount>>
  BY DEF vars, shareVars, meshVars
<1>5. TabIsHonest(t)'
  BY <1>1, <1>3, <1>4 DEF TabIsHonest, Right, originVars
<1>6. TabStaysTrue(t, k)
  BY DEF TabStaysTrue, TabSays
<1>7. TabSays(t, k, wrong, cell[t].tree, cell[t].holding)
  BY <1>1 DEF TabWord, TabSays
<1>8. armed' \in [Tabs -> 0..MaxTree] /\ book' \in [Nodes -> Rosters]
  BY <1>1, <1>4 DEF Shapes
<1>9. QED
  BY <1>2, <1>4, <1>5, <1>6, <1>7, <1>8, PageStep

LEMMA TabConnectsStep ==
    ASSUME PeerInv, NEW t \in Tabs, TabConnects(t)
    PROVE  PeerInv'
<1>1. tab \in [Tabs -> TabState] /\ tab[t] \in TabState /\ TabIsHonest(t)
  BY DEF PeerInv, Shapes, HonestTab
<1>2. UNCHANGED vars /\ tab[t].slot = "pending" /\ tab[t].join # "landed"
  BY <1>1 DEF TabConnects, TabIsHonest
<1>3. CASE tab' = [tab EXCEPT ![t].pc = "open", ![t].join = "pending"]
  <2>1. PICK k \in TabState : k = [tab[t] EXCEPT !.pc = "open", !.join = "pending"]
    BY <1>1 DEF TabState
  <2>2. tab' = [tab EXCEPT ![t] = k]
    BY <1>1, <1>3, <2>1
  <2>3. k.pc = "open" /\ k.join = "pending" /\ k.slot = tab[t].slot /\ k.tree = tab[t].tree
        /\ k.have = tab[t].have
    BY <1>1, <2>1 DEF TabState
  <2>4. QED
    BY <1>2, <2>2, <2>3, PageMoves
<1>4. CASE tab' = [tab EXCEPT ![t].pc = "closed"]
  <2>1. PICK k \in TabState : k = [tab[t] EXCEPT !.pc = "closed"]
    BY <1>1 DEF TabState
  <2>2. tab' = [tab EXCEPT ![t] = k]
    BY <1>1, <1>4, <2>1
  <2>3. k.pc = "closed" /\ k.join = tab[t].join /\ k.slot = tab[t].slot /\ k.tree = tab[t].tree
        /\ k.have = tab[t].have
    BY <1>1, <2>1 DEF TabState
  <2>4. QED
    BY <1>2, <2>2, <2>3, PageMoves
<1>5. QED
  BY <1>3, <1>4 DEF TabConnects

LEMMA TabLetsGoStep ==
    ASSUME PeerInv, NEW t \in Tabs, TabRefused(t) \/ TabLeaves(t)
    PROVE  PeerInv'
<1>1. tab \in [Tabs -> TabState] /\ tab[t] \in TabState
  BY DEF PeerInv, Shapes
<1>2. UNCHANGED vars /\ tab' = [tab EXCEPT ![t].pc = "closed", ![t].slot = "left"]
  BY DEF TabRefused, TabLeaves
<1>3. PICK k \in TabState : k = [tab[t] EXCEPT !.pc = "closed", !.slot = "left"]
  BY <1>1 DEF TabState
<1>4. tab' = [tab EXCEPT ![t] = k]
  BY <1>1, <1>2, <1>3
<1>5. k.pc = "closed" /\ k.slot = "left" /\ k.tree = tab[t].tree /\ k.have = tab[t].have
  BY <1>1, <1>3 DEF TabState
<1>6. QED
  BY <1>2, <1>4, <1>5, PageMoves

(* The join lands: what the page tells the mesh first is the tree it has.    *)
LEMMA TabSpawnsStep ==
    ASSUME PeerInv, NEW t \in Tabs, TabSpawns(t)
    PROVE  PeerInv'
<1>1. Shapes /\ TabIsHonest(t) /\ TabWord(t) /\ t \in Nodes
  BY DEF PeerInv, HonestTab, Nodes
<1>2. tab \in [Tabs -> TabState] /\ tab[t] \in TabState /\ cell[t] \in Cells /\ book \in [Nodes -> Rosters]
  BY <1>1 DEF Shapes
<1>3. UNCHANGED <<ticket, wrong, armed, node, log, doc, known, originVars, mount>>
  BY DEF TabSpawns, meshOnly, shareVars
<1>4. armed' \in [Tabs -> 0..MaxTree] /\ tab[t].pc \notin {"redeem", "dial"} /\ tab[t].join = "pending"
  BY <1>1, <1>3 DEF Shapes, TabIsHonest, TabSpawns
<1>5. CASE tab' = [tab EXCEPT ![t].join = "none"] /\ UNCHANGED <<cell, asked, book>>
  <2>1. PICK k \in TabState : k = [tab[t] EXCEPT !.join = "none"]
    BY <1>2 DEF TabState
  <2>2. tab' = [tab EXCEPT ![t] = k]
    BY <1>2, <1>5, <2>1
  <2>3. k.pc = tab[t].pc /\ k.join = "none" /\ k.slot = tab[t].slot /\ k.tree = tab[t].tree
        /\ k.have = tab[t].have
    BY <1>2, <2>1 DEF TabState
  <2>4. UNCHANGED vars
    BY <1>3, <1>5 DEF vars, shareVars, meshVars
  <2>5. QED
    BY <1>4, <2>2, <2>3, <2>4, PageMoves
<1>6. CASE /\ tab' = [tab EXCEPT ![t].join = "landed", ![t].slot = IF @ = "pending" THEN "joined" ELSE @]
           /\ book' = [book EXCEPT ![t] = Seeded(t)]
           /\ IF tab[t].slot = "pending" /\ tab[t].tree # 0
              THEN SetTree(t, tab[t].tree)
              ELSE UNCHANGED <<cell, asked>>
  <2>1. PICK slot \in {"joined", "left"} : slot = IF tab[t].slot = "pending" THEN "joined" ELSE tab[t].slot
    BY <1>2 DEF TabState
  <2>2. PICK k \in TabState : k = [tab[t] EXCEPT !.join = "landed", !.slot = slot]
    BY <1>2 DEF TabState
  <2>3. tab' = [tab EXCEPT ![t] = k] /\ tab'[t] = k
    BY <1>2, <1>6, <2>1, <2>2
  <2>4. k.pc = tab[t].pc /\ k.slot = slot /\ k.tree = tab[t].tree /\ k.have = tab[t].have
    BY <1>2, <2>2 DEF TabState
  <2>5. Seeded(t) \in Rosters
    <3>1. SeedCard(t) \in Cards
      BY DEF Cards
    <3>2. Seeded(t) = [entries |-> {[nickname |-> t, card |-> SeedCard(t)]}, present |-> {t}]
      BY DEF Seeded, SeedCard
    <3>3. QED
      BY <1>1, <3>1, <3>2 DEF Rosters
  <2>6. book' \in [Nodes -> Rosters] /\ \A q \in Nodes \ {t} : book'[q] = book[q]
    BY <1>2, <1>6, <2>5
  <2>7. PICK value \in Cells : value = [cell[t] EXCEPT !.tree = tab[t].tree]
    BY <1>2 DEF Cells, TabState
  <2>8. value.tree = tab[t].tree /\ value.holding = cell[t].holding
    BY <1>2, <2>7 DEF Cells
  <2>9. TabIsHonest(t)'
    BY <1>1, <1>3, <1>4, <2>3, <2>4 DEF TabIsHonest, Right, originVars
  <2>10. TabStaysTrue(t, k)
    BY <2>4 DEF TabStaysTrue, TabSays
  <2>11. CASE tab[t].slot = "pending" /\ tab[t].tree # 0
    <3>1. SetCell(t, value)
      BY <1>6, <2>7, <2>11 DEF SetTree
    <3>2. cell[t] = EmptyCell /\ Right(t) /\ tab[t].tree \in Nat
      BY <1>1, <1>2, <2>11 DEF TabIsHonest, TabState
    <3>3. TabSays(t, k, wrong, value.tree, value.holding)
      BY <2>4, <2>8, <3>2 DEF TabSays, EmptyCell, Right
    <3>4. QED
      BY <1>3, <1>4, <2>3, <2>6, <2>9, <2>10, <3>1, <3>3, PageStep
  <2>12. CASE ~(tab[t].slot = "pending" /\ tab[t].tree # 0)
    <3>1. TabSays(t, k, wrong, cell[t].tree, cell[t].holding)
      BY <1>1, <2>4 DEF TabWord, TabSays
    <3>2. UNCHANGED <<cell, asked>>
      BY <1>6, <2>12
    <3>3. QED
      BY <1>2, <1>3, <1>4, <2>3, <2>6, <2>9, <2>10, <3>1, <3>2, PageStep
  <2>13. QED
    BY <2>11, <2>12
<1>7. QED
  BY <1>5, <1>6 DEF TabSpawns

(* The origin's tree is fetched: it is the latest, and told a mesh there is.  *)
LEMMA TabFetchesStep ==
    ASSUME PeerInv, NEW t \in Tabs, TabFetches(t)
    PROVE  PeerInv'
<1>1. Shapes /\ TabIsHonest(t) /\ TabWord(t) /\ t \in Nodes
  BY DEF PeerInv, HonestTab, Nodes
<1>2. tab \in [Tabs -> TabState] /\ tab[t] \in TabState /\ cell[t] \in Cells /\ book \in [Nodes -> Rosters]
      /\ current \in 1..MaxTree /\ current \in Nat /\ current # 0 /\ tab[t].tree \in Nat
  BY <1>1, MeshAssumption DEF Shapes, TabState
<1>3. UNCHANGED <<ticket, wrong, armed, node, log, doc, known, book, originVars, mount>>
      /\ tab[t].pc = "open" /\ Right(t)
  BY DEF TabFetches, meshOnly, shareVars, Open
<1>4. PICK k \in TabState : k = [tab[t] EXCEPT !.tree = current]
  <2>1. current \in 0..MaxTree
    BY <1>2
  <2>2. QED
    BY <1>2, <2>1 DEF TabState
<1>5. tab' = [tab EXCEPT ![t] = k] /\ tab'[t] = k
  BY <1>2, <1>4 DEF TabFetches
<1>6. k.pc = tab[t].pc /\ k.join = tab[t].join /\ k.slot = tab[t].slot /\ k.tree = current
      /\ k.have = tab[t].have
  BY <1>2, <1>4 DEF TabState
<1>7. armed' \in [Tabs -> 0..MaxTree] /\ book' \in [Nodes -> Rosters] /\ book' = book
      /\ (tab[t].slot = "pending" => cell[t] = EmptyCell)
  BY <1>1, <1>3 DEF Shapes, TabIsHonest
<1>8. tab[t].tree <= current
  BY <1>1 DEF TabIsHonest
<1>9. TabStaysTrue(t, k)
  <2>1. \A tree \in 0..MaxTree : tree <= tab[t].tree => tree <= k.tree
    BY <1>2, <1>6, <1>8
  <2>2. QED
    BY <1>6, <2>1 DEF TabStaysTrue, TabSays
<1>10. PICK value \in Cells : value = [cell[t] EXCEPT !.tree = current]
  <2>1. current \in 0..MaxTree
    BY <1>2
  <2>2. QED
    BY <1>2, <2>1 DEF Cells
<1>11. value.tree = current /\ value.holding = cell[t].holding
  BY <1>2, <1>10 DEF Cells
<1>12. TabSays(t, k, wrong, value.tree, value.holding)
  BY <1>1, <1>2, <1>3, <1>6, <1>11 DEF TabWord, TabSays, Right
<1>13. CASE tab[t].slot = "joined"
  <2>1. SetCell(t, value)
    BY <1>10, <1>13 DEF TabFetches, SetTree
  <2>2. TabIsHonest(t)'
    BY <1>1, <1>2, <1>3, <1>5, <1>6, <1>13 DEF TabIsHonest, Right, originVars
  <2>3. QED
    BY <1>3, <1>5, <1>7, <1>9, <1>12, <2>1, <2>2, PageStep
<1>14. CASE tab[t].slot # "joined"
  <2>1. UNCHANGED <<cell, asked>>
    BY <1>14 DEF TabFetches
  <2>2. TabIsHonest(t)'
    BY <1>1, <1>2, <1>3, <1>5, <1>6, <2>1 DEF TabIsHonest, Right, originVars
  <2>3. QED
    BY <1>3, <1>5, <1>7, <1>9, <1>12, <2>1, <2>2, PageStep
<1>15. QED
  BY <1>13, <1>14

(* What is kept is told with the tree it is of.                              *)
LEMMA TabPublishesStep ==
    ASSUME PeerInv, NEW t \in Tabs, TabPublishes(t)
    PROVE  PeerInv'
<1>1. Shapes /\ TabIsHonest(t) /\ TabWord(t) /\ t \in Nodes
  BY DEF PeerInv, HonestTab, Nodes
<1>2. tab \in [Tabs -> TabState] /\ tab[t] \in TabState /\ cell[t] \in Cells /\ book \in [Nodes -> Rosters]
      /\ tab[t].tree \in 0..MaxTree /\ armed \in [Tabs -> 0..MaxTree]
  BY <1>1 DEF Shapes, TabState
<1>3. UNCHANGED <<ticket, wrong, node, log, doc, known, book, originVars, mount>>
      /\ tab[t].pc = "open" /\ tab[t].tree # 0 /\ armed' = [armed EXCEPT ![t] = tab[t].tree]
  BY DEF TabPublishes, Open
<1>4. tab[t].have \in 0..MaxHave /\ MaxHave \in Nat
  BY <1>2, MeshAssumption DEF TabState
<1>5. PICK have \in 0..MaxHave :
        have > 0 /\ have >= tab[t].have /\ tab' = [tab EXCEPT ![t].have = have]
  <2>1. CASE tab[t].have < MaxHave /\ tab' = [tab EXCEPT ![t].have = @ + 1]
    <3>1. tab[t].have + 1 \in 0..MaxHave /\ tab[t].have + 1 > 0 /\ tab[t].have + 1 >= tab[t].have
      BY <1>4, <2>1
    <3>2. tab' = [tab EXCEPT ![t].have = tab[t].have + 1]
      BY <1>2, <2>1
    <3>3. QED
      BY <3>1, <3>2
  <2>2. CASE tab[t].have > 0 /\ UNCHANGED tab
    <3>1. [tab EXCEPT ![t].have = tab[t].have] = tab
      BY <1>2 DEF TabState
    <3>2. tab' = [tab EXCEPT ![t].have = tab[t].have]
      BY <2>2, <3>1
    <3>3. tab[t].have >= tab[t].have
      BY <1>4
    <3>4. QED
      BY <1>4, <2>2, <3>2, <3>3
  <2>3. QED
    BY <2>1, <2>2 DEF TabPublishes
<1>6. PICK k \in TabState : k = [tab[t] EXCEPT !.have = have]
  BY <1>2 DEF TabState
<1>7. tab' = [tab EXCEPT ![t] = k] /\ tab'[t] = k
  BY <1>2, <1>5, <1>6
<1>8. k.pc = tab[t].pc /\ k.join = tab[t].join /\ k.slot = tab[t].slot /\ k.tree = tab[t].tree
      /\ k.have = have
  BY <1>2, <1>6 DEF TabState
<1>9. armed' \in [Tabs -> 0..MaxTree] /\ book' \in [Nodes -> Rosters] /\ book' = book
  BY <1>2, <1>3
<1>10. TabStaysTrue(t, k)
  BY <1>4, <1>5, <1>8 DEF TabStaysTrue, TabSays
<1>11. PICK value \in Cells : value = [tree |-> tab[t].tree, serving |-> tab'[t].have = 2, holding |-> TRUE]
  <2>1. (tab'[t].have = 2) \in BOOLEAN /\ TRUE \in BOOLEAN
    OBVIOUS
  <2>2. [tree |-> tab[t].tree, serving |-> tab'[t].have = 2, holding |-> TRUE] \in Cells
    BY <1>2, <2>1 DEF Cells
  <2>3. QED
    BY <2>2
<1>12. value.tree = tab[t].tree /\ value.holding = TRUE /\ Right(t)
  BY <1>1, <1>3, <1>11 DEF TabIsHonest
<1>13. TabSays(t, k, wrong, value.tree, value.holding)
  BY <1>2, <1>3, <1>5, <1>8, <1>12 DEF TabSays, Right
<1>14. CASE tab[t].slot = "joined"
  <2>1. SetCell(t, value)
    BY <1>11, <1>14 DEF TabPublishes, SetServing
  <2>2. TabIsHonest(t)'
    BY <1>1, <1>3, <1>7, <1>8, <1>14 DEF TabIsHonest, Right, originVars
  <2>3. QED
    BY <1>3, <1>7, <1>9, <1>10, <1>13, <2>1, <2>2, PageStep
<1>15. CASE tab[t].slot # "joined"
  <2>1. UNCHANGED <<cell, asked>>
    BY <1>15 DEF TabPublishes
  <2>2. TabIsHonest(t)'
    BY <1>1, <1>3, <1>7, <1>8, <2>1 DEF TabIsHonest, Right, originVars
  <2>3. QED
    BY <1>3, <1>7, <1>9, <1>10, <1>13, <2>1, <2>2, PageStep
<1>16. QED
  BY <1>14, <1>15

(* The engine of a tab starts, with the cell it was given since.             *)
LEMMA TabStartsStep ==
    ASSUME PeerInv, NEW t \in Tabs, TabStarts(t)
    PROVE  PeerInv'
<1>1. Shapes /\ LogsRead /\ ReplicasFollow /\ t \in Nodes /\ t \notin Mounts
      /\ TabIsHonest(t) /\ TabWord(t)
  BY MeshAssumption DEF PeerInv, Nodes, HonestTab
<1>2. UNCHANGED <<ticket, wrong, armed, asked, originVars, mount, tab>> /\ tab[t].join = "landed"
  BY DEF TabStarts, meshOnly, shareVars
<1>3. PICK value \in Cells : value = cell[t]
  BY <1>1 DEF Shapes
<1>4. /\ node' \in [Nodes -> {"out", "in", "left", "gone"}] /\ cell' \in [Nodes -> Cells]
      /\ known' \in [Nodes -> SUBSET Nodes]
      /\ node'[t] = "in" /\ cell'[t] = cell[t]
      /\ \A q \in Nodes \ {t} : node'[q] = node[q] /\ cell'[q] = cell[q]
      /\ log' \in [Nodes -> Seq(Values)] /\ doc' \in [Nodes -> [Nodes -> Nat]]
      /\ book' \in [Nodes -> Rosters]
      /\ LogsRead' /\ ReplicasFollow'
      /\ \A q \in Nodes \ {t} : log'[q] = log[q] /\ doc'[q] = doc[q] /\ book'[q] = book[q]
      /\ LogGrows(t)
  BY <1>1, <1>3, Joined DEF TabStarts
<1>5. Shapes'
  BY <1>1, <1>2, <1>4 DEF Shapes, originVars
<1>6. \A q \in Nodes \ {t} : PeerAside(q)
  BY <1>2, <1>4 DEF PeerAside, Right
<1>7. tab[t].slot # "pending"
  BY <1>1, <1>2 DEF TabIsHonest
<1>8. TabIsHonest(t)'
  BY <1>1, <1>2, <1>7 DEF TabIsHonest, Right, originVars
<1>9. TabWord(t)'
  <2>1. TabSays(t, tab'[t], wrong', cell'[t].tree, cell'[t].holding)
    BY <1>1, <1>2, <1>4 DEF TabWord
  <2>2. tab' = tab /\ wrong' = wrong
    BY <1>2
  <2>3. QED
    BY <1>1, <1>4, <2>1, <2>2, TabKeepsItsWord
<1>10. current <= current'
  BY <1>1, <1>2, CurrentStays DEF originVars
<1>11. QED
  BY <1>1, <1>2, <1>4, <1>5, <1>6, <1>8, <1>9, <1>10, LocalStep DEF HonestTab

LEMMA TabSaysGoodbyeStep ==
    ASSUME PeerInv, NEW t \in Tabs, TabSaysGoodbye(t)
    PROVE  PeerInv'
<1>1. Shapes /\ LogsRead /\ ReplicasFollow /\ t \in Nodes /\ TabIsHonest(t)
  BY DEF PeerInv, Nodes, HonestTab
<1>2. tab \in [Tabs -> TabState] /\ tab[t] \in TabState /\ tab' = tab /\ UNCHANGED meshOnly
      /\ Ends(t, "left") /\ tab[t].slot = "left"
  BY <1>1 DEF Shapes, TabSaysGoodbye
<1>3. PICK k \in TabState : k = tab[t]
  BY <1>2
<1>4. tab' = [tab EXCEPT ![t] = k]
  BY <1>2, <1>3
<1>5. TabIsHonest(t)'
  BY <1>1, <1>2 DEF TabIsHonest, Right, meshOnly, shareVars, originVars
<1>6. TabStaysTrue(t, k)
  BY <1>3 DEF TabStaysTrue
<1>7. QED
  BY <1>2, <1>4, <1>5, <1>6, PageEnds

LEMMA TabDiesStep ==
    ASSUME PeerInv, NEW t \in Tabs, TabDies(t)
    PROVE  PeerInv'
<1>1. Shapes /\ TabIsHonest(t)
  BY DEF PeerInv, HonestTab
<1>2. tab \in [Tabs -> TabState] /\ tab[t] \in TabState /\ UNCHANGED meshOnly /\ Ends(t, "gone")
      /\ tab' = [tab EXCEPT ![t].pc = "dead", ![t].join = "none", ![t].slot = "left"]
  BY <1>1 DEF Shapes, TabDies
<1>3. PICK k \in TabState : k = [tab[t] EXCEPT !.pc = "dead", !.join = "none", !.slot = "left"]
  BY <1>2 DEF TabState
<1>4. tab' = [tab EXCEPT ![t] = k] /\ tab'[t] = k
  BY <1>2, <1>3
<1>5. k.pc = "dead" /\ k.slot = "left" /\ k.tree = tab[t].tree /\ k.have = tab[t].have
  BY <1>2, <1>3 DEF TabState
<1>6. TabIsHonest(t)'
  BY <1>1, <1>2, <1>4, <1>5 DEF TabIsHonest, Right, meshOnly, shareVars, originVars
<1>7. TabStaysTrue(t, k)
  BY <1>5 DEF TabStaysTrue, TabSays
<1>8. QED
  BY <1>2, <1>4, <1>6, <1>7, PageEnds

-----------------------------------------------------------------------------
(* The share.                                                                *)

\* Producers are there from the start, and a mount or a tab has said nothing.
LEMMA PeersInit == TabInit => PeerInv
<1> SUFFICES ASSUME TabInit PROVE PeerInv
  OBVIOUS
<1>1. PICK party \in Parties :
        /\ InitWith(party)
        /\ tab = [t \in Tabs |-> IF t \in party THEN NewTab ELSE [NewTab EXCEPT !.pc = "closed"]]
  BY DEF TabInit
<1> DEFINE here == Producers \cap (party \cup {Origin})
<1>2. here \subseteq Nodes /\ here \subseteq Producers /\ Producers \subseteq Nodes
  BY DEF Nodes
<1>3. EmptyCell \in Cells /\ 0 \in 0..MaxTree /\ 1 \in 0..MaxTree /\ 1 \in 1..MaxTree /\ 0 \in 0..MaxHave
      /\ EmptyCell.tree = 0 /\ EmptyCell.holding = FALSE
  BY MeshAssumption DEF EmptyCell, Cells
<1>4. \A p \in Nodes : FirstCell(p) \in Cells
  BY <1>3 DEF FirstCell, Cells
<1>5. ticket \in Tickets /\ wrong = {} /\ armed \in [Tabs -> 0..MaxTree] /\ current = 1
      /\ listening \in BOOLEAN /\ updates \in BOOLEAN
  BY <1>1, <1>3 DEF InitWith
<1>6. /\ node = [p \in Nodes |-> IF p \in here THEN "in" ELSE "out"]
      /\ cell = [p \in Nodes |-> IF p \in here THEN FirstCell(p) ELSE EmptyCell]
      /\ asked = [p \in Nodes |-> FALSE]
      /\ log = [p \in Nodes |-> IF p \in here THEN <<OwnCard(p, FirstCell(p))>> ELSE << >>]
      /\ doc = [p \in Nodes |-> [q \in Nodes |-> IF {p, q} \subseteq here THEN 1 ELSE 0]]
      /\ known = [p \in Nodes |-> IF p \in here THEN here \ {p} ELSE {}]
      /\ book = [p \in Nodes |-> IF p \in here THEN BookOf(p, doc[p], known[p], log) ELSE NewRoster]
      /\ mount = [m \in Mounts |-> IF m \in party THEN NewMount ELSE [NewMount EXCEPT !.pc = "done"]]
  BY <1>1 DEF InitWith
<1> HIDE DEF here
<1>7. node \in [Nodes -> {"out", "in", "left", "gone"}] /\ cell \in [Nodes -> Cells]
      /\ asked \in [Nodes -> BOOLEAN] /\ doc \in [Nodes -> [Nodes -> Nat]]
      /\ known \in [Nodes -> SUBSET Nodes]
  BY <1>2, <1>3, <1>4, <1>6
<1>8. \A p \in Nodes : OwnCard(p, FirstCell(p)) \in Values
                       /\ IsCardOf(p, FromCardValue(OwnCard(p, FirstCell(p))))
  BY <1>4, CardSaysTheCell DEF Values
<1>9. log \in [Nodes -> Seq(Values)]
      /\ (\A p \in here : log[p] = <<OwnCard(p, FirstCell(p))>>)
      /\ (\A p \in Nodes \ here : log[p] = << >>)
  BY <1>2, <1>6, <1>8
<1>10. LogsRead
  <2>1. ASSUME NEW p \in Nodes, NEW k \in 1..Len(log[p]) PROVE IsCardOf(p, FromCardValue(log[p][k]))
    <3>1. CASE p \in here
      <4>1. PICK card : card = OwnCard(p, FirstCell(p))
        OBVIOUS
      <4>2. log[p] = <<card>>
        BY <1>9, <3>1, <4>1
      <4>3. k = 1 /\ log[p][k] = card
        BY <4>2
      <4>4. QED
        BY <1>8, <4>1, <4>3
    <3>2. CASE p \notin here
      BY <1>9, <3>2
    <3>3. QED
      BY <3>1, <3>2
  <2>2. QED
    BY <2>1 DEF LogsRead
<1>11. ReplicasFollow
  <2>1. ASSUME NEW p \in Nodes, NEW q \in Nodes PROVE doc[p][q] <= Len(log[q])
    <3>1. CASE q \in here
      <4>1. Len(log[q]) = 1
        <5>1. PICK card : card = OwnCard(q, FirstCell(q))
          OBVIOUS
        <5>2. log[q] = <<card>>
          BY <1>9, <3>1, <5>1
        <5>3. QED
          BY <5>2
      <4>2. doc[p][q] \in {0, 1}
        BY <1>6
      <4>3. QED
        BY <4>1, <4>2
    <3>2. CASE q \notin here
      <4>1. Len(log[q]) = 0
        BY <1>9, <3>2
      <4>2. doc[p][q] = 0
        BY <1>6, <3>2
      <4>3. QED
        BY <4>1, <4>2
    <3>3. QED
      BY <3>1, <3>2
  <2>2. QED
    BY <2>1 DEF ReplicasFollow
<1>12. book \in [Nodes -> Rosters]
  <2>1. NewRoster \in Rosters
    BY DEF NewRoster, Rosters
  <2>2. ASSUME NEW p \in Nodes PROVE BookOf(p, doc[p], known[p], log) \in Rosters
    <3>1. \A q \in Nodes : doc[p][q] <= Len(log[q])
      BY <1>11 DEF ReplicasFollow
    <3>2. \A q \in Nodes : \A k \in 1..Len(log[q]) : IsCardOf(q, FromCardValue(log[q][k]))
      BY <1>10 DEF LogsRead
    <3>3. doc[p] \in [Nodes -> Nat] /\ known[p] \in SUBSET Nodes
      BY <1>7
    <3>4. QED
      BY <1>9, <3>1, <3>2, <3>3, BookReads
  <2>3. QED
    BY <1>6, <2>1, <2>2
<1>13. NewMount \in MountState /\ [NewMount EXCEPT !.pc = "done"] \in MountState
  <2>1. NewMount \in MountState
    BY <1>3 DEF NewMount, MountState, Attaching
  <2>2. "done" \in Attached
    BY DEF Attached
  <2>3. \A k \in MountState : [k EXCEPT !.pc = "done"] \in MountState
    BY <2>2 DEF MountState
  <2>4. QED
    BY <2>1, <2>3
<1>14. NewTab \in TabState /\ [NewTab EXCEPT !.pc = "closed"] \in TabState
  BY <1>3 DEF NewTab, TabState
<1>15. mount \in [Mounts -> MountState] /\ tab \in [Tabs -> TabState]
  BY <1>1, <1>6, <1>13, <1>14
<1>16. Shapes
  BY <1>3, <1>5, <1>7, <1>9, <1>12, <1>15 DEF Shapes
<1>17. \A p \in Mounts \cup Tabs : p \in Nodes /\ p \notin here
  BY <1>2, MeshAssumption DEF Nodes
<1>18. \A p \in Mounts \cup Tabs : /\ node[p] = "out" /\ cell[p] = EmptyCell /\ log[p] = << >>
                                   /\ (\A q \in Nodes : doc[p][q] = 0) /\ book[p] = NewRoster
  BY <1>6, <1>17
<1>19. ASSUME NEW m \in Mounts PROVE HonestMount(m)
  <2>1. /\ mount[m].pc \in {"redeem", "done"} /\ mount[m].join = "none" /\ mount[m].tree = 0
        /\ mount[m].cards = {} /\ mount[m].left = {} /\ mount[m].why = "none"
    BY <1>6 DEF NewMount
  <2>2. AttachIsHonest(m)
    BY <1>18, <2>1 DEF AttachIsHonest
  <2>3. StrangerIsAlone(m)
    BY <1>5, <1>18 DEF StrangerIsAlone, Right, NewRoster
  <2>4. MountWord(m)
    BY <1>3, <1>18 DEF MountWord, MountSays
  <2>5. QED
    BY <2>2, <2>3, <2>4 DEF HonestMount
<1>20. ASSUME NEW t \in Tabs PROVE HonestTab(t)
  <2>1. tab[t].pc \in {"redeem", "closed"} /\ tab[t].join = "none" /\ tab[t].slot = "pending"
        /\ tab[t].tree = 0
    BY <1>1 DEF NewTab
  <2>2. TabIsHonest(t)
    BY <1>5, <1>18, <2>1 DEF TabIsHonest
  <2>3. TabWord(t)
    BY <1>3, <1>18 DEF TabWord, TabSays
  <2>4. QED
    BY <2>2, <2>3 DEF HonestTab
<1>21. QED
  BY <1>10, <1>11, <1>16, <1>19, <1>20 DEF PeerInv

(* Every step of every peer, and of those who come and go between them.      *)
LEMMA PeersStep == PeerInv /\ [TabNext]_allVars => PeerInv'
<1> SUFFICES ASSUME PeerInv, [TabNext]_allVars PROVE PeerInv'
  OBVIOUS
<1>1. CASE UNCHANGED allVars
  <2>1. Shapes
    BY DEF PeerInv
  <2>2. UNCHANGED <<ticket, wrong, armed, node, cell, asked, log, doc, known, book, mount, tab>>
        /\ UNCHANGED originVars
    BY <1>1 DEF allVars, vars, shareVars, meshVars
  <2>3. Shapes' /\ current <= current'
    BY <2>1, <2>2, CurrentStays DEF Shapes, originVars
  <2>4. QED
    BY <2>2, <2>3, SharedStep
<1>2. CASE Next /\ UNCHANGED tab
  <2>1. CASE OriginSubscribes \/ TreeChanges \/ OriginFollows \/ \E p \in Producers : ProducerStops(p)
    BY <1>2, <2>1, ProducerStep
  <2>2. ASSUME NEW p \in Nodes, Engine(p) PROVE PeerInv'
    BY <1>2, <2>2, TickStep, RepublishStep, PeerLeftStep, MetaAppliedStep DEF Engine
  <2>3. ASSUME NEW p \in Nodes, NEW q \in Nodes, Evict(p, q) PROVE PeerInv'
    BY <1>2, <2>3, EvictStep
  <2>4. ASSUME NEW m \in Mounts, Attach(m) PROVE PeerInv'
    <3>1. CASE Redeem(m) \/ JoinMesh(m) \/ MeshIsWired(m)
      BY <1>2, <3>1, RedeemStep, JoinMeshStep, MeshIsWiredStep
    <3>2. CASE FetchFromOrigin(m) \/ FetchFails(m)
      BY <1>2, <3>2, FetchStep
    <3>3. CASE FetchRefused(m) \/ PollTimesOut(m) \/ DialsRunOut(m)
      BY <1>2, <3>3, FailsStep
    <3>4. CASE BootstrapStarts(m) \/ Poll(m) \/ Dial(m)
      BY <1>2, <3>4, BootstrapStartsStep, PollStep, DialStep
    <3>5. QED
      BY <2>4, <3>1, <3>2, <3>3, <3>4 DEF Attach
  <2>5. ASSUME NEW m \in Mounts, Read(m) \/ ServingUpdate(m) \/ Unmount(m) PROVE PeerInv'
    BY <1>2, <2>5, ReadStep, ServingUpdateStep, UnmountStep
  <2>6. QED
    BY <1>2, <2>1, <2>2, <2>3, <2>4, <2>5 DEF Next
<1>3. ASSUME NEW t \in Tabs,
             \/ TabRedeems(t) \/ TabConnects(t) \/ TabTask(t)
             \/ TabFetches(t) \/ TabRefused(t) \/ TabPublishes(t)
             \/ TabLeaves(t) \/ TabDies(t)
      PROVE  PeerInv'
  <2>1. CASE TabRedeems(t) \/ TabConnects(t) \/ TabRefused(t) \/ TabLeaves(t) \/ TabDies(t)
    BY <2>1, TabRedeemsStep, TabConnectsStep, TabLetsGoStep, TabDiesStep
  <2>2. CASE TabTask(t)
    BY <2>2, TabSpawnsStep, TabStartsStep, TabSaysGoodbyeStep DEF TabTask
  <2>3. CASE TabFetches(t) \/ TabPublishes(t)
    BY <2>3, TabFetchesStep, TabPublishesStep
  <2>4. QED
    BY <1>3, <2>1, <2>2, <2>3
<1>4. QED
  BY <1>1, <1>2, <1>3 DEF TabNext

(* What the peers of a share keep true, whoever comes, goes, or is mistaken: *)
(* replicas stay behind authors, cards behind cells, and cells behind what   *)
(* their peer has.                                                           *)
THEOREM PeersInvariant == ShareSpec => []PeerInv
<1>1. QED
  BY PeersInit, PeersStep, PTL DEF ShareSpec

(* The invariant says of a mount what its readers rely on.                   *)
LEMMA MountsAreHonest == PeerInv => AttachesAreHonest
<1> SUFFICES ASSUME PeerInv PROVE AttachesAreHonest
  OBVIOUS
<1>1. Shapes /\ (\A m \in Mounts : HonestMount(m) /\ mount[m] \in MountState)
  BY DEF PeerInv, Shapes
<1>2. MeshTypeOK
  <2>1. \A p, q \in Nodes : doc[p][q] \in 0..Len(log[q])
    <3>1. ASSUME NEW p \in Nodes, NEW q \in Nodes PROVE doc[p][q] \in 0..Len(log[q])
      <4>1. doc[p][q] \in Nat /\ Len(log[q]) \in Nat /\ doc[p][q] <= Len(log[q])
        BY DEF PeerInv, Shapes, ReplicasFollow
      <4>2. QED
        BY <4>1
    <3>2. QED
      BY <3>1
  <2>2. \A m \in Mounts : mount[m].tree \in 0..MaxTree /\ mount[m].have \in 0..MaxHave
    BY <1>1 DEF MountState
  <2>3. QED
    BY <1>1, <2>1, <2>2 DEF MeshTypeOK, Shapes, Cells
<1>3. VouchersServeTheirTree
  <2>1. ASSUME NEW m \in Mounts, NEW k \in 1..Len(log[m]), NEW card,
               card = FromCardValue(log[m][k]), card.tree # 0, HoldsSomething(card)
        PROVE  mount[m].tree = card.tree /\ mount[m].have > 0
    <3>1. MountSays(mount[m], card.tree, HoldsSomething(card))
      BY <1>1, <2>1 DEF HonestMount, MountWord
    <3>2. QED
      BY <2>1, <3>1 DEF MountSays
  <2>2. QED
    BY <2>1 DEF VouchersServeTheirTree
<1>4. BootstrapTakesTheMajority
  BY <1>1 DEF HonestMount, AttachIsHonest, Wins, BootstrapTakesTheMajority
<1>5. PasswordErrorsAreTrue
  BY <1>1 DEF HonestMount, AttachIsHonest, StrangerIsAlone, PasswordErrorsAreTrue
<1>6. QED
  BY <1>2, <1>3, <1>4, <1>5 DEF AttachesAreHonest

(* And of a tab.                                                             *)
LEMMA TabsAreHonest == PeerInv => TabTypeOK /\ TabCardsAreEarned
<1> SUFFICES ASSUME PeerInv PROVE TabTypeOK /\ TabCardsAreEarned
  OBVIOUS
<1>1. \A t \in Tabs : HonestTab(t) /\ tab[t] \in TabState
  BY DEF PeerInv, Shapes
<1>2. TabTypeOK
  BY <1>1 DEF TabTypeOK, TabState, HonestTab, TabIsHonest
<1>3. ASSUME NEW t \in Tabs, NEW k \in 1..Len(log[t]), NEW card, card = FromCardValue(log[t][k])
      PROVE  /\ HoldsSomething(card) => card.tree # 0 /\ tab[t].have > 0
             /\ card.tree # 0 => Right(t) /\ card.tree <= tab[t].tree
  <2>1. TabSays(t, tab[t], wrong, card.tree, HoldsSomething(card))
    BY <1>1, <1>3 DEF HonestTab, TabWord
  <2>2. QED
    BY <2>1 DEF TabSays, Right
<1>4. QED
  BY <1>2, <1>3 DEF TabCardsAreEarned

(* A reader may dial a peer on its card alone: a mount or a tab that vouches *)
(* for a tree has it and has bytes of it, an unsigned bootstrap never takes  *)
(* an outvoted tree, and a wrong password mounts nothing and is blamed only  *)
(* when it was given (mesh.rs, consume.rs, the browser's mesh.rs).           *)
THEOREM PeersStayHonest == ShareSpec => []PeersAreHonest
<1>1. PeerInv => PeersAreHonest
  BY MountsAreHonest, TabsAreHonest DEF PeersAreHonest
<1>2. QED
  BY <1>1, PeersInvariant, PTL

-----------------------------------------------------------------------------
(* The plan of a download: swarm.rs.                                         *)

\* A set of naturals with zero and every successor has them all.
LEMMA SetInduction ==
    ASSUME NEW S, 0 \in S, \A n \in Nat : n \in S => n + 1 \in S
    PROVE  Nat \subseteq S
<1> DEFINE others == Nat \ S
<1> SUFFICES ASSUME others # {}  PROVE FALSE
  OBVIOUS
<1>1. PICK n \in others : \A k \in others : n <= k
  BY LeastOfNaturals
<1>2. n \in Nat /\ n # 0 /\ n - 1 \in Nat /\ ~(n <= n - 1) /\ n = (n - 1) + 1
  OBVIOUS
<1>3. n - 1 \in S
  BY <1>1, <1>2
<1>4. QED
  BY <1>2, <1>3

\* before puts the elements of S in one row.
IsOrder(S, before) ==
    /\ \A x, y \in S : x # y => <<x, y>> \in before \/ <<y, x>> \in before
    /\ \A x \in S : <<x, x>> \notin before
    /\ \A x, y, z \in S : <<x, y>> \in before /\ <<y, z>> \in before => <<x, z>> \in before

\* A finite set that is not empty has a last element.
LEMMA LastOfFinite ==
    ASSUME NEW U, NEW before, IsOrder(U, before), NEW S, S \subseteq U, IsFiniteSet(S), S # {}
    PROVE  \E x \in S : \A y \in S \ {x} : <<y, x>> \in before
<1> DEFINE Has(T) == \E x \in T : \A y \in T \ {x} : <<y, x>> \in before
           N == {n \in Nat : \A T \in SUBSET S : Cardinality(T) = n + 1 => Has(T)}
<1>1. 0 \in N
  <2>1. ASSUME NEW T \in SUBSET S, Cardinality(T) = 0 + 1 PROVE Has(T)
    <3>1. \E x : T = {x}
      <4>1. IsFiniteSet(T)
        BY FS_Subset
      <4>2. Cardinality(T) = 1
        BY <2>1
      <4>3. QED
        BY <4>1, <4>2, FS_Singleton
    <3>2. QED
      BY <3>1
  <2>2. QED
    BY <2>1
<1>2. ASSUME NEW n \in Nat, n \in N PROVE n + 1 \in N
  <2>1. ASSUME NEW T \in SUBSET S, Cardinality(T) = (n + 1) + 1 PROVE Has(T)
    <3>1. IsFiniteSet(T) /\ T # {}
      BY <2>1, FS_Subset, FS_EmptySet
    <3>2. PICK x \in T : TRUE
      BY <3>1
    <3>3. T \ {x} \in SUBSET S /\ Cardinality(T \ {x}) = n + 1
      <4>1. Cardinality(T \ {x}) = Cardinality(T) - 1
        BY <3>1, <3>2, FS_RemoveElement
      <4>2. QED
        BY <2>1, <4>1
    <3>4. PICK y \in T \ {x} : \A z \in (T \ {x}) \ {y} : <<z, y>> \in before
      BY <1>2, <3>3
    <3>5. x \in U /\ y \in U /\ x # y /\ \A z \in T : z \in U
      BY <3>2, <3>4
    <3>6. CASE <<x, y>> \in before
      BY <3>4, <3>5, <3>6
    <3>7. CASE <<y, x>> \in before
      <4>1. \A z \in T \ {x} : <<z, x>> \in before
        <5>1. ASSUME NEW z \in T \ {x} PROVE <<z, x>> \in before
          <6>1. CASE z = y
            BY <3>7, <6>1
          <6>2. CASE z # y
            BY <3>4, <3>5, <3>7, <6>2 DEF IsOrder
          <6>3. QED
            BY <6>1, <6>2
        <5>2. QED
          BY <5>1
      <4>2. QED
        BY <3>2, <4>1
    <3>8. QED
      BY <3>5, <3>6, <3>7 DEF IsOrder
  <2>2. QED
    BY <2>1
<1>3. Nat \subseteq N
  <2> HIDE DEF N
  <2>1. QED
    BY <1>1, <1>2, SetInduction
<1>4. Cardinality(S) \in Nat /\ Cardinality(S) # 0
  BY FS_CardinalityType, FS_EmptySet
<1>5. PICK n \in Nat : Cardinality(S) = n + 1
  <2>1. Cardinality(S) - 1 \in Nat /\ Cardinality(S) = (Cardinality(S) - 1) + 1
    BY <1>4
  <2>2. QED
    BY <2>1
<1>6. n \in N
  BY <1>3
<1>7. QED
  BY <1>5, <1>6

\* seq has the elements of S, each once, in their order.
Orders(seq, S, before) ==
    /\ seq \in [1..Cardinality(S) -> S]
    /\ \A a, b \in 1..Cardinality(S) : a < b => <<seq[a], seq[b]>> \in before

LEMMA OrdersAreThere ==
    ASSUME NEW U, NEW before, IsOrder(U, before), IsFiniteSet(U)
    PROVE  \A S \in SUBSET U : \E seq : Orders(seq, S, before)
<1> DEFINE N == {n \in Nat : \A S \in SUBSET U : Cardinality(S) = n => \E seq : Orders(seq, S, before)}
<1>1. 0 \in N
  <2>1. ASSUME NEW S \in SUBSET U, Cardinality(S) = 0 PROVE Orders(<< >>, S, before)
    <3>1. S = {} /\ 1..0 = {}
      BY <2>1, FS_Subset, FS_EmptySet
    <3>2. << >> \in [1..0 -> S]
      BY <3>1
    <3>3. QED
      BY <2>1, <3>1, <3>2 DEF Orders
  <2>2. QED
    BY <2>1
<1>2. ASSUME NEW n \in Nat, n \in N PROVE n + 1 \in N
  <2>1. ASSUME NEW S \in SUBSET U, Cardinality(S) = n + 1 PROVE \E seq : Orders(seq, S, before)
    <3>1. IsFiniteSet(S) /\ S # {}
      BY <2>1, FS_Subset, FS_EmptySet
    <3>2. PICK last \in S : \A y \in S \ {last} : <<y, last>> \in before
      BY <3>1, LastOfFinite
    <3>3. S \ {last} \in SUBSET U /\ Cardinality(S \ {last}) = n
      <4>1. Cardinality(S \ {last}) = Cardinality(S) - 1
        BY <3>1, <3>2, FS_RemoveElement
      <4>2. QED
        BY <2>1, <4>1
    <3>4. PICK seq : Orders(seq, S \ {last}, before)
      BY <1>2, <3>3
    <3>5. seq \in [1..n -> S \ {last}] /\ \A a, b \in 1..n : a < b => <<seq[a], seq[b]>> \in before
      BY <3>3, <3>4 DEF Orders
    <3> DEFINE more == [a \in 1..n + 1 |-> IF a = n + 1 THEN last ELSE seq[a]]
    <3>6. \A a \in 1..n + 1 : a = n + 1 \/ a \in 1..n
      OBVIOUS
    <3>7. more[n + 1] = last /\ \A a \in 1..n : more[a] = seq[a] /\ seq[a] \in S \ {last}
      BY <3>5
    <3>8. more \in [1..n + 1 -> S]
      BY <3>5, <3>6
    <3> HIDE DEF more
    <3>9. ASSUME NEW a \in 1..n + 1, NEW b \in 1..n + 1, a < b PROVE <<more[a], more[b]>> \in before
      <4>1. a \in 1..n
        BY <3>9
      <4>2. CASE b = n + 1
        BY <3>2, <3>7, <4>1, <4>2
      <4>3. CASE b \in 1..n
        BY <3>5, <3>7, <3>9, <4>1, <4>3
      <4>4. QED
        BY <3>6, <4>2, <4>3
    <3>10. Orders(more, S, before)
      BY <2>1, <3>8, <3>9 DEF Orders
    <3>11. QED
      BY <3>10
  <2>2. QED
    BY <2>1
<1>3. Nat \subseteq N
  <2> HIDE DEF N
  <2>1. QED
    BY <1>1, <1>2, SetInduction
<1>4. \A S \in SUBSET U : Cardinality(S) \in Nat
  BY FS_Subset, FS_CardinalityType
<1>5. QED
  BY <1>3, <1>4

(* InOrder lists the elements of a finite set, each once, in their order.    *)
LEMMA InOrderIs ==
    ASSUME NEW S, IsFiniteSet(S), NEW before, IsOrder(S, before)
    PROVE  LET seq == InOrder(S, before)
           IN  /\ seq \in Seq(S) /\ Len(seq) = Cardinality(S)
               /\ IsInjective(seq) /\ ToSet(seq) = S
               /\ \A a, b \in 1..Len(seq) : a < b => <<seq[a], seq[b]>> \in before
<1> DEFINE n == Cardinality(S)
<1>1. PICK seq : seq = InOrder(S, before)
  OBVIOUS
<1>2. \E s : Orders(s, S, before)
  BY OrdersAreThere
<1>3. Orders(seq, S, before)
  BY <1>1, <1>2 DEF Orders, InOrder
<1>4. n \in Nat
  BY FS_CardinalityType
<1>5. seq \in [1..n -> S] /\ \A a, b \in 1..n : a < b => <<seq[a], seq[b]>> \in before
  BY <1>3 DEF Orders
<1>6. seq \in Seq(S) /\ Len(seq) = n /\ DOMAIN seq = 1..n
  BY <1>4, <1>5
<1>7. \A a, b \in 1..n : seq[a] = seq[b] => a = b
  <2>1. ASSUME NEW a \in 1..n, NEW b \in 1..n, a < b PROVE seq[a] # seq[b]
    BY <1>5, <2>1 DEF IsOrder
  <2>2. \A a, b \in 1..n : a < b \/ b < a \/ a = b
    BY <1>4
  <2>3. QED
    BY <2>1, <2>2
<1>8. IsInjective(seq)
  BY <1>6, <1>7 DEF IsInjective
<1>9. ToSet(seq) = S
  <2> DEFINE image == {seq[a] : a \in 1..n}
  <2>1. image \subseteq S /\ ToSet(seq) = image
    BY <1>5, <1>6 DEF ToSet
  <2>2. seq \in Bijection(1..n, image)
    BY <1>5, <1>7 DEF Bijection, Injection, Surjection, IsInjective
  <2>3. IsFiniteSet(1..n) /\ Cardinality(1..n) = n
    BY <1>4, FS_Interval
  <2>4. IsFiniteSet(image) /\ Cardinality(image) = n
    <3>1. ExistsBijection(1..n, image)
      BY <2>2 DEF ExistsBijection
    <3> HIDE DEF image
    <3>2. QED
      BY <2>3, <3>1, FS_Bijection
  <2>5. image = S
    BY <2>1, <2>4, FS_Subset
  <2>6. QED
    BY <2>1, <2>5
<1>10. QED
  BY <1>1, <1>5, <1>6, <1>8, <1>9

LEMMA AscendingIs ==
    ASSUME NEW S \in SUBSET Nat, IsFiniteSet(S)
    PROVE  LET seq == Ascending(S)
           IN  /\ seq \in Seq(S) /\ Len(seq) = Cardinality(S) /\ IsInjective(seq) /\ ToSet(seq) = S
<1> DEFINE before == {pair \in S \X S : pair[1] < pair[2]}
<1>1. \A x, y \in S : <<x, y>> \in before <=> x < y
  OBVIOUS
<1> HIDE DEF before
<1>2. IsOrder(S, before)
  BY <1>1 DEF IsOrder
<1>3. Ascending(S) = InOrder(S, before)
  BY DEF Ascending, before
<1>4. QED
  BY <1>2, <1>3, InOrderIs

\* Who may be asked for a position: peers, a finite number of them.
LEMMA WhoIs ==
    ASSUME NEW n \in Nat, NEW holders \in [1..n -> SUBSET Nat], NEW k \in Nat
    PROVE  Who(k, holders) \in SUBSET (1..n) /\ Cardinality(Who(k, holders)) \in Nat
<1>1. Who(k, holders) \in SUBSET (1..n)
  BY DEF Who
<1>2. IsFiniteSet(1..n)
  BY FS_Interval
<1>3. QED
  BY <1>1, <1>2, FS_Subset, FS_CardinalityType

LEMMA RankedIs ==
    ASSUME NEW missing \in SUBSET Nat, IsFiniteSet(missing),
           NEW n \in Nat, NEW holders \in [1..n -> SUBSET Nat]
    PROVE  LET seq == Ranked(missing, holders)
           IN  /\ IsOrder(missing, Rarer(missing, holders))
               /\ seq \in Seq(missing) /\ IsInjective(seq) /\ ToSet(seq) = missing
               /\ \A a, b \in 1..Len(seq) : a < b => <<seq[a], seq[b]>> \in Rarer(missing, holders)
<1> DEFINE rarity(k) == Cardinality(Who(k, holders))
           before == Rarer(missing, holders)
<1>1. \A x \in missing : rarity(x) \in Nat
  BY WhoIs
<1>2. \A x, y \in missing : <<x, y>> \in before <=>
            rarity(x) < rarity(y) \/ (rarity(x) = rarity(y) /\ x < y)
  BY DEF Rarer
<1> HIDE DEF rarity, before
<1>3. IsOrder(missing, before)
  BY <1>1, <1>2 DEF IsOrder
<1>4. Ranked(missing, holders) = InOrder(missing, before)
  BY DEF Ranked, before
<1>5. QED
  BY <1>3, <1>4, InOrderIs DEF before

NoPlan(holders) == [queues |-> [i \in DOMAIN holders |-> << >>], unheld |-> {}]

\* One position is planned after another.
LEMMA PlanGrows ==
    ASSUME NEW missing, NEW holders, Len(Ranked(missing, holders)) \in Nat
    PROVE  LET ranked == Ranked(missing, holders)
           IN  \E upto : /\ upto[0] = NoPlan(holders)
                         /\ \A k \in 1..Len(ranked) : upto[k] = Assign(upto[k - 1], ranked[k], holders)
                         /\ Plan(missing, holders) = upto[Len(ranked)]
<1>1. PICK ranked : ranked = Ranked(missing, holders)
  OBVIOUS
<1> DEFINE Upto(g, n) == g = [k \in 0..n |-> IF k = 0 THEN NoPlan(holders)
                                             ELSE Assign(g[k - 1], ranked[k], holders)]
           S == {n \in Nat : \E g : Upto(g, n)}
<1>2. 0 \in S
  <2>1. Upto([k \in 0..0 |-> NoPlan(holders)], 0)
    OBVIOUS
  <2>2. QED
    BY <2>1
<1>3. ASSUME NEW n \in Nat, n \in S PROVE n + 1 \in S
  <2>1. PICK g : Upto(g, n)
    BY <1>3
  <2> DEFINE h == [k \in 0..n + 1 |-> IF k = n + 1 THEN Assign(g[n], ranked[n + 1], holders) ELSE g[k]]
             body(k) == IF k = 0 THEN NoPlan(holders) ELSE Assign(h[k - 1], ranked[k], holders)
  <2>2. \A k \in 0..n + 1 : h[k] = body(k)
    <3> TAKE k \in 0..n + 1
    <3>1. CASE k = n + 1
      <4>1. h[k] = Assign(g[n], ranked[k], holders) /\ h[k - 1] = g[n] /\ k # 0
        BY <3>1
      <4>2. QED
        <5> HIDE DEF h
        <5> QED  BY <4>1
    <3>2. CASE k # n + 1
      <4>1. k \in 0..n /\ h[k] = g[k] /\ (k # 0 => k - 1 \in 0..n /\ h[k - 1] = g[k - 1])
        BY <3>2
      <4>2. g[k] = IF k = 0 THEN NoPlan(holders) ELSE Assign(g[k - 1], ranked[k], holders)
        BY <2>1, <4>1
      <4>3. QED
        <5> HIDE DEF h
        <5> QED  BY <4>1, <4>2
    <3>3. QED
      BY <3>1, <3>2
  <2>3. h = [k \in 0..n + 1 |-> h[k]]
    OBVIOUS
  <2>4. Upto(h, n + 1)
    <3> HIDE DEF h
    <3> QED  BY <2>2, <2>3
  <2>5. \E f : Upto(f, n + 1)
    <3> HIDE DEF h, Upto
    <3> QED  BY <2>4
  <2>6. QED
    <3> HIDE DEF Upto
    <3> QED  BY <2>5
<1>4. Len(ranked) \in S
  <2> HIDE DEF S
  <2> QED  BY <1>1, <1>2, <1>3, SetInduction
<1>5. Plan(missing, holders) = (CHOOSE upto : Upto(upto, Len(ranked)))[Len(ranked)]
  BY <1>1 DEF Plan, NoPlan
<1> DEFINE upto == CHOOSE upto : Upto(upto, Len(ranked))
<1>6. Upto(upto, Len(ranked))
  BY <1>4
<1>7. Plan(missing, holders) = upto[Len(ranked)]
  BY <1>5
<1> HIDE DEF upto
<1>8. upto[0] = NoPlan(holders)
  <2>1. 0 \in 0..Len(ranked)
    BY <1>1
  <2>2. QED
    BY <1>6, <2>1
<1>9. ASSUME NEW k \in 1..Len(ranked) PROVE upto[k] = Assign(upto[k - 1], ranked[k], holders)
  <2>1. k \in 0..Len(ranked) /\ k # 0
    BY <1>1
  <2>2. QED
    BY <1>6, <2>1
<1>10. QED
  BY <1>1, <1>7, <1>8, <1>9

\* Of the peers that may be asked, one has the fewest to bring, and the first such is taken.
LEMMA LeastLoadedIs ==
    ASSUME NEW n \in Nat, NEW who \in SUBSET (1..n), who # {},
           NEW queues, \A i \in 1..n : Len(queues[i]) \in Nat
    PROVE  /\ LeastLoaded(who, queues) \in who
           /\ \A j \in who : Len(queues[LeastLoaded(who, queues)]) <= Len(queues[j])
<1> DEFINE loads == {Len(queues[i]) : i \in who}
           Best(i) == \A j \in who : \/ Len(queues[i]) < Len(queues[j])
                                     \/ Len(queues[i]) = Len(queues[j]) /\ i <= j
<1>1. PICK load \in loads : \A other \in loads : load <= other
  <2>1. loads \subseteq Nat /\ loads # {}
    OBVIOUS
  <2> HIDE DEF loads
  <2>2. QED
    BY <2>1, LeastOfNaturals
<1> DEFINE least == {i \in who : Len(queues[i]) = load}
<1>2. PICK i \in least : \A j \in least : i <= j
  <2>0. who \subseteq Nat
    OBVIOUS
  <2>1. least \subseteq Nat
    BY <2>0
  <2>2. PICK i \in who : load = Len(queues[i])
    BY <1>1
  <2>3. i \in least
    BY <2>2
  <2>4. least # {}
    BY <2>3
  <2> HIDE DEF least
  <2>5. QED
    BY <2>1, <2>4, LeastOfNaturals
<1>3. Best(i)
  <2>1. ASSUME NEW j \in who PROVE \/ Len(queues[i]) < Len(queues[j])
                                   \/ Len(queues[i]) = Len(queues[j]) /\ i <= j
    <3>1. load <= Len(queues[j]) /\ Len(queues[i]) = load
      BY <1>1, <1>2
    <3>2. load \in Nat /\ Len(queues[j]) \in Nat
      BY <1>1
    <3>3. CASE load = Len(queues[j])
      BY <1>2, <3>1, <3>3
    <3>4. CASE load # Len(queues[j])
      BY <3>1, <3>2, <3>4
    <3>5. QED
      BY <3>3, <3>4
  <2>2. QED
    BY <2>1
<1>4. i \in who
  BY <1>2
<1> HIDE DEF least, loads
<1>5. LeastLoaded(who, queues) = CHOOSE x \in who : Best(x)
  BY DEF LeastLoaded
<1>6. LeastLoaded(who, queues) \in who /\ Best(LeastLoaded(who, queues))
  BY <1>3, <1>4, <1>5
<1>7. \A j \in who : Len(queues[j]) \in Nat
  OBVIOUS
<1>8. QED
  BY <1>6, <1>7
-----------------------------------------------------------------------------
(* Sequences as the sets of what they hold.                                  *)

LEMMA SeqIs ==
    ASSUME NEW S, NEW s \in Seq(S)
    PROVE  /\ Len(s) \in Nat /\ DOMAIN s = 1..Len(s) /\ \A a \in 1..Len(s) : s[a] \in S
           /\ ToSet(s) = {s[a] : a \in 1..Len(s)} /\ ToSet(s) \subseteq S
           /\ IsInjective(s) <=> \A a, b \in 1..Len(s) : s[a] = s[b] => a = b
BY DEF ToSet, IsInjective

LEMMA ToSetIs ==
    ASSUME NEW S, NEW s \in Seq(S), NEW n, Len(s) = n
    PROVE  ToSet(s) = {s[a] : a \in 1..n}
BY DEF ToSet

LEMMA EmptyIn == ASSUME NEW S PROVE << >> \in Seq(S)
OBVIOUS

LEMMA EmptyIs == ToSet(<< >>) = {} /\ IsInjective(<< >>) /\ Len(<< >>) = 0
BY DEF ToSet, IsInjective

LEMMA AppendIs ==
    ASSUME NEW S, NEW s \in Seq(S), NEW x \in S
    PROVE  /\ Append(s, x) \in Seq(S) /\ Len(Append(s, x)) = Len(s) + 1
           /\ Append(s, x)[Len(s) + 1] = x /\ \A a \in 1..Len(s) : Append(s, x)[a] = s[a]
           /\ ToSet(Append(s, x)) = ToSet(s) \cup {x}
           /\ IsInjective(s) /\ x \notin ToSet(s) => IsInjective(Append(s, x))
<1>1. PICK t : t = Append(s, x)
  OBVIOUS
<1>2. /\ t \in Seq(S) /\ Len(t) = Len(s) + 1 /\ Len(s) \in Nat
      /\ t[Len(s) + 1] = x /\ \A a \in 1..Len(s) : t[a] = s[a]
  BY <1>1
<1>3. ToSet(t) = {t[a] : a \in 1..Len(s) + 1} /\ ToSet(s) = {s[a] : a \in 1..Len(s)}
  BY <1>2, SeqIs
<1>4. \A a : a \in 1..Len(s) + 1 <=> a \in 1..Len(s) \/ a = Len(s) + 1
  BY <1>2
<1>5. ToSet(t) = ToSet(s) \cup {x}
  BY <1>2, <1>3, <1>4
<1>6. ASSUME IsInjective(s), x \notin ToSet(s) PROVE IsInjective(t)
  <2>1. \A a, b \in 1..Len(s) : s[a] = s[b] => a = b
    BY <1>6, SeqIs
  <2>2. \A a \in 1..Len(s) : s[a] # x
    BY <1>3, <1>6
  <2>3. \A a, b \in 1..Len(t) : t[a] = t[b] => a = b
    BY <1>2, <1>4, <2>1, <2>2
  <2>4. QED
    BY <1>2, <2>3, SeqIs
<1>7. QED
  BY <1>1, <1>2, <1>5, <1>6

LEMMA HeadTailIs ==
    ASSUME NEW S, NEW s \in Seq(S), s # << >>
    PROVE  /\ Head(s) \in S /\ Head(s) \in ToSet(s) /\ Tail(s) \in Seq(S)
           /\ ToSet(s) = {Head(s)} \cup ToSet(Tail(s))
           /\ IsInjective(s) => Head(s) \notin ToSet(Tail(s)) /\ IsInjective(Tail(s))
<1>1. PICK n \in Nat : Len(s) = n + 1
  <2>1. Len(s) \in Nat /\ Len(s) # 0
    BY EmptySeq
  <2>2. Len(s) - 1 \in Nat /\ Len(s) = (Len(s) - 1) + 1
    BY <2>1
  <2>3. QED
    BY <2>2
<1>2. PICK t : t = Tail(s)
  OBVIOUS
<1>3. /\ t \in Seq(S) /\ Len(t) = n /\ \A a \in 1..n : t[a] = s[a + 1]
      /\ Head(s) = s[1] /\ 1 \in 1..n + 1 /\ s[1] \in S
  BY <1>1, <1>2
<1>4. ToSet(s) = {s[a] : a \in 1..n + 1} /\ ToSet(t) = {t[a] : a \in 1..n}
  <2>1. PICK k : k = n + 1
    OBVIOUS
  <2>2. ToSet(s) = {s[a] : a \in 1..k}
    BY <1>1, <2>1, ToSetIs
  <2>3. ToSet(t) = {t[a] : a \in 1..n}
    BY <1>3, ToSetIs
  <2>4. QED
    BY <2>1, <2>2, <2>3
<1>5. \A a \in 1..n : a + 1 \in 1..n + 1 /\ a + 1 # 1
  OBVIOUS
<1>6. \A a \in 1..n + 1 : a = 1 \/ (a - 1 \in 1..n /\ a = (a - 1) + 1)
  OBVIOUS
<1>7. ToSet(s) = {s[1]} \cup ToSet(t)
  <2>1. ToSet(s) \subseteq {s[1]} \cup ToSet(t)
    <3>1. ASSUME NEW a \in 1..n + 1 PROVE s[a] \in {s[1]} \cup ToSet(t)
      <4>1. CASE a = 1
        BY <4>1
      <4>2. CASE a - 1 \in 1..n /\ a = (a - 1) + 1
        BY <1>3, <1>4, <4>2
      <4>3. QED
        BY <1>6, <4>1, <4>2
    <3>2. QED
      BY <1>4, <3>1
  <2>2. ToSet(t) \subseteq ToSet(s)
    BY <1>3, <1>4, <1>5
  <2>3. s[1] \in ToSet(s)
    BY <1>3, <1>4
  <2>4. QED
    BY <2>1, <2>2, <2>3
<1>8. ASSUME IsInjective(s) PROVE s[1] \notin ToSet(t) /\ IsInjective(t)
  <2>1. \A a, b \in 1..n + 1 : s[a] = s[b] => a = b
    BY <1>1, <1>8, SeqIs
  <2>2. \A a \in 1..n : s[1] # t[a]
    BY <1>3, <1>5, <2>1
  <2>3. \A a, b \in 1..n : t[a] = t[b] => a = b
    <3>1. ASSUME NEW a \in 1..n, NEW b \in 1..n, t[a] = t[b] PROVE a + 1 = b + 1
      BY <1>3, <1>5, <2>1, <3>1
    <3>2. QED
      BY <3>1
  <2>4. QED
    BY <1>3, <1>4, <2>2, <2>3, SeqIs
<1>9. QED
  BY <1>2, <1>3, <1>7, <1>8

LEMMA ConcatIs ==
    ASSUME NEW S, NEW s \in Seq(S), NEW t \in Seq(S)
    PROVE  /\ s \o t \in Seq(S) /\ ToSet(s \o t) = ToSet(s) \cup ToSet(t)
           /\ IsInjective(s) /\ IsInjective(t) /\ ToSet(s) \cap ToSet(t) = {} => IsInjective(s \o t)
<1>1. PICK u : u = s \o t
  OBVIOUS
<1>2. PICK m, n : m = Len(s) /\ n = Len(t)
  OBVIOUS
<1>3. /\ u \in Seq(S) /\ Len(u) = m + n /\ m \in Nat /\ n \in Nat
      /\ \A a \in 1..m : u[a] = s[a]
      /\ \A a \in (m + 1)..(m + n) : u[a] = t[a - m]
  BY <1>1, <1>2
<1>4. \A a \in 1..n : a + m \in 1..m + n /\ u[a + m] = t[a]
  BY <1>3
<1>5. /\ \A a \in 1..m : a \in 1..m + n
      /\ \A a \in 1..m + n : a \in 1..m \/ (a - m \in 1..n /\ a \in (m + 1)..(m + n))
  BY <1>3
<1>6. ToSet(s) = {s[a] : a \in 1..m} /\ ToSet(t) = {t[a] : a \in 1..n} /\ ToSet(u) = {u[a] : a \in 1..m + n}
  BY <1>2, <1>3, ToSetIs
<1>7. ToSet(u) = ToSet(s) \cup ToSet(t)
  <2>1. ASSUME NEW a \in 1..m + n PROVE u[a] \in ToSet(s) \cup ToSet(t)
    BY <1>3, <1>5, <1>6
  <2>2. \A a \in 1..m : s[a] \in ToSet(u)
    BY <1>3, <1>5, <1>6
  <2>3. \A a \in 1..n : t[a] \in ToSet(u)
    BY <1>4, <1>6
  <2>4. QED
    BY <1>6, <2>1, <2>2, <2>3
<1>8. ASSUME IsInjective(s), IsInjective(t), ToSet(s) \cap ToSet(t) = {} PROVE IsInjective(u)
  <2>1. /\ \A a, b \in 1..m : s[a] = s[b] => a = b
        /\ \A a, b \in 1..n : t[a] = t[b] => a = b
    BY <1>2, <1>8, SeqIs
  <2>2. \A a \in 1..m, b \in 1..n : s[a] # t[b]
    BY <1>6, <1>8
  <2>3. ASSUME NEW a \in 1..m + n, NEW b \in 1..m + n, u[a] = u[b] PROVE a = b
    <3>1. CASE a \in 1..m /\ b \in 1..m
      BY <1>3, <2>1, <2>3, <3>1
    <3>2. CASE a \in 1..m /\ b \notin 1..m
      BY <1>3, <1>5, <2>2, <2>3, <3>2
    <3>3. CASE a \notin 1..m /\ b \in 1..m
      BY <1>3, <1>5, <2>2, <2>3, <3>3
    <3>4. CASE a \notin 1..m /\ b \notin 1..m
      <4>1. a - m \in 1..n /\ b - m \in 1..n /\ t[a - m] = t[b - m]
        BY <1>3, <1>5, <2>3, <3>4
      <4>2. a - m = b - m
        BY <2>1, <4>1
      <4>3. QED
        BY <1>3, <4>2
    <3>5. QED
      BY <3>1, <3>2, <3>3, <3>4
  <2>4. QED
    BY <1>3, <2>3, SeqIs
<1>9. QED
  BY <1>1, <1>3, <1>7, <1>8

\* FlattenSeq holds what its parts hold.
LEMMA FlattenIs ==
    ASSUME NEW S, NEW seqs \in Seq(Seq(S))
    PROVE  /\ FlattenSeq(seqs) \in Seq(S)
           /\ ToSet(FlattenSeq(seqs)) = UNION {ToSet(seqs[i]) : i \in 1..Len(seqs)}
<1>1. PICK n \in Nat : n = Len(seqs)
  OBVIOUS
<1>2. DOMAIN seqs = 1..n /\ \A i \in 1..n : seqs[i] \in Seq(S)
  BY <1>1
<1>3. CASE n = 0
  <2>1. seqs = << >> /\ 1..Len(seqs) = {}
    <3>1. Len(seqs) = 0
      BY <1>1, <1>3
    <3>2. seqs = << >>
      BY <3>1
    <3>3. QED
      BY <3>1, <3>2
  <2>2. FlattenSeq(seqs) = seqs
    BY <1>1, <1>3 DEF FlattenSeq
  <2>3. << >> \in Seq(S) /\ ToSet(<< >>) = {}
    BY EmptyIs
  <2>4. UNION {ToSet(seqs[i]) : i \in {}} = {}
    OBVIOUS
  <2>5. QED
    BY <2>1, <2>2, <2>3, <2>4
<1>4. CASE n # 0
  <2> DEFINE Flat(f, k) == f = [i \in 1..k |-> IF i = 1 THEN seqs[i] ELSE f[i - 1] \o seqs[i]]
             K == {k \in Nat : \E f : Flat(f, k)}
  <2>1. 0 \in K
    <3>1. 1..0 = {}
      OBVIOUS
    <3>2. Flat([i \in 1..0 |-> << >>], 0)
      BY <3>1
    <3>3. QED
      BY <3>2
  <2>2. ASSUME NEW k \in Nat, k \in K PROVE k + 1 \in K
    <3>1. PICK g : Flat(g, k)
      BY <2>2
    <3> DEFINE h == [i \in 1..k + 1 |-> IF i = k + 1
                                         THEN IF i = 1 THEN seqs[i] ELSE g[k] \o seqs[i]
                                         ELSE g[i]]
               body(i) == IF i = 1 THEN seqs[i] ELSE h[i - 1] \o seqs[i]
    <3>2. \A i \in 1..k + 1 : h[i] = body(i)
      <4> TAKE i \in 1..k + 1
      <4>1. CASE i = k + 1
        <5>1. /\ h[i] = IF i = 1 THEN seqs[i] ELSE g[k] \o seqs[i]
              /\ i # 1 => i - 1 \in 1..k + 1 /\ i - 1 # k + 1 /\ i - 1 = k
          BY <4>1
        <5>2. i # 1 => h[i - 1] = g[k]
          BY <5>1
        <5>3. QED
          <6> HIDE DEF h
          <6> QED  BY <5>1, <5>2
      <4>2. CASE i # k + 1
        <5>1. i \in 1..k /\ h[i] = g[i] /\ (i # 1 => i - 1 \in 1..k /\ h[i - 1] = g[i - 1])
          BY <4>2
        <5>2. g[i] = IF i = 1 THEN seqs[i] ELSE g[i - 1] \o seqs[i]
          BY <3>1, <5>1
        <5>3. QED
          <6> HIDE DEF h
          <6> QED  BY <5>1, <5>2
      <4>3. QED
        BY <4>1, <4>2
    <3>3. h = [i \in 1..k + 1 |-> h[i]]
      OBVIOUS
    <3>4. Flat(h, k + 1)
      <4> HIDE DEF h
      <4> QED  BY <3>2, <3>3
    <3>5. QED
      <4> HIDE DEF h, Flat
      <4> QED  BY <3>4
  <2>3. \E f : Flat(f, n)
    <3>1. n \in K
      <4> HIDE DEF K
      <4> QED  BY <2>1, <2>2, SetInduction
    <3>2. QED
      <4> HIDE DEF Flat
      <4> QED  BY <3>1
  <2>4. FlattenSeq(seqs) = (CHOOSE f : Flat(f, n))[n]
    BY <1>1, <1>4 DEF FlattenSeq
  <2>5. PICK f : Flat(f, n) /\ FlattenSeq(seqs) = f[n]
    <3> HIDE DEF Flat
    <3> QED  BY <2>3, <2>4
  <2> DEFINE Held(k) == UNION {ToSet(seqs[i]) : i \in 1..k}
             J == {k \in Nat : k \in 1..n => f[k] \in Seq(S) /\ ToSet(f[k]) = Held(k)}
  <2>6. 0 \in J
    OBVIOUS
  <2>7. ASSUME NEW k \in Nat, k \in J PROVE k + 1 \in J
    <3> SUFFICES ASSUME k + 1 \in 1..n PROVE f[k + 1] \in Seq(S) /\ ToSet(f[k + 1]) = Held(k + 1)
      OBVIOUS
    <3>1. CASE k = 0
      <4>1. k + 1 = 1 /\ 1 \in 1..n /\ 1..1 = {1}
        BY <3>1
      <4>2. f[1] = seqs[1]
        BY <2>5, <4>1
      <4>3. Held(1) = ToSet(seqs[1])
        BY <4>1
      <4>4. QED
        <5> HIDE DEF Held
        <5> QED  BY <1>2, <4>1, <4>2, <4>3
    <3>2. CASE k # 0
      <4>1. k \in 1..n /\ k + 1 # 1 /\ (k + 1) - 1 = k
        BY <3>2
      <4>2. f[k + 1] = f[k] \o seqs[k + 1]
        BY <2>5, <4>1
      <4>3. f[k] \in Seq(S) /\ ToSet(f[k]) = Held(k)
        BY <2>7, <4>1
      <4>4. f[k + 1] \in Seq(S) /\ ToSet(f[k + 1]) = ToSet(f[k]) \cup ToSet(seqs[k + 1])
        BY <1>2, <4>2, <4>3, ConcatIs
      <4>5. \A i : i \in 1..k + 1 <=> i \in 1..k \/ i = k + 1
        OBVIOUS
      <4>6. Held(k + 1) = Held(k) \cup ToSet(seqs[k + 1])
        BY <4>5
      <4>7. QED
        <5> HIDE DEF Held
        <5> QED  BY <4>3, <4>4, <4>6
    <3>3. QED
      BY <3>1, <3>2
  <2>8. n \in J
    <3> HIDE DEF J
    <3> QED  BY <2>6, <2>7, SetInduction
  <2>9. n \in 1..n
    BY <1>4
  <2>10. f[n] \in Seq(S) /\ ToSet(f[n]) = Held(n)
    <3> HIDE DEF Held
    <3> QED  BY <2>8, <2>9
  <2>11. QED
    BY <1>1, <2>5, <2>10
<1>5. QED
  BY <1>3, <1>4

-----------------------------------------------------------------------------
(* A plan, part of the way: done has been planned.                            *)

PartialPlan(plan, done, n, holders, before) ==
    /\ plan = [queues |-> plan.queues, unheld |-> plan.unheld]
    /\ plan.queues \in [1..n -> Seq(done)]
    /\ plan.unheld = {k \in done : Who(k, holders) = {}}
    /\ \A k \in done : Who(k, holders) # {} => \E i \in 1..n : k \in ToSet(plan.queues[i])
    /\ \A k : \A i, j \in 1..n :
        k \in ToSet(plan.queues[i]) /\ k \in ToSet(plan.queues[j]) => i = j
    /\ \A i \in 1..n : LET queue == plan.queues[i] IN
        /\ ToSet(queue) \subseteq holders[i]
        /\ \A a, b \in 1..Len(queue) : a < b => <<queue[a], queue[b]>> \in before
        /\ \A a \in 1..Len(queue) : \A j \in Who(queue[a], holders) : Len(plan.queues[j]) >= a - 1

\* One more position is planned as the ones before it.
LEMMA AssignIs ==
    ASSUME NEW n \in Nat, NEW holders \in [1..n -> SUBSET Nat], NEW before,
           NEW plan, NEW done, PartialPlan(plan, done, n, holders, before),
           NEW x \in Nat \ done, \A k \in done : <<k, x>> \in before
    PROVE  PartialPlan(Assign(plan, x, holders), done \cup {x}, n, holders, before)
<1>1. PICK queues, unheld, who : queues = plan.queues /\ unheld = plan.unheld /\ who = Who(x, holders)
  OBVIOUS
<1>2. plan = [queues |-> queues, unheld |-> unheld] /\ queues \in [1..n -> Seq(done)]
  BY <1>1 DEF PartialPlan
<1>3. \A i \in 1..n : queues[i] \in Seq(done) /\ queues[i] \in Seq(done \cup {x})
  BY <1>2, SeqMonotonic
<1>4. who \in SUBSET (1..n) /\ who = {i \in 1..n : x \in holders[i]}
  BY <1>1, WhoIs DEF Who
<1>5. CASE who = {}
  <2>1. PICK more : more = [queues |-> queues, unheld |-> unheld \cup {x}]
    OBVIOUS
  <2>2. Assign(plan, x, holders) = more /\ more.queues = queues /\ more.unheld = unheld \cup {x}
    <3>1. Assign(plan, x, holders) = [plan EXCEPT !.unheld = unheld \cup {x}]
      BY <1>1, <1>5 DEF Assign
    <3>2. QED
      BY <1>2, <2>1, <3>1
  <2>3. queues \in [1..n -> Seq(done \cup {x})]
    BY <1>2, <1>3
  <2>4. more.unheld = {k \in done \cup {x} : Who(k, holders) = {}}
    BY <1>1, <1>5, <2>2 DEF PartialPlan
  <2>5. PartialPlan(more, done \cup {x}, n, holders, before)
    BY <1>1, <1>5, <2>1, <2>2, <2>3, <2>4 DEF PartialPlan
  <2>6. QED
    BY <2>2, <2>5
<1>6. CASE who # {}
  <2>1. PICK least : least = LeastLoaded(who, queues)
    OBVIOUS
  <2>2. \A i \in 1..n : Len(queues[i]) \in Nat
    BY <1>3
  <2>3. least \in who /\ \A j \in who : Len(queues[least]) <= Len(queues[j])
    BY <1>4, <1>6, <2>1, <2>2, LeastLoadedIs
  <2>4. PICK longer : longer = Append(queues[least], x)
    OBVIOUS
  <2>5. PICK filled : filled = [queues EXCEPT ![least] = longer]
    OBVIOUS
  <2>6. PICK more : more = [queues |-> filled, unheld |-> unheld]
    OBVIOUS
  <2>7. Assign(plan, x, holders) = more /\ more.queues = filled /\ more.unheld = unheld
    <3>1. Assign(plan, x, holders) = [plan EXCEPT !.queues = filled]
      BY <1>1, <1>6, <2>1, <2>4, <2>5 DEF Assign
    <3>2. QED
      BY <1>2, <2>6, <3>1
  <2>8. least \in 1..n /\ x \in holders[least]
    BY <1>4, <2>3
  <2>9. /\ longer \in Seq(done \cup {x}) /\ Len(longer) = Len(queues[least]) + 1
        /\ longer[Len(queues[least]) + 1] = x
        /\ \A a \in 1..Len(queues[least]) : longer[a] = queues[least][a]
        /\ ToSet(longer) = ToSet(queues[least]) \cup {x}
    <3>1. PICK s \in Seq(done \cup {x}) : s = queues[least]
      BY <1>3, <2>8
    <3>2. x \in done \cup {x} /\ longer = Append(s, x)
      BY <2>4, <3>1
    <3>3. QED
      BY <3>1, <3>2, AppendIs
  <2>10. filled[least] = longer /\ \A i \in 1..n : i # least => filled[i] = queues[i]
    BY <1>2, <2>5, <2>8
  <2>11. filled \in [1..n -> Seq(done \cup {x})]
    BY <1>2, <1>3, <2>5, <2>9
  <2>12. \A i \in 1..n : /\ ToSet(filled[i]) = ToSet(queues[i]) \cup (IF i = least THEN {x} ELSE {})
                         /\ Len(filled[i]) \in Nat /\ Len(filled[i]) >= Len(queues[i])
    BY <2>2, <2>8, <2>9, <2>10
  <2>13. \A i \in 1..n : ToSet(queues[i]) \subseteq done
    BY <1>3, SeqIs
  <2>14. more.unheld = {k \in done \cup {x} : Who(k, holders) = {}}
    BY <1>1, <1>6, <2>7 DEF PartialPlan
  <2>15. \A k \in done \cup {x} : Who(k, holders) # {} => \E i \in 1..n : k \in ToSet(filled[i])
    <3>1. x \in ToSet(filled[least])
      BY <2>8, <2>12
    <3>2. \A k \in done : Who(k, holders) # {} => \E i \in 1..n : k \in ToSet(queues[i])
      BY <1>1 DEF PartialPlan
    <3>3. QED
      BY <2>8, <2>12, <3>1, <3>2
  <2>16. \A k : \A i, j \in 1..n : k \in ToSet(filled[i]) /\ k \in ToSet(filled[j]) => i = j
    <3>1. ASSUME NEW k, NEW i \in 1..n, NEW j \in 1..n, k \in ToSet(filled[i]), k \in ToSet(filled[j])
          PROVE  i = j
      <4>1. CASE k = x
        BY <2>12, <2>13, <3>1, <4>1
      <4>2. CASE k # x
        <5>1. k \in ToSet(queues[i]) /\ k \in ToSet(queues[j])
          BY <2>12, <3>1, <4>2
        <5>2. QED
          BY <1>1, <5>1 DEF PartialPlan
      <4>3. QED
        BY <4>1, <4>2
    <3>2. QED
      BY <3>1
  <2>17. \A i \in 1..n : ToSet(filled[i]) \subseteq holders[i]
    <3>1. \A i \in 1..n : ToSet(queues[i]) \subseteq holders[i]
      BY <1>1 DEF PartialPlan
    <3>2. QED
      BY <2>8, <2>12, <3>1
  <2>18. ASSUME NEW i \in 1..n, NEW a \in 1..Len(filled[i]), NEW b \in 1..Len(filled[i]), a < b
         PROVE  <<filled[i][a], filled[i][b]>> \in before
    <3>1. \A c, d \in 1..Len(queues[i]) : c < d => <<queues[i][c], queues[i][d]>> \in before
      BY <1>1 DEF PartialPlan
    <3>2. CASE i # least
      BY <2>10, <2>18, <3>1, <3>2
    <3>3. CASE i = least
      <4>1. filled[i] = longer /\ a \in 1..Len(queues[i])
            /\ (b \in 1..Len(queues[i]) \/ b = Len(queues[i]) + 1)
        BY <2>2, <2>9, <2>10, <2>18, <3>3
      <4>2. filled[i][a] = queues[i][a] /\ queues[i][a] \in done
        BY <1>3, <2>9, <3>3, <4>1
      <4>3. CASE b \in 1..Len(queues[i])
        BY <2>9, <2>18, <3>1, <3>3, <4>1, <4>2, <4>3
      <4>4. CASE b = Len(queues[i]) + 1
        BY <2>9, <3>3, <4>1, <4>2, <4>4
      <4>5. QED
        BY <4>1, <4>3, <4>4
    <3>4. QED
      BY <3>2, <3>3
  <2>19. ASSUME NEW i \in 1..n, NEW a \in 1..Len(filled[i]), NEW j \in Who(filled[i][a], holders)
         PROVE  Len(filled[j]) >= a - 1
    <3>0. j \in 1..n /\ Len(filled[j]) \in Nat /\ Len(filled[j]) >= Len(queues[j]) /\ Len(queues[j]) \in Nat
      <4>1. j \in DOMAIN holders
        BY <2>19 DEF Who
      <4>2. QED
        BY <2>2, <2>12, <4>1
    <3>1. \A c \in 1..Len(queues[i]) : \A l \in Who(queues[i][c], holders) : Len(queues[l]) >= c - 1
      BY <1>1 DEF PartialPlan
    <3>2. CASE a \in 1..Len(queues[i])
      <4>1. filled[i][a] = queues[i][a]
        BY <2>9, <2>10, <3>2
      <4>2. Len(queues[j]) >= a - 1
        BY <2>19, <3>1, <3>2, <4>1
      <4>3. QED
        BY <3>0, <4>2
    <3>3. CASE a \notin 1..Len(queues[i])
      <4>1. i = least /\ a = Len(queues[least]) + 1 /\ filled[i][a] = x
        BY <2>2, <2>9, <2>10, <2>19, <3>3
      <4>2. j \in who /\ Len(queues[least]) <= Len(queues[j])
        BY <1>1, <2>3, <2>19, <4>1
      <4>3. Len(queues[least]) \in Nat
        BY <2>2, <2>8
      <4>4. QED
        BY <3>0, <4>1, <4>2, <4>3
    <3>4. QED
      BY <3>2, <3>3
  <2>20. PartialPlan(more, done \cup {x}, n, holders, before)
    BY <2>6, <2>7, <2>11, <2>14, <2>15, <2>16, <2>17, <2>18, <2>19 DEF PartialPlan
  <2>21. QED
    BY <2>7, <2>20
<1>7. QED
  BY <1>5, <1>6

\* The whole plan.
LEMMA PlanIs ==
    ASSUME NEW missing \in SUBSET Nat, IsFiniteSet(missing),
           NEW n \in Nat, NEW holders \in [1..n -> SUBSET Nat]
    PROVE  PartialPlan(Plan(missing, holders), missing, n, holders, Rarer(missing, holders))
<1>1. PICK ranked, before : ranked = Ranked(missing, holders) /\ before = Rarer(missing, holders)
  OBVIOUS
<1>2. /\ IsOrder(missing, before) /\ ranked \in Seq(missing) /\ IsInjective(ranked)
      /\ ToSet(ranked) = missing
      /\ \A a, b \in 1..Len(ranked) : a < b => <<ranked[a], ranked[b]>> \in before
  BY <1>1, RankedIs
<1>3. Len(ranked) \in Nat /\ (\A a \in 1..Len(ranked) : ranked[a] \in missing)
      /\ missing = {ranked[a] : a \in 1..Len(ranked)}
      /\ \A a, b \in 1..Len(ranked) : ranked[a] = ranked[b] => a = b
  <2>1. /\ Len(ranked) \in Nat /\ \A a \in 1..Len(ranked) : ranked[a] \in missing
        /\ \A a, b \in 1..Len(ranked) : ranked[a] = ranked[b] => a = b
    BY <1>2, SeqIs
  <2>2. ToSet(ranked) = {ranked[a] : a \in 1..Len(ranked)}
    BY <1>2, ToSetIs
  <2>3. QED
    BY <1>2, <2>1, <2>2
<1>4. PICK upto : /\ upto[0] = NoPlan(holders)
                  /\ \A k \in 1..Len(ranked) : upto[k] = Assign(upto[k - 1], ranked[k], holders)
                  /\ Plan(missing, holders) = upto[Len(ranked)]
  <2>1. Len(Ranked(missing, holders)) \in Nat
    BY <1>1, <1>3
  <2>2. PICK upto :
          /\ upto[0] = NoPlan(holders)
          /\ \A k \in 1..Len(Ranked(missing, holders)) :
                upto[k] = Assign(upto[k - 1], Ranked(missing, holders)[k], holders)
          /\ Plan(missing, holders) = upto[Len(Ranked(missing, holders))]
    BY <2>1, PlanGrows
  <2>3. QED
    BY <1>1, <2>2
<1> DEFINE Done(k) == {ranked[a] : a \in 1..k}
           N == {k \in Nat : k <= Len(ranked) => PartialPlan(upto[k], Done(k), n, holders, before)}
<1>5. 0 \in N
  <2>1. Done(0) = {}
    OBVIOUS
  <2>2. PICK none : none = [i \in 1..n |-> << >>]
    OBVIOUS
  <2>3. none \in [1..n -> Seq({})] /\ \A i \in 1..n : none[i] = << >>
    BY <2>2
  <2>4. upto[0] = [queues |-> none, unheld |-> {}]
    BY <1>4, <2>2 DEF NoPlan
  <2>5. upto[0].queues = none /\ upto[0].unheld = {}
    BY <2>4
  <2>6. 1..0 = {}
    OBVIOUS
  <2>7. PartialPlan(upto[0], {}, n, holders, before)
    BY <2>3, <2>4, <2>5, <2>6, EmptyIs DEF PartialPlan
  <2>8. QED
    BY <2>1, <2>7
<1>6. ASSUME NEW k \in Nat, k \in N PROVE k + 1 \in N
  <2> SUFFICES ASSUME k + 1 <= Len(ranked)
               PROVE  PartialPlan(upto[k + 1], Done(k + 1), n, holders, before)
    OBVIOUS
  <2>1. k + 1 \in 1..Len(ranked) /\ k <= Len(ranked) /\ (k + 1) - 1 = k
    BY <1>3
  <2>2. PartialPlan(upto[k], Done(k), n, holders, before)
    BY <1>6, <2>1
  <2>3. PICK x : x = ranked[k + 1]
    OBVIOUS
  <2>4. upto[k + 1] = Assign(upto[k], x, holders)
    BY <1>4, <2>1, <2>3
  <2>5. \A a \in 1..k : a \in 1..Len(ranked) /\ a < k + 1
    BY <1>3, <2>1
  <2>6. x \in Nat \ Done(k)
    BY <1>3, <2>1, <2>3, <2>5
  <2>7. \A y \in Done(k) : <<y, x>> \in before
    BY <1>2, <2>1, <2>3, <2>5
  <2>8. \A a : a \in 1..k + 1 <=> a \in 1..k \/ a = k + 1
    OBVIOUS
  <2>9. Done(k + 1) = Done(k) \cup {x}
    BY <2>3, <2>8
  <2>10. PartialPlan(Assign(upto[k], x, holders), Done(k) \cup {x}, n, holders, before)
    <3> HIDE DEF Done
    <3> QED  BY <2>2, <2>6, <2>7, AssignIs
  <2>11. QED
    BY <2>4, <2>9, <2>10
<1>7. Len(ranked) \in N
  <2> HIDE DEF N
  <2> QED  BY <1>3, <1>5, <1>6, SetInduction
<1>8. Done(Len(ranked)) = missing
  BY <1>3
<1>9. QED
  <2> HIDE DEF Done
  <2>1. PartialPlan(upto[Len(ranked)], Done(Len(ranked)), n, holders, before)
    BY <1>3, <1>7
  <2>2. QED
    BY <1>1, <1>4, <1>8, <2>1

(* However many peers claim whatever they like of a file of any size, the plan is     *)
(* whole (swarm.rs).                                                         *)
THEOREM EveryPlanIsWhole ==
    ASSUME NEW missing \in SUBSET Nat, IsFiniteSet(missing),
           NEW n \in Nat, NEW holders \in [1..n -> SUBSET Nat]
    PROVE  PlanIsWhole(missing, holders)
<1>1. PICK plan : plan = Plan(missing, holders)
  OBVIOUS
<1>2. PartialPlan(plan, missing, n, holders, Rarer(missing, holders))
  BY <1>1, PlanIs
<1>3. \A i \in 1..n : plan.queues[i] \in Seq(missing)
  BY <1>2 DEF PartialPlan
<1>4. \A i \in 1..n : DOMAIN plan.queues[i] = 1..Len(plan.queues[i]) /\ ToSet(plan.queues[i]) \subseteq missing
  BY <1>3, SeqIs
<1>5. DOMAIN holders = 1..n
  OBVIOUS
<1>6. plan.unheld = {k \in missing : Who(k, holders) = {}}
  BY <1>2 DEF PartialPlan
<1>7. \A k \in missing \ plan.unheld : \E i \in DOMAIN holders :
        k \in ToSet(plan.queues[i]) /\ \A j \in DOMAIN holders : k \in ToSet(plan.queues[j]) => j = i
  BY <1>2, <1>5, <1>6 DEF PartialPlan
<1>8. \A i \in DOMAIN holders :
        /\ ToSet(plan.queues[i]) \subseteq holders[i] \cap missing
        /\ \A a, b \in DOMAIN plan.queues[i] : a < b =>
            <<plan.queues[i][a], plan.queues[i][b]>> \in Rarer(missing, holders)
        /\ \A a \in DOMAIN plan.queues[i] :
            \A j \in Who(plan.queues[i][a], holders) : Len(plan.queues[j]) >= a - 1
  BY <1>2, <1>4, <1>5 DEF PartialPlan
<1>9. QED
  BY <1>1, <1>6, <1>7, <1>8 DEF PlanIsWhole

(* The plan, over every claim of up to three peers on three chunks: one instance of  *)
(* EveryPlanIsWhole (swarm.rs).                                              *)
THEOREM PlansStayWhole == SwarmSpec => []PlansAreWhole
<1>1. PlansAreWhole
  <2>1. \A n \in 0..3, missing \in SUBSET (0..2) : \A holders \in [1..n -> SUBSET (0..2)] :
            PlanIsWhole(missing, holders)
    <3> TAKE n \in 0..3, missing \in SUBSET (0..2)
    <3> TAKE holders \in [1..n -> SUBSET (0..2)]
    <3>1. IsFiniteSet(0..2)
      <4>1. 0 \in Int /\ 2 \in Int
        OBVIOUS
      <4>2. QED
        BY <4>1, FS_Interval
    <3>2. n \in Nat /\ missing \in SUBSET Nat /\ holders \in [1..n -> SUBSET Nat]
      OBVIOUS
    <3>3. IsFiniteSet(missing)
      BY <3>1, FS_Subset
    <3>4. QED
      BY <3>2, <3>3, EveryPlanIsWhole
  <2>2. QED
    BY <2>1 DEF PlansAreWhole
<1>2. QED
  BY <1>1, PTL
-----------------------------------------------------------------------------
(* The lanes of a tab and its downloads: agent-share-wasm-client's lib.rs.   *)

Rounds == {"answered", "refused", "attached", "unanswered"}
Candidates == {"channel", "waiting", "offer", "conceded"}
Stages == {"connect", "idle", "unmounted", "gather", "dialling", "draining", "home", "done", "failed"}
LaneTasks ==
    [pc : Stages \cup Rounds \cup Candidates, to : Remotes, left : Seq(Peers),
     offers : 0..2, waited : 0..2, missing : SUBSET Positions,
     queues : Seq(Seq(Positions)), got : SUBSET Positions, missed : Seq(Seq(Positions)),
     rest : Seq(Positions)]

LaneShapes ==
    /\ native \in BOOLEAN /\ joined \in BOOLEAN /\ dialled \in BOOLEAN
    /\ near \in [Remotes -> SUBSET {"mount", "mesh"}] /\ far \in [Remotes -> BOOLEAN]
    /\ whole \in [Remotes -> {"none", "mount", "mesh"}]
    /\ conn \in [Remotes -> {"none", "up", "silent", "closed"}]
    /\ ice \in {"connected", "disconnected", "failed", "detached"} /\ since \in 0..Grace + 1
    /\ stalled \subseteq Remotes /\ troubles \in 0..MaxTroubles /\ fetches \in 0..MaxFetches
TaskShapes ==
    /\ task \in LaneTasks /\ swarm \in Seq(Peers) /\ store \subseteq Positions
    /\ task.got \subseteq task.missing

\* Both ends hold a channel that is whole.
LanesMatch == \A p \in Remotes : whole[p] # "none" => whole[p] \in near[p] /\ far[p]

\* A native mount dials its home and no one else.
MountsAlone == native => task.to = Home /\ task.pc \in {"connect", "idle", "unmounted"} \cup Rounds

\* A candidate is dialled once: it is at hand, left, or joined.
Trying == task.pc \in Candidates \/ (task.pc \in Rounds /\ task.to \in Peers)
OneDialEach ==
    /\ task.pc \in Candidates => task.to \in Peers
    /\ task.pc = "connect" => task.to = Home
    /\ task.to \in Peers \/ task.pc = "dialling" => dialled
    /\ ~dialled => swarm = << >>
    /\ task.pc = "gather" => task.left = << >>
    /\ IsInjective(swarm) /\ IsInjective(task.left) /\ ToSet(swarm) \cap ToSet(task.left) = {}
    /\ Trying => task.to \notin ToSet(swarm) \cup ToSet(task.left)

\* A wait is not given up over a channel of the mount's own.
ChannelsAreTaken == task.pc = "conceded" => whole[task.to] # "mount"

\* The chunks of a download, from its first candidate to the home peer.
Seeking == Trying \/ task.pc \in {"gather", "dialling"}
NothingForgotten ==
    /\ Seeking => task.got = {}
    /\ Seeking \/ task.pc = "draining" => store = Positions \ task.missing
    /\ task.pc = "draining" => Len(task.queues) = Len(swarm) /\ Len(task.missed) = Len(swarm)
    /\ NothingIsLost
    /\ task.pc = "home" => Positions \subseteq store \cup ToSet(task.rest)
    /\ task.pc = "done" => store = Positions

SwarmInv ==
    /\ LaneShapes /\ LanesMatch /\ TaskShapes /\ MountsAlone /\ OneDialEach
    /\ ChannelsAreTaken /\ NothingForgotten

LEMMA LeastOfTwo ==
    ASSUME NEW a \in Nat, NEW b \in Nat
    PROVE  Min({a, b}) \in {a, b} /\ Min({a, b}) <= a /\ Min({a, b}) <= b
<1>1. \E x \in {a, b} : \A y \in {a, b} : x <= y
  <2>1. CASE a <= b
    BY <2>1
  <2>2. CASE b <= a
    BY <2>2
  <2>3. QED
    BY <2>1, <2>2
<1>2. Min({a, b}) \in {a, b} /\ \A y \in {a, b} : Min({a, b}) <= y
  BY <1>1 DEF Min
<1>3. QED
  BY <1>2

\* What no lane changes.
LEMMA TaskRests ==
    ASSUME SwarmInv, UNCHANGED <<native, dialled, swarm, task, store>>
    PROVE  TaskShapes' /\ MountsAlone' /\ OneDialEach' /\ NothingForgotten'
<1>1. TaskShapes' /\ MountsAlone' /\ OneDialEach'
  BY DEF SwarmInv, TaskShapes, MountsAlone, OneDialEach, Trying
<1>2. NothingIsLost'
  <2>1. task' = task /\ swarm' = swarm /\ store' = store
    OBVIOUS
  <2>2. NothingIsLost
    BY DEF SwarmInv, NothingForgotten
  <2>3. NothingIsLost' <=> NothingIsLost
    BY <2>1, ZenonT(30) DEF NothingIsLost, Owed, TaskAt
  <2>4. QED
    BY <2>2, <2>3
<1>3. NothingForgotten'
  BY <1>2 DEF SwarmInv, NothingForgotten, Seeking, Trying
<1>4. QED
  BY <1>1, <1>3

\* What no task changes.
LEMMA LanesRest ==
    ASSUME SwarmInv, UNCHANGED <<native, joined, near, far, whole, ice, since, stalled, troubles>>,
           dialled' \in BOOLEAN, conn' \in [Remotes -> {"none", "up", "silent", "closed"}],
           fetches' \in 0..MaxFetches
    PROVE  LaneShapes' /\ LanesMatch'
BY DEF SwarmInv, LaneShapes, LanesMatch

\* A step before the queues are drained keeps what is missing.
LEMMA SeekingStep ==
    ASSUME SwarmInv, task'.missing = task.missing, task'.got = task.got, store' = store,
           task'.pc \notin {"draining", "home", "done"}, Seeking' => Seeking
    PROVE  NothingForgotten'
<1>1. NothingIsLost'
  BY DEF NothingIsLost, TaskAt
<1>2. QED
  BY <1>1 DEF SwarmInv, NothingForgotten

\* The task goes on at another place.
LEMMA GoStep ==
    ASSUME SwarmInv, UNCHANGED <<native, swarm, store, dialled>>,
           NEW pc \in Stages \cup Rounds \cup Candidates,
           task' = [task EXCEPT !.pc = pc],
           pc \notin {"draining", "home", "done", "gather", "connect"},
           native => pc \in {"idle", "unmounted"} \cup Rounds,
           pc \in Candidates => task.to \in Peers,
           pc = "dialling" => dialled /\ Seeking,
           Trying' => Trying
    PROVE  TaskShapes' /\ MountsAlone' /\ OneDialEach' /\ NothingForgotten'
<1>1. /\ task' \in LaneTasks /\ task'.pc = pc /\ task'.to = task.to /\ task'.left = task.left
      /\ task'.missing = task.missing /\ task'.got = task.got
  BY DEF SwarmInv, TaskShapes, LaneTasks
<1>2. TaskShapes' /\ MountsAlone'
  BY <1>1 DEF SwarmInv, TaskShapes, MountsAlone
<1>3. OneDialEach'
  BY <1>1 DEF SwarmInv, OneDialEach
<1>4. Seeking' => Seeking
  BY <1>1 DEF Seeking
<1>5. NothingForgotten'
  BY <1>1, <1>4, SeekingStep
<1>6. QED
  BY <1>2, <1>3, <1>5

LEMMA OfferStep == SwarmInv /\ Offer => SwarmInv'
<1> SUFFICES ASSUME SwarmInv, Offer PROVE SwarmInv'
  OBVIOUS
<1>1. PICK pc \in Rounds : task' = [task EXCEPT !.pc = pc]
  BY DEF Offer, Go, SignalAnswer, Rounds
<1>2. UNCHANGED onlyTask
  BY DEF Offer
<1>3. LaneShapes' /\ LanesMatch'
  BY <1>2, LanesRest DEF onlyTask, laneVars, homeVars, bounds, SwarmInv, LaneShapes
<1>4. task'.pc = pc /\ task'.to = task.to
  BY <1>1 DEF SwarmInv, TaskShapes, LaneTasks
<1>5. Trying' => Trying
  <2>1. TaskAt("connect") => task.to \notin Peers
    BY SwarmAssumption DEF SwarmInv, OneDialEach, TaskAt
  <2>2. TaskAt("connect") \/ TaskAt("offer")
    BY DEF Offer
  <2>3. QED
    BY <1>1, <1>4, <2>1, <2>2 DEF Trying, Candidates, Rounds, TaskAt
<1>6. TaskShapes' /\ MountsAlone' /\ OneDialEach' /\ NothingForgotten'
  BY <1>1, <1>2, <1>5, GoStep DEF onlyTask, Rounds, Candidates, Stages
<1>7. ChannelsAreTaken'
  BY <1>1, <1>4 DEF ChannelsAreTaken, Rounds
<1>8. QED
  BY <1>3, <1>6, <1>7 DEF SwarmInv

LEMMA RefusedStep == SwarmInv /\ Refused => SwarmInv'
<1> SUFFICES ASSUME SwarmInv, Refused PROVE SwarmInv'
  OBVIOUS
<1>1. PICK pc \in {"attached", "unanswered"} : task' = [task EXCEPT !.pc = pc]
  BY DEF Refused, Go
<1>2. UNCHANGED onlyTask /\ task.pc = "refused"
  BY DEF Refused, TaskAt
<1>3. LaneShapes' /\ LanesMatch'
  BY <1>2, LanesRest DEF onlyTask, laneVars, homeVars, bounds, SwarmInv, LaneShapes
<1>4. task'.pc = pc /\ task'.to = task.to
  BY <1>1 DEF SwarmInv, TaskShapes, LaneTasks
<1>5. Trying' => Trying
  BY <1>2, <1>4 DEF Trying, Candidates, Rounds
<1>6. TaskShapes' /\ MountsAlone' /\ OneDialEach' /\ NothingForgotten'
  BY <1>1, <1>2, <1>5, GoStep DEF onlyTask, Rounds, Candidates, Stages
<1>7. ChannelsAreTaken'
  BY <1>1, <1>4 DEF ChannelsAreTaken
<1>8. QED
  BY <1>3, <1>6, <1>7 DEF SwarmInv

\* What a lane of p becomes keeps the two ends agreed.
LEMMA LaneStep ==
    ASSUME SwarmInv, NEW p \in Remotes,
           NEW hubs \in SUBSET {"mount", "mesh"}, near' = [near EXCEPT ![p] = hubs],
           NEW there \in BOOLEAN, far' = [far EXCEPT ![p] = there],
           NEW hub \in {"none", "mount", "mesh"}, whole' = [whole EXCEPT ![p] = hub],
           hub # "none" => hub \in hubs /\ there,
           UNCHANGED <<native, joined, dialled, ice, since, stalled, fetches>>,
           conn' \in [Remotes -> {"none", "up", "silent", "closed"}],
           troubles' \in 0..MaxTroubles
    PROVE  LaneShapes' /\ LanesMatch'
<1>1. near \in [Remotes -> SUBSET {"mount", "mesh"}] /\ far \in [Remotes -> BOOLEAN]
      /\ whole \in [Remotes -> {"none", "mount", "mesh"}]
  BY DEF SwarmInv, LaneShapes
<1>2. LaneShapes'
  BY <1>1 DEF SwarmInv, LaneShapes
<1>3. ASSUME NEW q \in Remotes, whole'[q] # "none" PROVE whole'[q] \in near'[q] /\ far'[q]
  <2>1. CASE q = p
    BY <1>1, <1>3, <2>1
  <2>2. CASE q # p
    <3>1. whole'[q] = whole[q] /\ near'[q] = near[q] /\ far'[q] = far[q]
      BY <1>1, <2>2
    <3>2. QED
      BY <1>3, <3>1 DEF SwarmInv, LanesMatch
  <2>3. QED
    BY <2>1, <2>2
<1>4. QED
  BY <1>2, <1>3 DEF LanesMatch

LEMMA TroubleIs ==
    ASSUME SwarmInv, Trouble \/ UNCHANGED troubles
    PROVE  troubles' \in 0..MaxTroubles
BY SwarmAssumption DEF SwarmInv, LaneShapes, Trouble

LEMMA CompleteStep == SwarmInv /\ Complete => SwarmInv'
<1> SUFFICES ASSUME SwarmInv, Complete PROVE SwarmInv'
  OBVIOUS
<1>1. PICK here \in BOOLEAN, there \in BOOLEAN :
        LET p == task.to
            attaches == here /\ Attaches(p)
            lands == there /\ ~far[p]
        IN  /\ IF attaches # lands THEN Trouble ELSE UNCHANGED troubles
            /\ near' = IF attaches THEN [near EXCEPT ![p] = @ \cup {"mount"}] ELSE near
            /\ far' = FarAfter(p, there)
            /\ whole' = IF attaches /\ lands THEN [whole EXCEPT ![p] = "mount"] ELSE whole
            /\ Go(IF here /\ (attaches \/ Reuses(p)) THEN "attached" ELSE "unanswered")
  BY DEF Complete
<1>2. PICK p \in Remotes : p = task.to
  BY DEF SwarmInv, TaskShapes, LaneTasks
<1>3. near \in [Remotes -> SUBSET {"mount", "mesh"}] /\ far \in [Remotes -> BOOLEAN]
      /\ whole \in [Remotes -> {"none", "mount", "mesh"}]
  BY DEF SwarmInv, LaneShapes
<1>4. PICK attaches \in BOOLEAN : attaches <=> here /\ Attaches(p)
  OBVIOUS
<1>5. PICK lands \in BOOLEAN : lands <=> there /\ ~far[p]
  OBVIOUS
<1>6. PICK hubs : hubs = IF attaches THEN near[p] \cup {"mount"} ELSE near[p]
  OBVIOUS
<1>7. hubs \in SUBSET {"mount", "mesh"} /\ near' = [near EXCEPT ![p] = hubs]
  BY <1>1, <1>2, <1>3, <1>4, <1>6
<1>8. PICK held \in BOOLEAN : held <=> far[p] \/ there
  OBVIOUS
<1>9. far' = [far EXCEPT ![p] = held]
  <2>1. far' = [far EXCEPT ![p] = far[p] \/ there]
    BY <1>1, <1>2 DEF FarAfter
  <2>2. far[p] \in BOOLEAN
    BY <1>3
  <2>3. (far[p] \/ there) = held
    BY <1>8, <2>2
  <2>4. QED
    BY <2>1, <2>3
<1>10. PICK hub : hub = IF attaches /\ lands THEN "mount" ELSE whole[p]
  OBVIOUS
<1>11. hub \in {"none", "mount", "mesh"} /\ whole' = [whole EXCEPT ![p] = hub]
  BY <1>1, <1>2, <1>3, <1>4, <1>5, <1>10
<1>12. hub # "none" => hub \in hubs /\ held
  <2>1. whole[p] # "none" => whole[p] \in near[p] /\ far[p]
    BY DEF SwarmInv, LanesMatch
  <2>2. QED
    BY <1>5, <1>6, <1>8, <1>10, <2>1
<1>13. UNCHANGED <<native, conn, homeVars, stalled, joined, dialled, swarm, store, fetches>>
       /\ task.pc = "answered"
  BY DEF Complete, TaskAt
<1>14. troubles' \in 0..MaxTroubles
  BY <1>1, TroubleIs
<1>15. conn' \in [Remotes -> {"none", "up", "silent", "closed"}]
  BY <1>13 DEF SwarmInv, LaneShapes
<1>16. LaneShapes' /\ LanesMatch'
  BY <1>7, <1>9, <1>11, <1>12, <1>13, <1>14, <1>15, LaneStep DEF homeVars
<1>17. PICK pc \in {"attached", "unanswered"} : task' = [task EXCEPT !.pc = pc]
  BY <1>1 DEF Go
<1>18. task'.pc = pc /\ task'.to = task.to
  BY <1>17 DEF SwarmInv, TaskShapes, LaneTasks
<1>19. Trying' => Trying
  BY <1>13, <1>18 DEF Trying, Candidates, Rounds
<1>20. TaskShapes' /\ MountsAlone' /\ OneDialEach' /\ NothingForgotten'
  BY <1>13, <1>17, <1>19, GoStep DEF Rounds, Candidates, Stages
<1>21. ChannelsAreTaken'
  BY <1>17, <1>18 DEF ChannelsAreTaken
<1>22. QED
  BY <1>16, <1>20, <1>21 DEF SwarmInv

LEMMA ConnectingStep == SwarmInv /\ Connecting => SwarmInv'
<1> SUFFICES ASSUME SwarmInv, Connecting PROVE SwarmInv'
  OBVIOUS
<1>1. PICK pc \in {"idle", "unmounted"} : task' = [task EXCEPT !.pc = pc]
  BY DEF Connecting, ConnectFails, ConnectLands, Go
<1>2. conn' = conn \/ conn' = [conn EXCEPT ![Home] = "up"]
  BY DEF Connecting, ConnectFails, ConnectLands, onlyTask
<1>3. conn' \in [Remotes -> {"none", "up", "silent", "closed"}]
  BY <1>2 DEF SwarmInv, LaneShapes
<1>4. UNCHANGED <<native, laneVars, homeVars, stalled, joined, dialled, swarm, store, bounds>>
  BY DEF Connecting, ConnectFails, ConnectLands, onlyTask
<1>5. LaneShapes' /\ LanesMatch'
  BY <1>3, <1>4, LanesRest DEF laneVars, homeVars, bounds, SwarmInv, LaneShapes
<1>6. task'.pc = pc /\ task'.to = task.to
  BY <1>1 DEF SwarmInv, TaskShapes, LaneTasks
<1>7. ~Trying'
  BY <1>1, <1>6 DEF Trying, Candidates, Rounds
<1>8. TaskShapes' /\ MountsAlone' /\ OneDialEach' /\ NothingForgotten'
  BY <1>1, <1>4, <1>7, GoStep DEF Rounds, Candidates, Stages
<1>9. ChannelsAreTaken'
  BY <1>1, <1>6 DEF ChannelsAreTaken
<1>10. QED
  BY <1>5, <1>8, <1>9 DEF SwarmInv

LEMMA BeginFetchStep == SwarmInv /\ BeginFetch => SwarmInv'
<1> SUFFICES ASSUME SwarmInv, BeginFetch PROVE SwarmInv'
  OBVIOUS
<1>1. PICK missing \in SUBSET Positions :
        /\ task' = [Idle EXCEPT !.pc = "gather", !.missing = missing]
        /\ store' = Positions \ missing
  BY DEF BeginFetch
<1>2. ~native /\ fetches' \in 0..MaxFetches
  BY SwarmAssumption DEF BeginFetch, SwarmInv, LaneShapes
<1>3. UNCHANGED <<native, laneVars, conn, homeVars, stalled, joined, dialled, swarm, troubles>>
  BY DEF BeginFetch
<1>4. LaneShapes' /\ LanesMatch'
  BY <1>2, <1>3, LanesRest DEF laneVars, homeVars, SwarmInv, LaneShapes
<1>5. /\ task'.pc = "gather" /\ task'.to = Home /\ task'.left = << >> /\ task'.got = {}
      /\ task'.missing = missing /\ task' \in LaneTasks
  <2>1. PICK nobody \in Seq(Peers) : nobody = << >>
    BY EmptyIn
  <2>2. PICK nothing \in Seq(Positions) : nothing = << >>
    BY EmptyIn
  <2>3. PICK none \in Seq(Seq(Positions)) : none = << >>
    BY EmptyIn
  <2>4. task' = [pc |-> "gather", to |-> Home, left |-> nobody, offers |-> 0, waited |-> 0,
                 missing |-> missing, queues |-> none, got |-> {}, missed |-> none, rest |-> nothing]
    BY <1>1, <2>1, <2>2, <2>3 DEF Idle
  <2>5. 0 \in 0..2 /\ {} \in SUBSET Positions /\ Home \in Remotes /\ "gather" \in Stages
    BY DEF Remotes, Stages
  <2>6. task' \in LaneTasks
    BY <2>4, <2>5 DEF LaneTasks
  <2>7. QED
    BY <2>1, <2>4, <2>6
<1>6. TaskShapes' /\ MountsAlone'
  BY <1>1, <1>2, <1>3, <1>5 DEF TaskShapes, MountsAlone, SwarmInv
<1>7. OneDialEach' /\ ChannelsAreTaken'
  <2>1. ~Trying'
    BY <1>5 DEF Trying, Candidates, Rounds
  <2>2. task'.to \notin Peers
    BY <1>5, SwarmAssumption
  <2>3. QED
    BY <1>3, <1>5, <2>1, <2>2, EmptyIs DEF OneDialEach, SwarmInv, ChannelsAreTaken, Candidates
<1>8. NothingForgotten'
  BY <1>1, <1>5 DEF NothingForgotten, NothingIsLost, TaskAt, Seeking
<1>9. QED
  BY <1>4, <1>6, <1>7, <1>8 DEF SwarmInv

\* The first so many of a sequence.
LEMMA PrefixIs ==
    ASSUME NEW S, NEW s \in Seq(S), NEW k \in Nat, k <= Len(s), IsInjective(s)
    PROVE  SubSeq(s, 1, k) \in Seq(S) /\ IsInjective(SubSeq(s, 1, k))
<1>1. PICK t : t = SubSeq(s, 1, k)
  OBVIOUS
<1>2. \A a \in 1..k : a \in 1..Len(s) /\ s[a] \in S
  BY SeqIs
<1>3. t \in Seq(S) /\ Len(t) = k /\ \A a \in 1..k : t[a] = s[a]
  BY <1>1, <1>2
<1>4. \A a, b \in 1..Len(t) : t[a] = t[b] => a = b
  <2>1. \A a, b \in 1..Len(s) : s[a] = s[b] => a = b
    BY SeqIs
  <2>2. QED
    BY <1>2, <1>3, <2>1
<1>5. QED
  BY <1>1, <1>3, <1>4, SeqIs

LEMMA GatherStep == SwarmInv /\ Gather => SwarmInv'
<1> SUFFICES ASSUME SwarmInv, Gather PROVE SwarmInv'
  OBVIOUS
<1>1. PICK cards \in SUBSET Peers :
        /\ (dialled \/ ~joined) => cards = {}
        /\ LET wide == Ascending(cards)
           IN  task' = [task EXCEPT !.pc = "dialling",
                                    !.left = SubSeq(wide, 1, Min({Len(wide), Width}))]
  BY DEF Gather
<1>2. cards \in SUBSET Nat /\ IsFiniteSet(cards) /\ Width \in Nat
  BY SwarmAssumption, FS_Subset
<1>3. PICK wide : wide = Ascending(cards)
  OBVIOUS
<1>4. wide \in Seq(cards) /\ Len(wide) = Cardinality(cards) /\ IsInjective(wide) /\ Len(wide) \in Nat
  BY <1>2, <1>3, AscendingIs
<1>5. PICK k : k = Min({Len(wide), Width})
  OBVIOUS
<1>6. k \in Nat /\ k <= Len(wide)
  BY <1>2, <1>4, <1>5, LeastOfTwo
<1>7. PICK left : left = SubSeq(wide, 1, k)
  OBVIOUS
<1>8. left \in Seq(cards) /\ IsInjective(left)
  BY <1>4, <1>6, <1>7, PrefixIs
<1>9. left \in Seq(Peers) /\ ToSet(left) \subseteq cards
  BY <1>8, SeqMonotonic, SeqIs
<1>10. task' = [task EXCEPT !.pc = "dialling", !.left = left]
  BY <1>1, <1>3, <1>5, <1>7
<1>11. UNCHANGED <<native, laneVars, conn, homeVars, stalled, joined, swarm, store, bounds>>
       /\ dialled' = TRUE /\ task.pc = "gather"
  BY DEF Gather, TaskAt
<1>12. LaneShapes' /\ LanesMatch'
  BY <1>11, LanesRest DEF laneVars, homeVars, bounds, SwarmInv, LaneShapes
<1>13. /\ task' \in LaneTasks /\ task'.pc = "dialling" /\ task'.left = left /\ task'.to = task.to
       /\ task'.missing = task.missing /\ task'.got = task.got
  BY <1>9, <1>10 DEF SwarmInv, TaskShapes, LaneTasks, Stages
<1>14. ~native
  BY <1>11 DEF SwarmInv, MountsAlone, Rounds
<1>15. TaskShapes' /\ MountsAlone'
  BY <1>11, <1>13, <1>14 DEF SwarmInv, TaskShapes, MountsAlone
<1>16. OneDialEach'
  <2>1. ToSet(swarm) \cap ToSet(left) = {}
    <3>1. CASE dialled
      BY <1>1, <1>9, <3>1
    <3>2. CASE ~dialled
      BY <3>2, EmptyIs DEF SwarmInv, OneDialEach
    <3>3. QED
      BY <3>1, <3>2
  <2>2. ~Trying'
    BY <1>13 DEF Trying, Candidates, Rounds
  <2>3. QED
    BY <1>8, <1>11, <1>13, <2>1, <2>2 DEF SwarmInv, OneDialEach, Candidates
<1>17. ChannelsAreTaken'
  BY <1>13 DEF ChannelsAreTaken
<1>18. NothingForgotten'
  BY <1>11, <1>13, SeekingStep DEF Seeking
<1>19. QED
  BY <1>12, <1>15, <1>16, <1>17, <1>18 DEF SwarmInv

LEMMA NextCandidateStep == SwarmInv /\ NextCandidate => SwarmInv'
<1> SUFFICES ASSUME SwarmInv, NextCandidate PROVE SwarmInv'
  OBVIOUS
<1>1. PICK left : left = task.left
  OBVIOUS
<1>2. left \in Seq(Peers) /\ left # << >> /\ task.pc = "dialling"
  BY <1>1 DEF SwarmInv, TaskShapes, LaneTasks, NextCandidate, TaskAt
<1>3. PICK p, others : p = Head(left) /\ others = Tail(left)
  OBVIOUS
<1>4. task' = [task EXCEPT !.pc = "channel", !.to = p, !.left = others, !.offers = 0, !.waited = 0]
  BY <1>1, <1>3 DEF NextCandidate
<1>5. IsInjective(left) /\ ToSet(swarm) \cap ToSet(left) = {} /\ dialled /\ IsInjective(swarm)
  BY <1>1, <1>2 DEF SwarmInv, OneDialEach
<1>6. /\ p \in Peers /\ p \in ToSet(left) /\ others \in Seq(Peers)
      /\ ToSet(left) = {p} \cup ToSet(others) /\ p \notin ToSet(others) /\ IsInjective(others)
  BY <1>2, <1>3, <1>5, HeadTailIs
<1>7. UNCHANGED onlyTask
  BY DEF NextCandidate
<1>8. LaneShapes' /\ LanesMatch'
  BY <1>7, LanesRest DEF onlyTask, laneVars, homeVars, bounds, SwarmInv, LaneShapes
<1>9. /\ task' \in LaneTasks /\ task'.pc = "channel" /\ task'.left = others /\ task'.to = p
      /\ task'.missing = task.missing /\ task'.got = task.got
  <2>1. task \in LaneTasks
    BY DEF SwarmInv, TaskShapes
  <2>2. 0 \in 0..2 /\ p \in Remotes /\ "channel" \in Candidates
    BY <1>6 DEF Remotes, Candidates
  <2>3. task' \in LaneTasks
    BY <1>4, <1>6, <2>1, <2>2 DEF LaneTasks
  <2>4. QED
    BY <1>4, <2>1, <2>3 DEF LaneTasks
<1>10. ~native
  BY <1>2 DEF SwarmInv, MountsAlone, Rounds
<1>11. TaskShapes' /\ MountsAlone'
  BY <1>7, <1>9, <1>10 DEF SwarmInv, TaskShapes, MountsAlone, onlyTask
<1>12. OneDialEach'
  BY <1>5, <1>6, <1>7, <1>9 DEF onlyTask, OneDialEach
<1>13. ChannelsAreTaken'
  BY <1>9 DEF ChannelsAreTaken
<1>14. NothingForgotten'
  BY <1>2, <1>7, <1>9, SeekingStep DEF Seeking, onlyTask
<1>15. QED
  BY <1>8, <1>11, <1>12, <1>13, <1>14 DEF SwarmInv

\* A candidate that is connected is one more source.
LEMMA JoinsSwarmStep ==
    ASSUME SwarmInv, task.pc \in {"channel", "waiting"}, JoinsSwarm(task.to)
    PROVE  SwarmInv'
<1>1. PICK p \in Peers : p = task.to
  BY DEF SwarmInv, OneDialEach, Candidates
<1>2. Trying
  BY DEF Trying, Candidates
<1>3. /\ dialled /\ p \notin ToSet(swarm) \cup ToSet(task.left) /\ IsInjective(swarm)
      /\ IsInjective(task.left) /\ ToSet(swarm) \cap ToSet(task.left) = {} /\ swarm \in Seq(Peers)
  BY <1>1, <1>2 DEF SwarmInv, OneDialEach, TaskShapes
<1>4. PICK joining : joining = Append(swarm, p)
  OBVIOUS
<1>5. joining \in Seq(Peers) /\ ToSet(joining) = ToSet(swarm) \cup {p} /\ IsInjective(joining)
  BY <1>3, <1>4, AppendIs
<1>6. swarm' = joining /\ conn' = [conn EXCEPT ![p] = "up"] /\ task' = [task EXCEPT !.pc = "dialling"]
  BY <1>1, <1>4 DEF JoinsSwarm, Go
<1>7. UNCHANGED <<native, laneVars, homeVars, stalled, joined, dialled, store, bounds>>
  BY DEF JoinsSwarm
<1>8. conn' \in [Remotes -> {"none", "up", "silent", "closed"}]
  BY <1>6 DEF SwarmInv, LaneShapes
<1>9. LaneShapes' /\ LanesMatch'
  BY <1>7, <1>8, LanesRest DEF laneVars, homeVars, bounds, SwarmInv, LaneShapes
<1>10. /\ task' \in LaneTasks /\ task'.pc = "dialling" /\ task'.left = task.left /\ task'.to = task.to
       /\ task'.missing = task.missing /\ task'.got = task.got
  BY <1>6 DEF SwarmInv, TaskShapes, LaneTasks, Stages
<1>11. ~native
  BY DEF SwarmInv, MountsAlone, Rounds
<1>12. TaskShapes' /\ MountsAlone'
  BY <1>5, <1>6, <1>7, <1>10, <1>11 DEF SwarmInv, TaskShapes, MountsAlone
<1>13. OneDialEach'
  <2>1. ~Trying'
    BY <1>10 DEF Trying, Candidates, Rounds
  <2>2. QED
    BY <1>3, <1>5, <1>6, <1>7, <1>10, <2>1 DEF OneDialEach, Candidates
<1>14. ChannelsAreTaken'
  BY <1>10 DEF ChannelsAreTaken
<1>15. NothingForgotten'
  BY <1>2, <1>7, <1>10, SeekingStep DEF Seeking
<1>16. QED
  BY <1>9, <1>12, <1>13, <1>14, <1>15 DEF SwarmInv

\* A candidate's wait moves on.
LEMMA CandidateStep ==
    ASSUME SwarmInv, UNCHANGED onlyTask, Trying, task.to \in Peers,
           NEW pc \in Candidates \cup {"dialling"}, NEW offers \in 0..2, NEW waited \in 0..2,
           task' = [task EXCEPT !.pc = pc, !.offers = offers, !.waited = waited],
           pc = "conceded" => whole[task.to] # "mount"
    PROVE  SwarmInv'
<1>1. /\ task' \in LaneTasks /\ task'.pc = pc /\ task'.left = task.left /\ task'.to = task.to
      /\ task'.missing = task.missing /\ task'.got = task.got
  BY DEF SwarmInv, TaskShapes, LaneTasks, Stages
<1>2. LaneShapes' /\ LanesMatch'
  BY LanesRest DEF onlyTask, laneVars, homeVars, bounds, SwarmInv, LaneShapes
<1>3. ~native
  BY SwarmAssumption DEF SwarmInv, MountsAlone
<1>4. TaskShapes' /\ MountsAlone'
  BY <1>1, <1>3 DEF SwarmInv, TaskShapes, MountsAlone, onlyTask
<1>5. OneDialEach'
  BY <1>1 DEF SwarmInv, OneDialEach, onlyTask, Candidates
<1>6. ChannelsAreTaken'
  BY <1>1 DEF ChannelsAreTaken, onlyTask, laneVars
<1>7. NothingForgotten'
  <2>1. task'.pc \notin {"draining", "home", "done"}
    BY <1>1 DEF Candidates
  <2>2. QED
    BY <1>1, <2>1, SeekingStep DEF Seeking, onlyTask
<1>8. QED
  BY <1>2, <1>4, <1>5, <1>6, <1>7 DEF SwarmInv

\* One wait: its channel, its offers, its end.
Wait ==
    \/ TaskAt("channel") /\ Go("waiting") /\ UNCHANGED onlyTask
    \/ TaskAt("waiting") /\ whole[task.to] # "mount" /\ Go("conceded") /\ UNCHANGED onlyTask
    \/ Reoffer \/ RoundEnds \/ WaitOrConcede \/ Conceded

LEMMA WaitStep == SwarmInv /\ Wait => SwarmInv'
<1> SUFFICES ASSUME SwarmInv, Wait PROVE SwarmInv'
  OBVIOUS
<1>1. task \in LaneTasks
  BY DEF SwarmInv, TaskShapes
<1>2. PICK offers \in 0..2, waited \in 0..2 : offers = task.offers /\ waited = task.waited
  BY <1>1 DEF LaneTasks
<1>3. UNCHANGED onlyTask
  BY DEF Wait, Reoffer, RoundEnds, WaitOrConcede, Conceded
<1>4. Trying /\ task.to \in Peers
  <2>1. task.pc \in Candidates => task.to \in Peers
    BY DEF SwarmInv, OneDialEach
  <2>2. task.pc \in Candidates \/ (task.pc \in Rounds /\ task.to \in Peers)
    BY DEF Wait, Reoffer, RoundEnds, WaitOrConcede, Conceded, TaskAt, Candidates, Rounds
  <2>3. QED
    BY <2>1, <2>2 DEF Trying
<1>5. PICK next \in {"waiting", "offer", "conceded", "dialling"}, more \in 0..2, longer \in 0..2 :
        /\ Go(next) \/ task' = [task EXCEPT !.pc = next, !.offers = more]
             \/ task' = [task EXCEPT !.pc = next, !.waited = longer]
             \/ (next = "waiting" /\ task.pc = "waiting" /\ task' = [task EXCEPT !.waited = longer])
        /\ next = "conceded" => whole[task.to] # "mount"
  <2>1. CASE TaskAt("channel") /\ Go("waiting")
    BY <1>2, <2>1
  <2>2. CASE whole[task.to] # "mount" /\ Go("conceded")
    BY <1>2, <2>2
  <2>3. CASE Reoffer
    <3>1. PICK more \in 0..2 : more = task.offers + 1
      BY <1>2, <2>3 DEF Reoffer, ReofferDue
    <3>2. task' = [task EXCEPT !.pc = "offer", !.offers = more]
      BY <2>3, <3>1 DEF Reoffer
    <3>3. QED
      BY <1>2, <3>2
  <2>4. CASE RoundEnds
    <3>1. PICK w \in task.waited..2 : task' = [task EXCEPT !.pc = "waiting", !.waited = w]
      BY <2>4 DEF RoundEnds
    <3>2. w \in 0..2
      BY <1>2
    <3>3. QED
      BY <1>2, <3>1, <3>2
  <2>5. CASE WaitOrConcede
    <3>1. CASE task.waited = 2
      <4>1. Go("conceded")
        BY <2>5, <3>1 DEF WaitOrConcede, Go
      <4>2. whole[task.to] # "mount"
        BY <1>1, <2>5 DEF WaitOrConcede, SwarmInv, LanesMatch, LaneTasks
      <4>3. QED
        BY <1>2, <4>1, <4>2
    <3>2. CASE task.waited # 2
      <4>1. PICK w \in 0..2 : w = task.waited + 1
        BY <1>2, <3>2
      <4>2. task' = [task EXCEPT !.waited = w] /\ task.pc = "waiting"
        BY <2>5, <3>2, <4>1 DEF WaitOrConcede, TaskAt
      <4>3. QED
        BY <1>2, <4>2
    <3>3. QED
      BY <3>1, <3>2
  <2>6. CASE Conceded
    BY <1>2, <2>6 DEF Conceded
  <2>7. QED
    BY <2>1, <2>2, <2>3, <2>4, <2>5, <2>6 DEF Wait
<1>6. next \in Candidates \cup {"dialling"}
  BY DEF Candidates
<1>7. CASE Go(next)
  <2>1. task' = [task EXCEPT !.pc = next, !.offers = offers, !.waited = waited]
    BY <1>1, <1>2, <1>7 DEF Go, LaneTasks
  <2>2. QED
    BY <1>3, <1>4, <1>5, <1>6, <2>1, CandidateStep
<1>8. CASE task' = [task EXCEPT !.pc = next, !.offers = more]
  <2>1. task' = [task EXCEPT !.pc = next, !.offers = more, !.waited = waited]
    BY <1>1, <1>2, <1>8 DEF LaneTasks
  <2>2. QED
    BY <1>3, <1>4, <1>5, <1>6, <2>1, CandidateStep
<1>9. CASE task' = [task EXCEPT !.pc = next, !.waited = longer]
  <2>1. task' = [task EXCEPT !.pc = next, !.offers = offers, !.waited = longer]
    BY <1>1, <1>2, <1>9 DEF LaneTasks
  <2>2. QED
    BY <1>3, <1>4, <1>5, <1>6, <2>1, CandidateStep
<1>10. CASE next = "waiting" /\ task.pc = "waiting" /\ task' = [task EXCEPT !.waited = longer]
  <2>1. task' = [task EXCEPT !.pc = next, !.offers = offers, !.waited = longer]
    BY <1>1, <1>2, <1>10 DEF LaneTasks
  <2>2. QED
    BY <1>3, <1>4, <1>5, <1>6, <2>1, CandidateStep
<1>11. QED
  BY <1>5, <1>7, <1>8, <1>9, <1>10

LEMMA DiallingStep == SwarmInv /\ Dialling => SwarmInv'
<1> SUFFICES ASSUME SwarmInv, Dialling PROVE SwarmInv'
  OBVIOUS
<1>1. CASE Gather
  BY <1>1, GatherStep
<1>2. CASE NextCandidate
  BY <1>2, NextCandidateStep
<1>3. CASE task.pc \in {"channel", "waiting"} /\ JoinsSwarm(task.to)
  BY <1>3, JoinsSwarmStep
<1>4. CASE Wait
  BY <1>4, WaitStep
<1>5. QED
  BY <1>1, <1>2, <1>3, <1>4 DEF Dialling, TakeChannel, DialChannel, Wait, TaskAt
-----------------------------------------------------------------------------
(* fetch_missing.                                                            *)

\* A step of a download leaves lanes and swarm alone.
LEMMA DownloadAside ==
    ASSUME SwarmInv,
           UNCHANGED <<native, laneVars, conn, homeVars, stalled, joined, dialled, swarm, bounds>>,
           task' \in LaneTasks, task'.got \subseteq task'.missing, store' \subseteq Positions,
           task.pc \in {"dialling", "draining", "home"},
           task'.pc \in {"draining", "home", "done", "failed"},
           task'.to = task.to, task'.left = task.left
    PROVE  LaneShapes' /\ LanesMatch' /\ TaskShapes' /\ MountsAlone' /\ OneDialEach' /\ ChannelsAreTaken'
<1>1. LaneShapes' /\ LanesMatch'
  BY LanesRest DEF laneVars, homeVars, bounds, SwarmInv, LaneShapes
<1>2. ~native
  BY DEF SwarmInv, MountsAlone, Rounds
<1>3. TaskShapes' /\ MountsAlone' /\ ChannelsAreTaken'
  BY <1>2 DEF SwarmInv, TaskShapes, MountsAlone, ChannelsAreTaken
<1>4. ~Trying'
  BY DEF Trying, Candidates, Rounds
<1>5. OneDialEach'
  BY <1>4 DEF SwarmInv, OneDialEach, Candidates
<1>6. QED
  BY <1>1, <1>3, <1>5

\* Each chunk is in one place while the queues drain.
LEMMA EachIsCounted ==
    ASSUME SwarmInv, task.pc = "draining"
    PROVE  /\ task \in LaneTasks /\ swarm \in Seq(Peers) /\ Len(swarm) \in Nat /\ DOMAIN swarm = 1..Len(swarm)
           /\ Len(task.queues) = Len(swarm) /\ Len(task.missed) = Len(swarm)
           /\ task.queues \in [1..Len(swarm) -> Seq(Positions)]
           /\ task.missed \in [1..Len(swarm) -> Seq(Positions)]
           /\ store = Positions \ task.missing /\ NothingIsLost
<1>1. task \in LaneTasks /\ swarm \in Seq(Peers)
  BY DEF SwarmInv, TaskShapes
<1>2. Len(task.queues) = Len(swarm) /\ Len(task.missed) = Len(swarm)
      /\ store = Positions \ task.missing /\ NothingIsLost
  BY DEF SwarmInv, NothingForgotten
<1>3. task.queues \in Seq(Seq(Positions)) /\ task.missed \in Seq(Seq(Positions))
  BY <1>1 DEF LaneTasks
<1>4. Len(swarm) \in Nat /\ DOMAIN swarm = 1..Len(swarm)
  BY <1>1
<1>5. PICK queues, missed : queues = task.queues /\ missed = task.missed
  OBVIOUS
<1>6. PICK parts : parts = Seq(Positions)
  OBVIOUS
<1>7. queues \in [1..Len(queues) -> parts] /\ missed \in [1..Len(missed) -> parts]
  BY <1>3, <1>5, <1>6
<1>8. QED
  BY <1>1, <1>2, <1>4, <1>5, <1>6, <1>7

\* The plan is asked for: what nobody has is left to the home peer.
LEMMA AskHoldingsStep == SwarmInv /\ AskHoldings => SwarmInv'
<1> SUFFICES ASSUME SwarmInv, AskHoldings PROVE SwarmInv'
  OBVIOUS
<1>1. PICK claims \in [DOMAIN swarm -> SUBSET Positions] :
        LET plan == Plan(task.missing, claims)
        IN  task' = [task EXCEPT !.pc = "draining", !.queues = plan.queues,
                                 !.missed = [i \in DOMAIN swarm |-> << >>],
                                 !.rest = Ascending(plan.unheld)]
  BY DEF AskHoldings
<1>2. task \in LaneTasks /\ swarm \in Seq(Peers) /\ task.pc = "dialling" /\ UNCHANGED onlyTask
  BY DEF AskHoldings, SwarmInv, TaskShapes, TaskAt
<1>3. PICK n \in Nat : n = Len(swarm) /\ DOMAIN swarm = 1..n
  BY <1>2
<1>4. PICK missing : missing = task.missing
  OBVIOUS
<1>5. missing \in SUBSET Positions /\ missing \in SUBSET Nat /\ IsFiniteSet(missing)
  <2>1. missing \in SUBSET Positions
    BY <1>2, <1>4 DEF LaneTasks
  <2>2. IsFiniteSet(missing)
    BY <2>1, SwarmAssumption, FS_Subset
  <2>3. QED
    BY <2>1, <2>2, SwarmAssumption
<1>6. claims \in [1..n -> SUBSET Nat]
  BY <1>3, SwarmAssumption
<1>7. PICK plan : plan = Plan(missing, claims)
  OBVIOUS
<1>8. PartialPlan(plan, missing, n, claims, Rarer(missing, claims))
  BY <1>5, <1>6, <1>7, PlanIs
<1>9. PICK queues, unheld : queues = plan.queues /\ unheld = plan.unheld
  OBVIOUS
<1>10. /\ queues \in [1..n -> Seq(missing)]
       /\ unheld = {k \in missing : Who(k, claims) = {}}
       /\ \A k \in missing : Who(k, claims) # {} => \E i \in 1..n : k \in ToSet(queues[i])
       /\ \A k : \A i, j \in 1..n : k \in ToSet(queues[i]) /\ k \in ToSet(queues[j]) => i = j
       /\ \A i \in 1..n : ToSet(queues[i]) \subseteq claims[i]
       /\ \A i \in 1..n : \A a, b \in 1..Len(queues[i]) :
            a < b => <<queues[i][a], queues[i][b]>> \in Rarer(missing, claims)
  BY <1>8, <1>9 DEF PartialPlan
<1>11. \A i \in 1..n : ToSet(queues[i]) \subseteq missing /\ queues[i] \in Seq(Positions)
  BY <1>5, <1>10, SeqIs, SeqMonotonic
<1>12. ASSUME NEW i \in 1..n PROVE IsInjective(queues[i])
  <2>1. PICK queue \in Seq(missing) : queue = queues[i]
    BY <1>10
  <2>2. \A a, b \in 1..Len(queue) : a < b => <<queue[a], queue[b]>> \in Rarer(missing, claims)
    BY <1>10, <2>1
  <2>3. \A k \in missing : <<k, k>> \notin Rarer(missing, claims)
    BY <1>5, <1>6, RankedIs DEF IsOrder
  <2>4. Len(queue) \in Nat /\ \A a \in 1..Len(queue) : queue[a] \in missing
    OBVIOUS
  <2>5. \A a, b \in 1..Len(queue) : a < b => queue[a] # queue[b]
    BY <2>2, <2>3, <2>4
  <2>6. \A a, b \in 1..Len(queue) : queue[a] = queue[b] => a = b
    <3>1. \A a, b \in 1..Len(queue) : a < b \/ b < a \/ a = b
      BY <2>4
    <3>2. QED
      BY <2>5, <3>1
  <2>7. QED
    BY <2>1, <2>6, SeqIs
<1>13. PICK rest : rest = Ascending(unheld)
  OBVIOUS
<1>14. rest \in Seq(Positions) /\ ToSet(rest) = unheld /\ IsInjective(rest) /\ unheld \subseteq missing
  <2>1. unheld \in SUBSET missing
    BY <1>10
  <2>2. unheld \in SUBSET Nat /\ IsFiniteSet(unheld)
    BY <1>5, <2>1, FS_Subset
  <2>3. rest \in Seq(unheld) /\ ToSet(rest) = unheld /\ IsInjective(rest)
    BY <1>13, <2>2, AscendingIs
  <2>4. QED
    BY <1>5, <2>1, <2>3, SeqMonotonic
<1>15. PICK missed : missed = [i \in 1..n |-> << >>]
  OBVIOUS
<1>16. /\ missed \in [1..n -> Seq(Positions)] /\ \A i \in 1..n : missed[i] = << >>
       /\ queues \in [1..n -> Seq(Positions)]
  BY <1>10, <1>11, <1>15
<1>17. queues \in Seq(Seq(Positions)) /\ missed \in Seq(Seq(Positions)) /\ Len(queues) = n /\ Len(missed) = n
  BY <1>16
<1>18. task' = [task EXCEPT !.pc = "draining", !.queues = queues, !.missed = missed, !.rest = rest]
  BY <1>1, <1>3, <1>4, <1>7, <1>9, <1>13, <1>15
<1>19. /\ task' \in LaneTasks /\ task'.pc = "draining" /\ task'.to = task.to /\ task'.left = task.left
       /\ task'.missing = missing /\ task'.got = task.got /\ task'.queues = queues
       /\ task'.missed = missed /\ task'.rest = rest
  BY <1>2, <1>4, <1>14, <1>17, <1>18 DEF LaneTasks, Stages
<1>20. task.got = {} /\ store = Positions \ missing
  BY <1>2, <1>4 DEF SwarmInv, NothingForgotten, Seeking
<1>21. LaneShapes' /\ LanesMatch' /\ TaskShapes' /\ MountsAlone' /\ OneDialEach' /\ ChannelsAreTaken'
  BY <1>2, <1>19, <1>20, DownloadAside DEF onlyTask, SwarmInv, TaskShapes
<1>22. NothingForgotten'
  <2>1. \A i \in 1..n : Owed(i)' = ToSet(queues[i])
    BY <1>16, <1>19, EmptyIs DEF Owed
  <2>2. DOMAIN swarm' = 1..n /\ swarm' = swarm /\ store' = store
    BY <1>2, <1>3 DEF onlyTask
  <2>3. missing = UNION ({{}, unheld} \cup {ToSet(queues[i]) : i \in 1..n})
    <3>1. \A k \in missing : k \in unheld \/ \E i \in 1..n : k \in ToSet(queues[i])
      BY <1>10
    <3>2. QED
      BY <1>11, <1>14, <3>1
  <2>4. \A i \in 1..n : ToSet(queues[i]) \cap unheld = {}
    <3>1. ASSUME NEW i \in 1..n, NEW k \in ToSet(queues[i]), k \in unheld PROVE FALSE
      <4>1. i \in Who(k, claims)
        BY <1>3, <1>10, <3>1 DEF Who
      <4>2. QED
        BY <1>10, <3>1, <4>1
    <3>2. QED
      BY <3>1
  <2>5. {Owed(i)' : i \in 1..n} = {ToSet(queues[i]) : i \in 1..n}
    BY <2>1
  <2>6. task'.missing = UNION ({task'.got, ToSet(task'.rest)} \cup {Owed(i)' : i \in DOMAIN swarm'})
    BY <1>14, <1>19, <1>20, <2>2, <2>3, <2>5
  <2>7. \A i \in 1..n : \A j \in 1..n \ {i} : ToSet(queues[i]) \cap ToSet(queues[j]) = {}
    BY <1>10
  <2>8. NothingIsLost'
    <3>1. task'.got \cap ToSet(task'.rest) = {} /\ IsInjective(task'.rest)
      BY <1>14, <1>19, <1>20
    <3>2. \A i \in 1..n : Owed(i)' \cap unheld = {} /\ \A j \in 1..n \ {i} : Owed(i)' \cap Owed(j)' = {}
      BY <2>1, <2>4, <2>7
    <3>3. task'.got \cup ToSet(task'.rest) = unheld
      BY <1>14, <1>19, <1>20
    <3>4. \A i \in 1..n : /\ IsInjective(queues[i]) /\ IsInjective(missed[i])
                          /\ ToSet(queues[i]) \cap ToSet(missed[i]) = {}
      BY <1>12, <1>16, EmptyIs
    <3>5. \A i \in DOMAIN swarm' :
            /\ Owed(i)' \cap (task'.got \cup ToSet(task'.rest)) = {}
            /\ \A j \in DOMAIN swarm' \ {i} : Owed(i)' \cap Owed(j)' = {}
      BY <2>2, <3>2, <3>3
    <3>6. \A i \in DOMAIN swarm' :
            /\ IsInjective(task'.queues[i]) /\ IsInjective(task'.missed[i])
            /\ ToSet(task'.queues[i]) \cap ToSet(task'.missed[i]) = {}
      BY <1>19, <2>2, <3>4
    <3>7. QED
      BY <1>19, <2>6, <3>1, <3>5, <3>6 DEF NothingIsLost, TaskAt
  <2>9. ~Seeking'
    BY <1>19 DEF Seeking, Trying, Candidates, Rounds
  <2>10. QED
    BY <1>3, <1>17, <1>19, <1>20, <2>2, <2>8, <2>9 DEF NothingForgotten
<1>23. QED
  BY <1>21, <1>22 DEF SwarmInv

\* Peer i is asked for fewer chunks, and what it is not asked for it brought.
LEMMA QueueStep ==
    ASSUME SwarmInv, task.pc = "draining", UNCHANGED onlyTask, NEW i \in DOMAIN swarm,
           NEW queue \in Seq(Positions), NEW back \in Seq(Positions), NEW brought \in SUBSET Owed(i),
           IsInjective(queue), IsInjective(back), ToSet(queue) \cap ToSet(back) = {},
           ToSet(queue) \cup ToSet(back) = Owed(i) \ brought,
           task' = [task EXCEPT !.got = task.got \cup brought,
                                !.queues = [task.queues EXCEPT ![i] = queue],
                                !.missed = [task.missed EXCEPT ![i] = back]]
    PROVE  SwarmInv'
<1>1. PICK n \in Nat : n = Len(swarm) /\ DOMAIN swarm = 1..n
  BY EachIsCounted
<1>2. PICK queues, missed, got, rest, missing :
        /\ queues = task.queues /\ missed = task.missed /\ got = task.got /\ rest = task.rest
        /\ missing = task.missing
  OBVIOUS
<1>3. /\ task \in LaneTasks /\ queues \in [1..n -> Seq(Positions)] /\ missed \in [1..n -> Seq(Positions)]
      /\ store = Positions \ missing /\ NothingIsLost
  BY <1>1, <1>2, EachIsCounted
<1>4. PICK queues1, missed1, got1 :
        /\ queues1 = [queues EXCEPT ![i] = queue] /\ missed1 = [missed EXCEPT ![i] = back]
        /\ got1 = got \cup brought
  OBVIOUS
<1>5. /\ queues1 \in [1..n -> Seq(Positions)] /\ missed1 \in [1..n -> Seq(Positions)]
      /\ queues1[i] = queue /\ missed1[i] = back
      /\ \A j \in 1..n \ {i} : queues1[j] = queues[j] /\ missed1[j] = missed[j]
  BY <1>1, <1>3, <1>4
<1>6. queues1 \in Seq(Seq(Positions)) /\ missed1 \in Seq(Seq(Positions)) /\ Len(queues1) = n /\ Len(missed1) = n
  <2>1. PICK parts : parts = Seq(Positions)
    OBVIOUS
  <2>2. queues1 \in [1..n -> parts] /\ missed1 \in [1..n -> parts]
    BY <1>5, <2>1
  <2>3. queues1 \in Seq(parts) /\ missed1 \in Seq(parts) /\ Len(queues1) = n /\ Len(missed1) = n
    BY <2>2
  <2>4. QED
    BY <2>1, <2>3
<1>7. /\ missing = UNION ({got, ToSet(rest)} \cup {Owed(j) : j \in 1..n})
      /\ got \cap ToSet(rest) = {} /\ IsInjective(rest)
      /\ \A j \in 1..n :
            /\ Owed(j) \cap (got \cup ToSet(rest)) = {}
            /\ IsInjective(queues[j]) /\ IsInjective(missed[j])
            /\ ToSet(queues[j]) \cap ToSet(missed[j]) = {}
            /\ \A l \in 1..n \ {j} : Owed(j) \cap Owed(l) = {}
  BY <1>1, <1>2, <1>3 DEF NothingIsLost, TaskAt
<1>8. Owed(i) \subseteq missing /\ got \subseteq missing /\ missing \subseteq Positions
  BY <1>1, <1>2, <1>3, <1>7 DEF LaneTasks
<1>9. got1 \in SUBSET Positions /\ got1 \subseteq missing
  BY <1>4, <1>8
<1>10. task' = [task EXCEPT !.got = got1, !.queues = queues1, !.missed = missed1]
  BY <1>2, <1>4
<1>11. /\ task' \in LaneTasks /\ task'.pc = "draining" /\ task'.to = task.to /\ task'.left = task.left
       /\ task'.missing = missing /\ task'.got = got1 /\ task'.queues = queues1
       /\ task'.missed = missed1 /\ task'.rest = rest
  BY <1>2, <1>3, <1>6, <1>9, <1>10 DEF LaneTasks
<1>12. LaneShapes' /\ LanesMatch' /\ TaskShapes' /\ MountsAlone' /\ OneDialEach' /\ ChannelsAreTaken'
  BY <1>9, <1>11, DownloadAside DEF onlyTask, SwarmInv, TaskShapes
<1>13. swarm' = swarm /\ store' = store /\ DOMAIN swarm' = 1..n
  BY <1>1 DEF onlyTask
<1>14. Owed(i)' = Owed(i) \ brought /\ \A j \in 1..n \ {i} : Owed(j)' = Owed(j)
  BY <1>1, <1>2, <1>5, <1>11 DEF Owed
<1>15. PICK owed, owed1 : /\ owed = [j \in 1..n |-> Owed(j)]
                          /\ owed1 = [j \in 1..n |-> IF j = i THEN owed[j] \ brought ELSE owed[j]]
  OBVIOUS
<1>16. \A j \in 1..n : Owed(j) = owed[j] /\ Owed(j)' = owed1[j]
  BY <1>14, <1>15
<1>17. \A j \in 1..n : owed1[j] \subseteq owed[j] /\ (j # i => owed1[j] = owed[j])
       /\ (j = i => owed1[j] = owed[j] \ brought)
  BY <1>15
<1>18. missing = UNION ({got1, ToSet(rest)} \cup {owed1[j] : j \in 1..n})
  <2>1. missing = UNION ({got, ToSet(rest)} \cup {owed[j] : j \in 1..n})
    BY <1>7, <1>16
  <2>2. i \in 1..n /\ brought \subseteq owed[i]
    BY <1>1, <1>16
  <2>3. ASSUME NEW k \in missing PROVE k \in got1 \/ k \in ToSet(rest) \/ \E j \in 1..n : k \in owed1[j]
    <3>1. k \in got \/ k \in ToSet(rest) \/ \E j \in 1..n : k \in owed[j]
      BY <2>1
    <3>2. QED
      BY <1>4, <1>17, <3>1
  <2>4. ToSet(rest) \subseteq missing /\ \A j \in 1..n : owed1[j] \subseteq missing
    BY <1>17, <2>1
  <2>5. QED
    BY <1>9, <2>3, <2>4
<1>19. /\ got1 \cap ToSet(rest) = {}
       /\ \A j \in 1..n : /\ owed1[j] \cap (got1 \cup ToSet(rest)) = {}
                          /\ \A l \in 1..n \ {j} : owed1[j] \cap owed1[l] = {}
  <2>1. i \in 1..n /\ brought \subseteq owed[i]
    BY <1>1, <1>16
  <2>2. \A j \in 1..n : /\ owed[j] \cap (got \cup ToSet(rest)) = {}
                        /\ \A l \in 1..n \ {j} : owed[j] \cap owed[l] = {}
    BY <1>7, <1>16
  <2>3. got1 \cap ToSet(rest) = {}
    BY <1>4, <1>7, <2>1, <2>2
  <2>4. ASSUME NEW j \in 1..n PROVE owed1[j] \cap (got1 \cup ToSet(rest)) = {}
    <3>1. CASE j = i
      BY <1>4, <1>17, <2>2, <3>1
    <3>2. CASE j # i
      <4>1. owed[j] \cap brought = {}
        BY <2>1, <2>2, <3>2
      <4>2. QED
        BY <1>4, <1>17, <2>2, <3>2, <4>1
    <3>3. QED
      BY <3>1, <3>2
  <2>5. \A j \in 1..n : \A l \in 1..n \ {j} : owed1[j] \cap owed1[l] = {}
    BY <1>17, <2>2
  <2>6. QED
    BY <2>3, <2>4, <2>5
<1>20. \A j \in 1..n : /\ IsInjective(queues1[j]) /\ IsInjective(missed1[j])
                       /\ ToSet(queues1[j]) \cap ToSet(missed1[j]) = {}
  <2> TAKE j \in 1..n
  <2>1. CASE j = i
    BY <1>5, <2>1
  <2>2. CASE j # i
    BY <1>5, <1>7, <2>2
  <2>3. QED
    BY <2>1, <2>2
<1>21. NothingIsLost'
  <2>1. {Owed(j)' : j \in 1..n} = {owed1[j] : j \in 1..n}
    BY <1>16
  <2>2. task'.missing = UNION ({task'.got, ToSet(task'.rest)} \cup {Owed(j)' : j \in DOMAIN swarm'})
    BY <1>11, <1>13, <1>18, <2>1
  <2>3. task'.got \cap ToSet(task'.rest) = {} /\ IsInjective(task'.rest)
    BY <1>7, <1>11, <1>19
  <2>4. \A j \in DOMAIN swarm' :
            /\ Owed(j)' \cap (task'.got \cup ToSet(task'.rest)) = {}
            /\ \A l \in DOMAIN swarm' \ {j} : Owed(j)' \cap Owed(l)' = {}
    <3>1. \A j \in 1..n : /\ Owed(j)' \cap (got1 \cup ToSet(rest)) = {}
                          /\ \A l \in 1..n \ {j} : Owed(j)' \cap Owed(l)' = {}
      BY <1>16, <1>19
    <3>2. task'.got = got1 /\ ToSet(task'.rest) = ToSet(rest)
      BY <1>11
    <3>3. QED
      BY <1>13, <3>1, <3>2
  <2>5. \A j \in DOMAIN swarm' :
            /\ IsInjective(task'.queues[j]) /\ IsInjective(task'.missed[j])
            /\ ToSet(task'.queues[j]) \cap ToSet(task'.missed[j]) = {}
    BY <1>11, <1>13, <1>20
  <2>6. QED
    BY <1>11, <2>2, <2>3, <2>4, <2>5 DEF NothingIsLost, TaskAt
<1>22. ~Seeking'
  BY <1>11 DEF Seeking, Trying, Candidates, Rounds
<1>23. NothingForgotten'
  BY <1>1, <1>3, <1>6, <1>11, <1>13, <1>21, <1>22 DEF NothingForgotten
<1>24. QED
  BY <1>12, <1>23 DEF SwarmInv

LEMMA DrainStep == ASSUME SwarmInv, NEW i \in DOMAIN swarm, Drain(i) PROVE SwarmInv'
<1>1. task.pc = "draining" /\ UNCHANGED onlyTask
  BY DEF Drain, TaskAt
<1>2. PICK queue, back : queue = task.queues[i] /\ back = task.missed[i]
  OBVIOUS
<1>3. /\ queue \in Seq(Positions) /\ back \in Seq(Positions) /\ queue # << >>
      /\ task \in LaneTasks /\ i \in DOMAIN task.queues /\ i \in DOMAIN task.missed
  BY <1>1, <1>2, EachIsCounted DEF Drain
<1>4. NothingIsLost
  BY <1>1, EachIsCounted
<1>5. IsInjective(queue) /\ IsInjective(back) /\ ToSet(queue) \cap ToSet(back) = {}
  BY <1>1, <1>2, <1>4 DEF NothingIsLost, TaskAt
<1>6. Owed(i) = ToSet(queue) \cup ToSet(back)
  BY <1>2 DEF Owed
<1>7. PICK head, others : head = Head(queue) /\ others = Tail(queue)
  OBVIOUS
<1>8. /\ head \in Positions /\ others \in Seq(Positions) /\ ToSet(queue) = {head} \cup ToSet(others)
      /\ head \notin ToSet(others) /\ IsInjective(others)
  BY <1>3, <1>5, <1>7, HeadTailIs
<1>9. CASE task' = [task EXCEPT !.got = @ \cup {Head(task.queues[i])}, !.queues[i] = Tail(@)]
  <2>1. task' = [task EXCEPT !.got = task.got \cup {head},
                             !.queues = [task.queues EXCEPT ![i] = others],
                             !.missed = [task.missed EXCEPT ![i] = back]]
    <3>1. [task.missed EXCEPT ![i] = back] = task.missed
      BY <1>1, <1>2, EachIsCounted
    <3>2. QED
      BY <1>2, <1>3, <1>7, <1>9, <3>1 DEF LaneTasks
  <2>2. {head} \in SUBSET Owed(i) /\ ToSet(others) \cup ToSet(back) = Owed(i) \ {head}
        /\ ToSet(others) \cap ToSet(back) = {}
    BY <1>5, <1>6, <1>8
  <2>3. QED
    BY <1>1, <1>3, <1>5, <1>8, <2>1, <2>2, QueueStep
<1>10. CASE task' = [task EXCEPT !.missed[i] = Append(@, Head(task.queues[i])), !.queues[i] = Tail(@)]
  <2>1. PICK more : more = Append(back, head)
    OBVIOUS
  <2>2. more \in Seq(Positions) /\ ToSet(more) = ToSet(back) \cup {head} /\ IsInjective(more)
    <3>1. head \notin ToSet(back)
      BY <1>5, <1>8
    <3>2. QED
      BY <1>3, <1>5, <1>8, <2>1, <3>1, AppendIs
  <2>3. task' = [task EXCEPT !.got = task.got \cup {},
                             !.queues = [task.queues EXCEPT ![i] = others],
                             !.missed = [task.missed EXCEPT ![i] = more]]
    <3>1. task.got \cup {} = task.got
      OBVIOUS
    <3>2. QED
      BY <1>2, <1>3, <1>7, <1>10, <2>1, <3>1 DEF LaneTasks
  <2>4. {} \in SUBSET Owed(i) /\ ToSet(others) \cup ToSet(more) = Owed(i) \ {}
        /\ ToSet(others) \cap ToSet(more) = {}
    BY <1>5, <1>6, <1>8, <2>2
  <2>5. QED
    BY <1>1, <1>8, <2>2, <2>3, <2>4, QueueStep
<1>11. CASE task' = [task EXCEPT !.missed[i] = @ \o task.queues[i], !.queues[i] = << >>]
  <2>1. PICK more, none : more = back \o queue /\ none = << >>
    OBVIOUS
  <2>2. /\ more \in Seq(Positions) /\ ToSet(more) = ToSet(back) \cup ToSet(queue) /\ IsInjective(more)
        /\ none \in Seq(Positions) /\ ToSet(none) = {} /\ IsInjective(none)
    BY <1>3, <1>5, <2>1, ConcatIs, EmptyIs, EmptyIn
  <2>3. task' = [task EXCEPT !.got = task.got \cup {},
                             !.queues = [task.queues EXCEPT ![i] = none],
                             !.missed = [task.missed EXCEPT ![i] = more]]
    <3>1. task.got \cup {} = task.got
      OBVIOUS
    <3>2. QED
      BY <1>2, <1>3, <1>11, <2>1, <3>1 DEF LaneTasks
  <2>4. {} \in SUBSET Owed(i) /\ ToSet(none) \cup ToSet(more) = Owed(i) \ {}
        /\ ToSet(none) \cap ToSet(more) = {}
    BY <1>6, <2>2
  <2>5. QED
    BY <1>1, <2>2, <2>3, <2>4, QueueStep
<1>12. QED
  BY <1>9, <1>10, <1>11 DEF Drain

LEMMA StoreChunksStep == SwarmInv /\ StoreChunks => SwarmInv'
<1> SUFFICES ASSUME SwarmInv, StoreChunks PROVE SwarmInv'
  OBVIOUS
<1>1. PICK put \in SUBSET task.got :
        /\ store' = store \cup put
        /\ task' = IF put = task.got
                   THEN [task EXCEPT !.pc = "home", !.rest = @ \o FlattenSeq(task.missed)]
                   ELSE [task EXCEPT !.pc = "failed"]
  BY DEF StoreChunks
<1>2. /\ task.pc = "draining" /\ \A i \in DOMAIN task.queues : task.queues[i] = << >>
      /\ UNCHANGED <<native, laneVars, conn, homeVars, stalled, joined, dialled, swarm, bounds>>
  BY DEF StoreChunks, TaskAt
<1>3. PICK n \in Nat : n = Len(swarm) /\ DOMAIN swarm = 1..n
  BY <1>2, EachIsCounted
<1>4. /\ task \in LaneTasks /\ task.queues \in [1..n -> Seq(Positions)]
      /\ task.missed \in [1..n -> Seq(Positions)] /\ Len(task.missed) = n
      /\ store = Positions \ task.missing /\ NothingIsLost
  BY <1>2, <1>3, EachIsCounted
<1>5. PICK rest : rest = task.rest \o FlattenSeq(task.missed)
  OBVIOUS
<1>6. /\ rest \in Seq(Positions)
      /\ ToSet(rest) = ToSet(task.rest) \cup UNION {ToSet(task.missed[i]) : i \in 1..n}
  <2>1. PICK missed \in Seq(Seq(Positions)) : missed = task.missed
    BY <1>4 DEF LaneTasks
  <2>2. /\ FlattenSeq(missed) \in Seq(Positions)
        /\ ToSet(FlattenSeq(missed)) = UNION {ToSet(missed[i]) : i \in 1..Len(missed)}
    BY <2>1, FlattenIs
  <2>3. task.rest \in Seq(Positions)
    BY <1>4 DEF LaneTasks
  <2>4. rest \in Seq(Positions) /\ ToSet(rest) = ToSet(task.rest) \cup ToSet(FlattenSeq(missed))
    BY <1>5, <2>1, <2>2, <2>3, ConcatIs
  <2>5. QED
    BY <1>4, <2>1, <2>2, <2>4
<1>7. PICK pc \in {"home", "failed"} :
        /\ pc = "home" => put = task.got /\ task' = [task EXCEPT !.pc = "home", !.rest = rest]
        /\ pc = "failed" => task' = [task EXCEPT !.pc = "failed"]
  BY <1>1, <1>5
<1>8. /\ task' \in LaneTasks /\ task'.pc = pc /\ task'.to = task.to /\ task'.left = task.left
      /\ task'.missing = task.missing /\ task'.got = task.got /\ (pc = "home" => task'.rest = rest)
  <2>1. CASE pc = "home"
    BY <1>4, <1>6, <1>7, <2>1 DEF LaneTasks, Stages
  <2>2. CASE pc = "failed"
    BY <1>4, <1>7, <2>2 DEF LaneTasks, Stages
  <2>3. QED
    BY <2>1, <2>2
<1>9. task.got \subseteq task.missing /\ task.missing \subseteq Positions
  BY <1>4 DEF SwarmInv, TaskShapes, LaneTasks
<1>10. LaneShapes' /\ LanesMatch' /\ TaskShapes' /\ MountsAlone' /\ OneDialEach' /\ ChannelsAreTaken'
  <2>1. store' \subseteq Positions
    BY <1>1, <1>4, <1>9
  <2>2. QED
    BY <1>2, <1>7, <1>8, <1>9, <2>1, DownloadAside
<1>11. pc = "home" => Positions \subseteq store' \cup ToSet(task'.rest)
  <2> SUFFICES ASSUME pc = "home", NEW k \in Positions, k \notin store'
               PROVE  k \in ToSet(rest)
    BY <1>8
  <2>1. k \in task.missing /\ k \notin task.got
    BY <1>1, <1>4, <1>7
  <2>2. task.missing = UNION ({task.got, ToSet(task.rest)} \cup {Owed(i) : i \in 1..n})
    BY <1>2, <1>3, <1>4 DEF NothingIsLost, TaskAt
  <2>3. \A i \in 1..n : Owed(i) = ToSet(task.missed[i])
    BY <1>2, <1>4, EmptyIs DEF Owed
  <2>4. k \in ToSet(task.rest) \/ \E i \in 1..n : k \in ToSet(task.missed[i])
    BY <2>1, <2>2, <2>3
  <2>5. QED
    BY <1>6, <2>4
<1>12. NothingForgotten'
  <2>1. ~Seeking'
    BY <1>7, <1>8 DEF Seeking, Trying, Candidates, Rounds
  <2>2. NothingIsLost'
    BY <1>7, <1>8, <1>9, <1>11 DEF NothingIsLost, TaskAt
  <2>3. QED
    BY <1>7, <1>8, <1>11, <2>1, <2>2 DEF NothingForgotten
<1>13. QED
  BY <1>10, <1>12 DEF SwarmInv

LEMMA AskHomeStep == SwarmInv /\ AskHome => SwarmInv'
<1> SUFFICES ASSUME SwarmInv, AskHome PROVE SwarmInv'
  OBVIOUS
<1>1. /\ task.pc = "home" /\ task \in LaneTasks /\ task.rest # << >> /\ task.rest \in Seq(Positions)
      /\ UNCHANGED <<native, laneVars, conn, homeVars, stalled, joined, dialled, swarm, bounds>>
  BY DEF AskHome, SwarmInv, TaskShapes, TaskAt, LaneTasks
<1>2. PICK head, others : head = Head(task.rest) /\ others = Tail(task.rest)
  OBVIOUS
<1>3. head \in Positions /\ others \in Seq(Positions) /\ ToSet(task.rest) = {head} \cup ToSet(others)
  BY <1>1, <1>2, HeadTailIs
<1>4. PICK pc \in {"home", "failed"} :
        /\ pc = "home" => store' = store \cup {head} /\ task' = [task EXCEPT !.rest = others]
        /\ pc = "failed" => store' = store /\ task' = [task EXCEPT !.pc = "failed"]
  BY <1>2 DEF AskHome, Go
<1>5. /\ task' \in LaneTasks /\ task'.pc = pc /\ task'.to = task.to /\ task'.left = task.left
      /\ task'.missing = task.missing /\ task'.got = task.got /\ (pc = "home" => task'.rest = others)
  <2>1. CASE pc = "home"
    BY <1>1, <1>3, <1>4, <2>1 DEF LaneTasks, Stages
  <2>2. CASE pc = "failed"
    BY <1>1, <1>4, <2>2 DEF LaneTasks, Stages
  <2>3. QED
    BY <2>1, <2>2
<1>6. store \subseteq Positions /\ task.got \subseteq task.missing /\ task.missing \subseteq Positions
      /\ Positions \subseteq store \cup ToSet(task.rest)
  BY <1>1 DEF SwarmInv, TaskShapes, LaneTasks, NothingForgotten
<1>7. store' \subseteq Positions /\ (pc = "home" => Positions \subseteq store' \cup ToSet(task'.rest))
  BY <1>3, <1>4, <1>5, <1>6
<1>8. LaneShapes' /\ LanesMatch' /\ TaskShapes' /\ MountsAlone' /\ OneDialEach' /\ ChannelsAreTaken'
  BY <1>1, <1>4, <1>5, <1>6, <1>7, DownloadAside
<1>9. NothingForgotten'
  <2>1. ~Seeking'
    BY <1>4, <1>5 DEF Seeking, Trying, Candidates, Rounds
  <2>2. NothingIsLost'
    BY <1>4, <1>5, <1>6, <1>7 DEF NothingIsLost, TaskAt
  <2>3. QED
    BY <1>4, <1>5, <1>7, <2>1, <2>2 DEF NothingForgotten
<1>10. QED
  BY <1>8, <1>9 DEF SwarmInv

LEMMA FetchEndsStep == SwarmInv /\ FetchEnds => SwarmInv'
<1> SUFFICES ASSUME SwarmInv, FetchEnds PROVE SwarmInv'
  OBVIOUS
<1>1. task.pc = "home" /\ task.rest = << >> /\ task' = [task EXCEPT !.pc = "done"] /\ UNCHANGED onlyTask
  BY DEF FetchEnds, TaskAt, Go
<1>2. /\ task \in LaneTasks /\ store \subseteq Positions /\ task.got \subseteq task.missing
      /\ Positions \subseteq store \cup ToSet(task.rest)
  BY <1>1 DEF SwarmInv, TaskShapes, NothingForgotten
<1>3. store' = store /\ store = Positions
  BY <1>1, <1>2, EmptyIs DEF onlyTask
<1>4. /\ task' \in LaneTasks /\ task'.pc = "done" /\ task'.to = task.to /\ task'.left = task.left
      /\ task'.missing = task.missing /\ task'.got = task.got
  BY <1>1, <1>2 DEF LaneTasks, Stages
<1>5. LaneShapes' /\ LanesMatch' /\ TaskShapes' /\ MountsAlone' /\ OneDialEach' /\ ChannelsAreTaken'
  BY <1>1, <1>2, <1>3, <1>4, DownloadAside DEF onlyTask
<1>6. NothingForgotten'
  BY <1>3, <1>4 DEF NothingForgotten, NothingIsLost, TaskAt, Seeking, Trying, Candidates, Rounds
<1>7. QED
  BY <1>5, <1>6 DEF SwarmInv

-----------------------------------------------------------------------------
(* The watcher, the network, and the lane the mesh keeps.                    *)

\* What touches neither lanes nor the task.
Weather ==
    \/ HealthTick \/ (\E p \in Peers : ConnectionTimesOut(p))
    \/ MeshIsJoined \/ HomeFlaps \/ HomeTimesOut \/ (\E p \in Remotes : Stall(p))

LEMMA WeatherStep == SwarmInv /\ Weather => SwarmInv'
<1> SUFFICES ASSUME SwarmInv, Weather PROVE SwarmInv'
  OBVIOUS
<1>1. UNCHANGED <<native, near, far, whole, dialled, swarm, task, store, fetches>>
  BY DEF Weather, HealthTick, ConnectionTimesOut, MeshIsJoined, HomeFlaps, HomeTimesOut, Stall,
         laneVars, bounds
<1>2. TaskShapes' /\ MountsAlone' /\ OneDialEach' /\ NothingForgotten'
  BY <1>1, TaskRests
<1>3. LanesMatch' /\ ChannelsAreTaken'
  BY <1>1 DEF SwarmInv, LanesMatch, ChannelsAreTaken
<1>4. conn' \in [Remotes -> {"none", "up", "silent", "closed"}]
  BY DEF Weather, HealthTick, ConnectionTimesOut, MeshIsJoined, HomeFlaps, HomeTimesOut, Stall,
         SwarmInv, LaneShapes
<1>5. troubles' \in 0..MaxTroubles
  <2>1. Trouble \/ UNCHANGED troubles
    BY DEF Weather, HealthTick, ConnectionTimesOut, MeshIsJoined, HomeFlaps, HomeTimesOut, Stall, bounds
  <2>2. QED
    BY <2>1, TroubleIs
<1>6. since' \in 0..Grace + 1
  <2>1. since \in 0..Grace + 1 /\ since \in Nat /\ Grace \in Nat
    BY SwarmAssumption DEF SwarmInv, LaneShapes
  <2>2. since' \in {since, 0, Min({since, Grace}) + 1}
    BY DEF Weather, HealthTick, ConnectionTimesOut, MeshIsJoined, HomeFlaps, HomeTimesOut, Stall, homeVars
  <2>3. Min({since, Grace}) \in Nat /\ Min({since, Grace}) <= Grace
    BY <2>1, LeastOfTwo
  <2>4. QED
    BY <2>1, <2>2, <2>3
<1>7. /\ joined' \in BOOLEAN /\ ice' \in {"connected", "disconnected", "failed", "detached"}
      /\ stalled' \subseteq Remotes
  BY DEF Weather, HealthTick, ConnectionTimesOut, MeshIsJoined, HomeFlaps, HomeTimesOut, Stall,
         homeVars, SwarmInv, LaneShapes
<1>8. LaneShapes'
  BY <1>1, <1>4, <1>5, <1>6, <1>7 DEF SwarmInv, LaneShapes
<1>9. QED
  BY <1>2, <1>3, <1>8 DEF SwarmInv

\* A channel forms, dies or is let go of.
LEMMA ChannelStep ==
    ASSUME SwarmInv, NEW p \in Remotes, MeshRound(p) \/ ChannelDies(p) \/ NearDetaches(p) \/ FarDetaches(p)
    PROVE  SwarmInv'
<1>1. near \in [Remotes -> SUBSET {"mount", "mesh"}] /\ far \in [Remotes -> BOOLEAN]
      /\ whole \in [Remotes -> {"none", "mount", "mesh"}]
      /\ conn \in [Remotes -> {"none", "up", "silent", "closed"}]
  BY DEF SwarmInv, LaneShapes
<1>2. whole[p] # "none" => whole[p] \in near[p] /\ far[p]
  BY DEF SwarmInv, LanesMatch
<1>3. UNCHANGED <<native, joined, dialled, swarm, task, store, ice, since, stalled, fetches>>
  BY DEF MeshRound, ChannelDies, NearDetaches, FarDetaches, homeVars, bounds
<1>4. TaskShapes' /\ MountsAlone' /\ OneDialEach' /\ NothingForgotten'
  BY <1>3, TaskRests
<1>5. near[p] \in SUBSET {"mount", "mesh"} /\ far[p] \in BOOLEAN /\ whole[p] \in {"none", "mount", "mesh"}
      /\ near = [near EXCEPT ![p] = near[p]] /\ far = [far EXCEPT ![p] = far[p]]
      /\ whole = [whole EXCEPT ![p] = whole[p]]
  BY <1>1
<1>6. troubles' \in 0..MaxTroubles
  <2>1. Trouble \/ UNCHANGED troubles
    BY DEF MeshRound, ChannelDies, NearDetaches, FarDetaches, bounds
  <2>2. QED
    BY <2>1, TroubleIs
<1>7. conn' \in [Remotes -> {"none", "up", "silent", "closed"}]
  BY <1>1 DEF MeshRound, ChannelDies, NearDetaches, FarDetaches
<1>8. PICK hubs \in SUBSET {"mount", "mesh"}, there \in BOOLEAN, hub \in {"none", "mount", "mesh"} :
        /\ near' = [near EXCEPT ![p] = hubs] /\ far' = [far EXCEPT ![p] = there]
        /\ whole' = [whole EXCEPT ![p] = hub]
        /\ hub # "none" => hub \in hubs /\ there
        /\ hub \in {"none", whole[p], MeshHub}
  <2>1. CASE MeshRound(p)
    <3>1. PICK hubs, hub : hub = MeshHub /\ hubs = near[p] \cup {hub}
      OBVIOUS
    <3>2. hub \in {"none", "mount", "mesh"} /\ hubs \in SUBSET {"mount", "mesh"} /\ hub \in hubs
      BY <1>5, <3>1 DEF MeshHub
    <3>3. near' = [near EXCEPT ![p] = hubs] /\ far' = [far EXCEPT ![p] = TRUE] /\ whole' = [whole EXCEPT ![p] = hub]
      BY <2>1, <3>1 DEF MeshRound
    <3>4. QED
      BY <3>1, <3>2, <3>3
  <2>2. CASE ChannelDies(p)
    <3>1. near' = near /\ far' = far /\ whole' = [whole EXCEPT ![p] = "none"]
      BY <2>2 DEF ChannelDies
    <3>2. QED
      BY <1>5, <3>1
  <2>3. CASE NearDetaches(p)
    <3>1. PICK gone \in near[p] : whole[p] # gone /\ near' = [near EXCEPT ![p] = @ \ {gone}]
      BY <2>3 DEF NearDetaches
    <3>2. PICK hubs : hubs = near[p] \ {gone}
      OBVIOUS
    <3>3. near' = [near EXCEPT ![p] = hubs] /\ far' = far /\ whole' = whole
      BY <2>3, <3>1, <3>2 DEF NearDetaches
    <3>4. hubs \in SUBSET {"mount", "mesh"} /\ (whole[p] # "none" => whole[p] \in hubs /\ far[p])
      BY <1>2, <1>5, <3>1, <3>2
    <3>5. QED
      BY <1>5, <3>3, <3>4
  <2>4. CASE FarDetaches(p)
    <3>1. near' = near /\ far' = [far EXCEPT ![p] = FALSE] /\ whole' = whole /\ whole[p] = "none"
      BY <2>4 DEF FarDetaches
    <3>2. QED
      BY <1>5, <3>1
  <2>5. QED
    BY <2>1, <2>2, <2>3, <2>4
<1>9. LaneShapes' /\ LanesMatch'
  BY <1>3, <1>6, <1>7, <1>8, LaneStep
<1>10. ChannelsAreTaken'
  <2> SUFFICES ASSUME task.pc = "conceded" PROVE whole'[task.to] # "mount"
    BY <1>3 DEF ChannelsAreTaken
  <2>1. whole[task.to] # "mount" /\ ~native
    BY DEF SwarmInv, ChannelsAreTaken, MountsAlone, Rounds
  <2>2. MeshHub = "mesh"
    BY <2>1 DEF MeshHub
  <2>3. task.to \in Remotes
    BY DEF SwarmInv, TaskShapes, LaneTasks
  <2>4. CASE task.to = p
    BY <1>1, <1>8, <2>1, <2>2, <2>4
  <2>5. CASE task.to # p
    BY <1>1, <1>8, <2>1, <2>3, <2>5
  <2>6. QED
    BY <2>4, <2>5
<1>11. QED
  BY <1>4, <1>9, <1>10 DEF SwarmInv

LEMMA SwarmStarts == SwarmInit => SwarmInv
<1> SUFFICES ASSUME SwarmInit PROVE SwarmInv
  OBVIOUS
<1>1. PICK nobody \in Seq(Peers) : nobody = << >>
  BY EmptyIn
<1>2. PICK nothing \in Seq(Positions) : nothing = << >>
  BY EmptyIn
<1>3. PICK none \in Seq(Seq(Positions)) : none = << >>
  BY EmptyIn
<1>4. task = [pc |-> "connect", to |-> Home, left |-> nobody, offers |-> 0, waited |-> 0,
              missing |-> {}, queues |-> none, got |-> {}, missed |-> none, rest |-> nothing]
  BY <1>1, <1>2, <1>3 DEF SwarmInit, Idle
<1>5. 0 \in 0..2 /\ {} \in SUBSET Positions /\ Home \in Remotes /\ "connect" \in Stages /\ Home \notin Peers
  BY SwarmAssumption DEF Remotes, Stages
<1>6. task \in LaneTasks /\ task.pc = "connect" /\ task.to = Home /\ task.left = << >>
  BY <1>1, <1>4, <1>5 DEF LaneTasks
<1>7. TaskShapes
  BY <1>1, <1>4, <1>6 DEF SwarmInit, TaskShapes
<1>8. LaneShapes /\ LanesMatch
  <2>1. 0 \in 0..Grace + 1 /\ 0 \in 0..MaxTroubles /\ 0 \in 0..MaxFetches
    BY SwarmAssumption
  <2>2. near \in [Remotes -> SUBSET {"mount", "mesh"}] /\ far \in [Remotes -> BOOLEAN]
        /\ whole \in [Remotes -> {"none", "mount", "mesh"}]
        /\ conn \in [Remotes -> {"none", "up", "silent", "closed"}]
    BY DEF SwarmInit
  <2>3. LaneShapes
    BY <2>1, <2>2 DEF SwarmInit, LaneShapes
  <2>4. LanesMatch
    BY DEF SwarmInit, LanesMatch
  <2>5. QED
    BY <2>3, <2>4
<1>9. MountsAlone /\ OneDialEach /\ ChannelsAreTaken
  BY <1>5, <1>6, EmptyIs DEF SwarmInit, MountsAlone, OneDialEach, ChannelsAreTaken, Trying, Rounds, Candidates
<1>10. NothingForgotten
  BY <1>5, <1>6 DEF NothingForgotten, NothingIsLost, TaskAt, Seeking, Trying, Rounds, Candidates
<1>11. QED
  BY <1>7, <1>8, <1>9, <1>10 DEF SwarmInv

LEMMA SwarmStep == SwarmInv /\ [SwarmNext]_swarmVars => SwarmInv'
<1> SUFFICES ASSUME SwarmInv, [SwarmNext]_swarmVars PROVE SwarmInv'
  OBVIOUS
<1>1. CASE Round
  BY <1>1, OfferStep, RefusedStep, CompleteStep DEF Round
<1>2. CASE Connecting \/ Dialling \/ BeginFetch
  BY <1>2, ConnectingStep, DiallingStep, BeginFetchStep
<1>3. CASE Downloading
  BY <1>3, AskHoldingsStep, DrainStep, StoreChunksStep, AskHomeStep, FetchEndsStep DEF Downloading
<1>4. CASE Weather
  BY <1>4, WeatherStep
<1>5. CASE \E p \in Remotes : MeshRound(p) \/ ChannelDies(p) \/ NearDetaches(p) \/ FarDetaches(p)
  BY <1>5, ChannelStep
<1>6. CASE UNCHANGED swarmVars
  <2>1. UNCHANGED <<native, joined, near, far, whole, ice, since, stalled, troubles, fetches, conn>>
        /\ UNCHANGED <<native, dialled, swarm, task, store>>
    BY <1>6 DEF swarmVars, laneVars, homeVars, bounds
  <2>2. LaneShapes' /\ LanesMatch' /\ ChannelsAreTaken'
    BY <2>1 DEF SwarmInv, LaneShapes, LanesMatch, ChannelsAreTaken
  <2>3. QED
    BY <2>1, <2>2, TaskRests DEF SwarmInv
<1>7. QED
  BY <1>1, <1>2, <1>3, <1>4, <1>5, <1>6 DEF SwarmNext, Network, Weather

(* What a peer's lanes and a tab's downloads keep true: the two ends of a    *)
(* channel agree, a candidate is dialled once, and each missing chunk is in  *)
(* one place from the plan to the store (lib.rs, swarm.rs, webrtc.rs).       *)
THEOREM SwarmInvariant == SwarmSpec => []SwarmInv
<1>1. QED
  BY SwarmStarts, SwarmStep, PTL DEF SwarmSpec

(* A download that ends well has its file whole, nothing is forgotten on the *)
(* way, no peer is two sources, and no channel of the mount's own is thrown  *)
(* away by the wait for it.                                                  *)
THEOREM DownloadsStayTrue == SwarmSpec => []DownloadsAreTrue
<1>1. SwarmInv => DownloadsAreTrue
  <2> SUFFICES ASSUME SwarmInv PROVE DownloadsAreTrue
    OBVIOUS
  <2>1. ToSet(swarm) \subseteq Peers
    BY SeqIs DEF SwarmInv, TaskShapes
  <2>2. SwarmTypeOK
    BY <2>1 DEF SwarmInv, LaneShapes, TaskShapes, LaneTasks, SwarmTypeOK
  <2>3. QED
    BY <2>2 DEF SwarmInv, DownloadsAreTrue, NothingForgotten, OneDialEach, ChannelsAreTaken, TaskAt
<1>2. QED
  BY <1>1, SwarmInvariant, PTL
=============================================================================
