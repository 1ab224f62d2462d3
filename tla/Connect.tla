-------------------------------- MODULE Connect --------------------------------
(***************************************************************************)
(* ShareClient.connect in a browser tab: the dial of the origin raced      *)
(* against the share's mesh, the membership every attempt of the tab waits *)
(* on, the roster of seeders it vetted before, and what becomes of all of  *)
(* them when a client is released (agent-share-wasm-client, lib.rs).       *)
(*                                                                         *)
(* The share is unsigned: a seeder answers for one tree, and the cards of  *)
(* the mesh vote on which.  Time in an attempt is a stage: 0 before the    *)
(* seeder lane starts, 1 before the origin may be conceded, 2 while a slow *)
(* origin may answer, 3 at the cap of the dial.                            *)
(***************************************************************************)
EXTENDS Naturals, FiniteSets, Sequences

CONSTANTS
    Attempts,      \* the connects that may be under way in the tab, a client each
    Peers,         \* the seeders that have a card
    Trees,         \* the trees they may serve
    Files,         \* Files[t]: the sizes of tree t's files, 0 for a tombstone
    Window,        \* MAX_READ_LEN
    Reaches,       \* how much of one read a channel may carry before it freezes
    Members,       \* identities a waiting membership may have
    StrikeLimit,   \* KNOWN_SEEDER_STRIKE_LIMIT
    TightTries,    \* attempts of a client that get the tight cap
    MaxMoves       \* bound: peers that go, move on to another tree, and origins that come

ASSUME ConnectAssumption ==
    /\ IsFiniteSet(Attempts)
    /\ Trees \subseteq Nat \ {0} /\ Trees # {} /\ Members \subseteq Nat \ {0}
    /\ \A t \in Trees : Files[t] \in Seq(Nat)
    /\ Reaches \subseteq Nat /\ Window \in Nat
    /\ StrikeLimit \in Nat \ {0} /\ {TightTries, MaxMoves} \subseteq Nat

VARIABLES
    origin,    \* whether the origin answers, after a slow dial
    peer,      \* peer[p]: [alive, tree, reach]; tree: what it serves or its card still names
    cards,     \* the peers whose cards have arrived
    known,     \* localStorage: the record of each vetted seeder, tree 0 for none
    waiting,   \* WAITING_MESHES: the registered membership, 0 for none
    member,    \* member[m]: [state, duplicate]
    attempt,   \* attempt[a]: a connect under way
    client,    \* client[a]: the client it became
    tries,     \* attempts that failed, up to TightTries
    missed,    \* history: the lanes in a row that tried and could not reach a seeder
    moves

world == <<origin, peer, cards, moves>>
roster == <<known, missed>>
meshes == <<waiting, member>>
vars == <<world, roster, meshes, attempt, client, tries>>

NoRecord == [tree |-> 0, strikes |-> 0]
Idle == [pc |-> "idle", stage |-> 0, dial |-> "none", tight |-> FALSE, m |-> 0,
         proven |-> FALSE, dialling |-> {}, landed |-> {}, want |-> 0]
NoClient == [slot |-> "none", m |-> 0, joining |-> FALSE, challenged |-> 0, from |-> 0, tree |-> 0]
Free == [state |-> "free", duplicate |-> FALSE]

Running(a) == attempt[a].pc # "idle"
Connected(a) == client[a].slot \in {"pending", "own", "shared"}

\* Rc::strong_count of a membership's peer.
Refs(m) ==
    (IF waiting = m THEN 1 ELSE 0)
    + Cardinality({a \in Attempts : client[a].slot = "shared" /\ client[a].m = m})
    + Cardinality({a \in Attempts : attempt[a].m = m})

-----------------------------------------------------------------------------
(* The roster of vetted seeders and the vote.                               *)

Recorded == {p \in Peers : known[p].tree # 0}

Votes(among, tree) == Cardinality({p \in among : peer[p].tree = tree})
Majorities(among) ==
    {t \in Trees : Votes(among, t) > 0 /\ \A u \in Trees : Votes(among, u) <= Votes(among, t)}

\* Mutant: every endpoint that was dialled without a win is forgotten.
AfterFailedLaneForgetting(list, unreached, answered) ==
    [p \in Peers |-> IF p \in unreached \cup answered THEN NoRecord ELSE list[p]]

\* roster_after_failed_lane: only a seeder nothing could reach is struck.
AfterFailedLane(list, unreached, answered) ==
    [p \in Peers |->
        CASE list[p].tree = 0 -> NoRecord
          [] list[p].tree # 0 /\ p \in answered -> [list[p] EXCEPT !.strikes = 0]
          [] list[p].tree # 0 /\ p \in unreached \ answered ->
                IF list[p].strikes + 1 < StrikeLimit
                THEN [list[p] EXCEPT !.strikes = @ + 1] ELSE NoRecord
          [] OTHER -> list[p]]

Missed(unreached, answered) ==
    [p \in Peers |->
        CASE p \in answered -> 0
          [] p \in unreached \ answered ->
                IF missed[p] < StrikeLimit THEN missed[p] + 1 ELSE missed[p]
          [] OTHER -> missed[p]]

\* remember_known_seeder: a vote, and nothing else, writes a record.  There are
\* fewer peers than KNOWN_SEEDERS_CAP.
remember_known_seeder(list, p, tree) == [list EXCEPT ![p] = [tree |-> tree, strikes |-> 0]]

-----------------------------------------------------------------------------
(* The bulk probe of a channel, at the end of a vet.                        *)

\* What a read of a file asks for: a window of it at most.
Asks(size) == IF size < Window THEN size ELSE Window

\* probe_target: the largest file that has bytes, the last among equals, if any.
probe_target(files) ==
    LET live == {i \in DOMAIN files : files[i] > 0}
    IN  {[index |-> i, want |-> Asks(files[i])] :
            i \in {k \in live : \A j \in live : files[j] < files[k] \/ (files[j] = files[k] /\ j <= k)}}

\* drain_with_stall_deadline: every piece renews the window, so that slowness
\* passes; a body that stops or ends before its last byte does not.
Drains(p, len) == len <= peer[p].reach

\* probe_read: the peer serves all that is asked for, or nothing.
probe_read(p, target) == peer[p].reach > 0 /\ Drains(p, target.want)

Passes(p) == \A target \in probe_target(Files[peer[p].tree]) : probe_read(p, target)

-----------------------------------------------------------------------------
(* An attempt and the origin's half of its race.                            *)

Start(a) ==
    /\ ~Running(a) /\ ~Connected(a) /\ ~client[a].joining
    /\ \E tight \in BOOLEAN :
        /\ tight => tries[a] < TightTries
        /\ attempt' = [attempt EXCEPT ![a] =
                [Idle EXCEPT !.pc = "head", !.dial = "dialling", !.tight = tight]]
    /\ client' = [client EXCEPT ![a] = NoClient]
    /\ UNCHANGED <<world, roster, meshes, tries>>

\* The cap outlasts a dial that is going to be answered, unless it is tight.
Tick(a) ==
    /\ Running(a) /\ attempt[a].stage < 3
    /\ attempt[a].dial = "dialling" \/ attempt[a].stage = 0
    /\ attempt[a].stage = 2 => attempt[a].tight \/ ~origin
    /\ attempt' = [attempt EXCEPT ![a].stage = @ + 1,
                                  ![a].dial = IF attempt[a].stage = 2 THEN "failed" ELSE @]
    /\ UNCHANGED <<world, roster, meshes, client, tries>>

OriginAnswers(a) ==
    /\ Running(a) /\ attempt[a].dial = "dialling" /\ attempt[a].stage = 2 /\ origin
    /\ attempt' = [attempt EXCEPT ![a] = Idle]
    /\ client' = [client EXCEPT ![a] = [NoClient EXCEPT !.slot = "pending", !.joining = TRUE]]
    /\ tries' = [tries EXCEPT ![a] = 0]
    /\ UNCHANGED <<world, roster, meshes>>

\* Mutant: a card that vouches is proof enough.
ProvenByCards(a) == attempt[a].proven \/ cards # {}

Proven(a) == attempt[a].proven

Concede(a) ==
    /\ Running(a) /\ attempt[a].dial = "dialling" /\ attempt[a].stage >= 2 /\ Proven(a)
    /\ attempt' = [attempt EXCEPT ![a].dial = "failed", ![a].stage = 3]
    /\ UNCHANGED <<world, roster, meshes, client, tries>>

BothFailed(a) ==
    /\ attempt[a].pc = "failed" /\ attempt[a].dial = "failed"
    /\ attempt' = [attempt EXCEPT ![a] = Idle]
    /\ tries' = [tries EXCEPT ![a] = IF @ < TightTries THEN @ + 1 ELSE @]
    /\ UNCHANGED <<world, roster, meshes, client>>

-----------------------------------------------------------------------------
(* The seeder lane.                                                         *)

Lane(a, next) == attempt' = [attempt EXCEPT ![a] = next]

Failed(record) ==
    [record EXCEPT !.pc = "failed", !.m = 0, !.dialling = {}, !.landed = {}, !.want = 0]

\* The seeders remembered go first; without any, the cards are waited for.
Redialling(record, m) ==
    [record EXCEPT !.m = m, !.pc = IF Recorded = {} THEN "cards" ELSE "redial",
                   !.dialling = Recorded]

Enter(a) ==
    /\ attempt[a].pc = "head" /\ attempt[a].stage >= 1
    /\ Lane(a, IF waiting = 0 THEN [attempt[a] EXCEPT !.pc = "minting"]
               ELSE Redialling(attempt[a], waiting))
    /\ UNCHANGED <<world, roster, meshes, client, tries>>

\* claim_waiting_mesh: a membership minted second is closed where it is.
Claim(m) ==
    /\ waiting' = IF waiting = 0 THEN m ELSE waiting
    /\ member' = IF waiting = 0 THEN [member EXCEPT ![m] = [Free EXCEPT !.state = "joined"]]
                 ELSE member

FreeMembers == {m \in Members : member[m].state # "joined" /\ Refs(m) = 0}

Minted(a) ==
    /\ attempt[a].pc = "minting" /\ FreeMembers # {}
    /\ Claim(CHOOSE m \in FreeMembers : \A n \in FreeMembers : m <= n)
    /\ Lane(a, Redialling(attempt[a], waiting'))
    /\ UNCHANGED <<world, roster, client, tries>>

JoinFails(a) ==
    /\ attempt[a].pc = "minting" /\ Lane(a, Failed(attempt[a]))
    /\ UNCHANGED <<world, roster, meshes, client, tries>>

\* The tree a candidate is held to.
Asked(a, p) == IF attempt[a].pc = "redial" THEN known[p].tree ELSE attempt[a].want

(* A candidate's connection lands, which proves that the mesh can serve: from *)
(* here on the origin may be conceded, whatever the vet makes of the peer.    *)
peer_answered(a, p) ==
    /\ p \in attempt[a].dialling \ attempt[a].landed /\ peer[p].alive
    /\ Lane(a, [attempt[a] EXCEPT !.landed = @ \cup {p}, !.proven = TRUE])
    /\ UNCHANGED <<world, roster, meshes, client, tries>>

Serves(a, p) == peer[p].alive /\ peer[p].tree = Asked(a, p) /\ Passes(p)

(* adopt_vetted: the client lives on the attempt's membership.  A win of the *)
(* redial clears the record's strikes and leaves its age; a win of the vote  *)
(* writes a record.                                                          *)
Won(a, p) ==
    /\ p \in attempt[a].landed /\ Serves(a, p)
    /\ client' = [client EXCEPT ![a] =
            [NoClient EXCEPT !.slot = "shared", !.m = attempt[a].m,
                             !.challenged = IF attempt[a].pc = "redial" THEN p ELSE 0,
                             !.from = p, !.tree = peer[p].tree]]
    /\ known' = IF attempt[a].pc = "redial" THEN AfterFailedLane(known, {}, {p})
                ELSE remember_known_seeder(known, p, attempt[a].want)
    /\ missed' = [missed EXCEPT ![p] = 0]
    /\ tries' = [tries EXCEPT ![a] = 0]
    /\ attempt' = [attempt EXCEPT ![a] = Idle]
    /\ UNCHANGED <<world, meshes>>

(* No winner: of the candidates some could not be reached, some landed and    *)
(* were refused over their tree, their probe or a connection that was lost,   *)
(* and the deadline cut the others off, mid-dial or in the middle of a vet.   *)
Refused(a) == {p \in attempt[a].landed : ~Serves(a, p)}

RedialOver(a) ==
    /\ attempt[a].pc = "redial"
    /\ \E answered \in SUBSET Refused(a) :
       \E unreached \in SUBSET (attempt[a].dialling \ attempt[a].landed) :
        /\ known' = AfterFailedLane(known, unreached, answered)
        /\ missed' = Missed(unreached, answered)
        /\ Lane(a, [attempt[a] EXCEPT !.pc = "cards", !.dialling = {}, !.landed = {}])
    /\ UNCHANGED <<world, meshes, client, tries>>

Vouched(a) ==
    /\ attempt[a].pc = "cards"
    /\ \E tree \in Majorities(cards) :
        Lane(a, [attempt[a] EXCEPT !.pc = "race", !.want = tree,
                                   !.dialling = {p \in cards : peer[p].tree = tree}])
    /\ UNCHANGED <<world, roster, meshes, client, tries>>

NobodyVouches(a) ==
    /\ attempt[a].pc = "cards" /\ cards = {} /\ Lane(a, Failed(attempt[a]))
    /\ UNCHANGED <<world, roster, meshes, client, tries>>

RaceOver(a) ==
    /\ attempt[a].pc = "race" /\ Lane(a, Failed(attempt[a]))
    /\ UNCHANGED <<world, roster, meshes, client, tries>>

-----------------------------------------------------------------------------
(* What becomes of a client and of the membership that waited.               *)

Close(m) ==
    /\ waiting' = 0
    /\ member' = [member EXCEPT ![m] = [Free EXCEPT !.state = "closed"]]

\* Mutant: the membership found to be spare is closed under whoever is on it.
SafeAlways(refs) == TRUE

safe_to_retire(refs) == refs <= 1

\* A membership nobody holds is this tab still seeding, unless it is spare.
collect_duplicate_now(m, refs) == member[m].duplicate /\ safe_to_retire(refs)

(* The join of a client that reached the origin lands, or fails; either way  *)
(* the membership that waited is retired, or marked while somebody is on it. *)
JoinEnds(a) ==
    /\ client[a].joining
    /\ \E joined \in BOOLEAN :
        client' = [client EXCEPT ![a].joining = FALSE,
                                 ![a].slot = IF joined /\ @ = "pending" THEN "own" ELSE @]
    /\ CASE waiting = 0 -> UNCHANGED meshes
         [] waiting # 0 /\ safe_to_retire(Refs(waiting)) -> Close(waiting)
         [] OTHER -> member' = [member EXCEPT ![waiting].duplicate = TRUE] /\ UNCHANGED waiting
    /\ UNCHANGED <<world, roster, attempt, tries>>

leave_mesh(a) ==
    /\ Connected(a)
    /\ client' = [client EXCEPT ![a] = [NoClient EXCEPT !.joining = client[a].joining]]
    /\ IF client[a].slot = "shared" /\ client[a].m = waiting
       THEN IF collect_duplicate_now(waiting, Refs(waiting) - 1)
            THEN Close(waiting) ELSE UNCHANGED meshes
       ELSE /\ member' = IF client[a].slot = "shared"
                         THEN [member EXCEPT ![client[a].m].state = "closed"] ELSE member
            /\ UNCHANGED waiting
    /\ UNCHANGED <<world, roster, attempt, tries>>

(* judge_adopted_tree: the cards that came later, the peer's own among them. *)
challenge_adopted_tree(a) ==
    LET p == client[a].challenged
    IN  /\ client[a].slot = "shared" /\ p # 0 /\ cards # {}
        /\ \E tree \in Majorities(cards) :
            known' = IF tree = known[p].tree \/ known[p].tree = 0 THEN known
                     ELSE [known EXCEPT ![p] = NoRecord]
        /\ client' = [client EXCEPT ![a].challenged = 0]
        /\ UNCHANGED <<world, missed, meshes, attempt, tries>>

-----------------------------------------------------------------------------
(* The world.                                                               *)

Moves == moves < MaxMoves /\ moves' = moves + 1

CardArrives(p) ==
    /\ p \notin cards /\ cards' = cards \cup {p} /\ UNCHANGED <<origin, peer, moves>>
PeerGoes(p) ==
    /\ peer[p].alive /\ Moves
    /\ peer' = [peer EXCEPT ![p].alive = FALSE] /\ UNCHANGED <<origin, cards>>
PeerMovesOn(p) ==
    /\ peer[p].alive /\ Moves
    /\ \E t \in Trees : t > peer[p].tree /\ peer' = [peer EXCEPT ![p].tree = t]
    /\ UNCHANGED <<origin, cards>>
OriginReturns == ~origin /\ Moves /\ origin' = TRUE /\ UNCHANGED <<peer, cards>>

-----------------------------------------------------------------------------

First == CHOOSE t \in Trees : \A u \in Trees : t <= u

Init ==
    /\ origin \in BOOLEAN
    /\ peer \in [Peers -> [alive : BOOLEAN, tree : {First}, reach : Reaches]]
    /\ cards = {} /\ waiting = 0 /\ moves = 0
    /\ \E p \in SUBSET Peers :
        known = [q \in Peers |-> IF q \in p THEN [tree |-> First, strikes |-> 0] ELSE NoRecord]
    /\ member = [m \in Members |-> Free]
    /\ attempt = [a \in Attempts |-> Idle]
    /\ client = [a \in Attempts |-> NoClient]
    /\ tries = [a \in Attempts |-> 0]
    /\ missed = [p \in Peers |-> 0]

Race(a) ==
    \/ Start(a) \/ Tick(a) \/ OriginAnswers(a) \/ Concede(a) \/ BothFailed(a)
    \/ Enter(a) \/ Minted(a) \/ JoinFails(a)
    \/ \E p \in Peers : peer_answered(a, p) \/ Won(a, p)
    \/ RedialOver(a) \/ Vouched(a) \/ NobodyVouches(a) \/ RaceOver(a)
    \/ JoinEnds(a)

World ==
    /\ OriginReturns \/ \E p \in Peers : CardArrives(p) \/ PeerGoes(p) \/ PeerMovesOn(p)
    /\ UNCHANGED <<roster, meshes, attempt, client, tries>>

Next ==
    \/ \E a \in Attempts : Race(a) \/ leave_mesh(a) \/ challenge_adopted_tree(a)
    \/ World

Spec == Init /\ [][Next]_vars

-----------------------------------------------------------------------------

ConnectTypeOK ==
    /\ waiting # 0 => member[waiting].state = "joined"
    /\ \A a \in Attempts :
        /\ attempt[a].pc \in {"idle", "head", "minting", "redial", "cards", "race", "failed"}
        /\ attempt[a].pc \in {"redial", "cards", "race"} <=> attempt[a].m # 0
    /\ \A p \in Peers : known[p].tree # 0 => known[p].strikes < StrikeLimit

(* A membership a client serves on, or an attempt dials over, is never closed *)
(* under it, whichever connect finds it to be spare.  safe_to_retire.         *)
LivedOnIsNeverClosed ==
    \A a \in Attempts :
        /\ client[a].slot = "shared" => member[client[a].m].state = "joined"
        /\ attempt[a].m # 0 => member[attempt[a].m].state = "joined"

(* A membership that is on the mesh can still be told to leave: two attempts  *)
(* that mint at once leave one behind.  claim_waiting_mesh.                   *)
NoMembershipIsLost ==
    \A m \in Members :
        member[m].state = "joined" =>
            m = waiting \/ \E a \in Attempts : client[a].slot = "shared" /\ client[a].m = m

(* Memberships are neither lost nor pulled from under their clients.         *)
MembershipsAreKept == LivedOnIsNeverClosed /\ NoMembershipIsLost

(* A client is homed on a channel that carries every read its share can ask   *)
(* of it, not only the one it was probed with: "a share fronted by a 1 KiB    *)
(* README once green-lit the channel" (probe_target).                         *)
HomesCarryTheShare ==
    \A a \in Attempts : client[a].slot = "shared" =>
        \A i \in DOMAIN Files[client[a].tree] :
            Files[client[a].tree][i] > 0 =>
                Asks(Files[client[a].tree][i]) <= peer[client[a].from].reach

(* What a client is homed on lasts: its membership stays, and stays reachable *)
(* for the goodbye, and its channel bears the reads to come.                  *)
ClientsAreWellHomed == ConnectTypeOK /\ MembershipsAreKept /\ HomesCarryTheShare

(* A record is spent by evidence about the peer alone: lanes in a row that    *)
(* could not reach it, or a mesh that serves another tree.                    *)
RecordsAreSpentByEvidence ==
    [][\A p \in Peers :
        known[p].tree # 0 /\ known'[p].tree = 0 =>
            \/ missed'[p] >= StrikeLimit
            \/ \E a \in Attempts : client[a].challenged = p]_vars

Agreeing ==
    \A p \in Peers : peer[p].alive =>
        /\ Passes(p)
        /\ p \in Recorded => known[p].tree = peer[p].tree

(* A lane ends over a candidate that has landed and would pass, in the middle *)
(* of its vet: the probe of a slow seeder may outlast any deadline.           *)
CutsAVetShort ==
    \E a \in Attempts :
        /\ <<attempt[a].pc, attempt'[a].pc>> \in {<<"redial", "cards">>, <<"race", "failed">>}
        /\ \E p \in attempt[a].landed : Serves(a, p)

(* A live origin is not starved by the cards of peers that are gone: the tab  *)
(* connects, though the origin answers only after a dial longer than the      *)
(* floor, as long as no peer that answers fails its vet and no lane's         *)
(* deadline keeps cutting a vet short.                                        *)
LiveOriginsAreReached ==
    <>[](origin /\ Agreeing) /\ <>[][~CutsAVetShort]_vars
        => []<>(\E a \in Attempts : Connected(a))

===============================================================================
