------------------------------- MODULE Swarm -------------------------------
(***************************************************************************)
(* A peer that reaches the others of its share over WebRTC data channels,  *)
(* and a browser tab that downloads one file after another through them:   *)
(* connect_webrtc, dial_swarm and fetch_missing of agent-share-wasm-client *)
(* (lib.rs, swarm.rs), and the native lane of mount/webrtc.rs.             *)
(*                                                                         *)
(* A remote keeps one channel per endpoint id and refuses another; the tab *)
(* keeps the channels of its mount and of its mesh in two hubs, a native   *)
(* mount in one.  A channel is of use once both ends hold it.  A chunk is  *)
(* its position in the file's row; bytes that do not match its address     *)
(* are an answer of their own.                                             *)
(***************************************************************************)
EXTENDS Naturals, SequencesExt

CONSTANTS
    Peers,         \* the holders of the share on the mesh, in the order of their cards
    Home,          \* the peer the mount is on
    Positions,     \* the chunks of a file
    Width,         \* SWARM_WIDTH
    Grace,         \* CHANNEL_DISCONNECT_GRACE_MS, in ticks of the watcher
    MaxFetches,    \* bound: files downloaded
    MaxTroubles    \* bound: channels lost or half formed, stalls, blips

ASSUME SwarmAssumption ==
    /\ Peers \subseteq Nat /\ Home \in Nat \ Peers
    /\ Positions \subseteq Nat /\ IsFiniteSet(Peers) /\ IsFiniteSet(Positions) /\ Width \in Nat /\ Grace \in Nat
    /\ MaxFetches \in Nat /\ MaxTroubles \in Nat

VARIABLES
    native,    \* a native mount: one hub, no swarm
    near,      \* near[p]: the hubs here that hold a channel to p
    far,       \* far[p]: whether p holds a channel to this peer
    whole,     \* whole[p]: the hub whose channel to p both ends hold
    conn,      \* conn[p]: the mount connection to p
    ice,       \* the state of the home connection's data channel
    since,     \* ticks at which the watcher found it disconnected, in a row
    stalled,   \* peers that keep a connection and answer nothing on it
    joined,    \* the mesh is joined
    dialled,   \* swarm_dialled
    swarm,     \* swarm: the peers joined as sources of chunks
    task,      \* the dial or the download under way
    store,     \* the chunks stored of the file under way
    troubles, fetches

laneVars == <<near, far, whole>>
homeVars == <<ice, since>>
bounds == <<troubles, fetches>>
swarmVars == <<native, laneVars, conn, homeVars, stalled, joined, dialled, swarm, task, store, bounds>>

Remotes == Peers \cup {Home}

-----------------------------------------------------------------------------
(* swarm.rs: the plan.  holders[i] is the set of positions peer i claims.    *)

Who(position, holders) == {i \in DOMAIN holders : position \in holders[i]}

\* The elements of a finite set, each before those it comes before.
InOrder(S, before) ==
    CHOOSE seq \in [1..Cardinality(S) -> S] :
        \A a, b \in 1..Cardinality(S) : a < b => <<seq[a], seq[b]>> \in before

Ascending(S) == InOrder(S, {pair \in S \X S : pair[1] < pair[2]})

\* Rarest first, in the order wanted, which is the row's, among the equally rare.
Rarer(S, holders) ==
    LET rarity(k) == Cardinality(Who(k, holders))
    IN  {pair \in S \X S : LET k == pair[1]
                               l == pair[2]
                           IN  rarity(k) < rarity(l) \/ (rarity(k) = rarity(l) /\ k < l)}
Ranked(missing, holders) == InOrder(missing, Rarer(missing, holders))

LeastLoaded(who, queues) ==
    CHOOSE i \in who : \A j \in who :
        \/ Len(queues[i]) < Len(queues[j])
        \/ Len(queues[i]) = Len(queues[j]) /\ i <= j

\* Mutant: what no peer claims is left out of the plan.
AssignHeld(plan, position, holders) ==
    LET who == Who(position, holders)
    IN  IF who = {} THEN plan
        ELSE [plan EXCEPT !.queues[LeastLoaded(who, plan.queues)] = Append(@, position)]

Assign(plan, position, holders) ==
    LET who == Who(position, holders)
    IN  IF who = {} THEN [plan EXCEPT !.unheld = @ \cup {position}]
        ELSE [plan EXCEPT !.queues[LeastLoaded(who, plan.queues)] = Append(@, position)]

Plan(missing, holders) ==
    LET ranked == Ranked(missing, holders)
        upto[n \in 0..Len(ranked)] ==
            IF n = 0 THEN [queues |-> [i \in DOMAIN holders |-> << >>], unheld |-> {}]
            ELSE Assign(upto[n - 1], ranked[n], holders)
    IN  upto[Len(ranked)]

-----------------------------------------------------------------------------
(* The task: one connect, then one download at a time.                       *)

Idle == [pc |-> "connect", to |-> Home, left |-> << >>, offers |-> 0, waited |-> 0,
         missing |-> {}, queues |-> << >>, got |-> {}, missed |-> << >>, rest |-> << >>]

TaskAt(pc) == task.pc = pc
Go(pc) == task' = [task EXCEPT !.pc = pc]
onlyTask == <<native, laneVars, conn, homeVars, stalled, joined, dialled, swarm, store, bounds>>

SwarmInit ==
    /\ native \in BOOLEAN
    /\ near = [p \in Remotes |-> {}] /\ far = [p \in Remotes |-> FALSE]
    /\ whole = [p \in Remotes |-> "none"]
    /\ conn = [p \in Remotes |-> "none"]
    /\ ice = "connected" /\ since = 0 /\ stalled = {}
    /\ joined = FALSE /\ dialled = FALSE /\ swarm = << >>
    /\ task = Idle /\ store = {} /\ troubles = 0 /\ fetches = 0

Trouble == troubles < MaxTroubles /\ troubles' = troubles + 1

\* The hub the mesh lane attaches into.
MeshHub == IF native THEN "mount" ELSE "mesh"

(* One round of offer and answer over the relay: negotiate, dial_webrtc here *)
(* and serve_signal there.  It reads the answer with no deadline of its own, *)
(* so a stretch of the caller's wait may go by meanwhile.                    *)

\* The answerer refuses before it gathers when it holds a channel already.
SignalAnswer(p) == IF far[p] THEN "refused" ELSE "answered"

Offer ==
    /\ TaskAt("connect") \/ TaskAt("offer")
    /\ IF "mount" \in near[task.to] THEN Go("attached")
       ELSE Go("unanswered") \/ Go(SignalAnswer(task.to))
    /\ UNCHANGED onlyTask

\* The refusal names a channel: it is used if the hub has one by now.
Refused ==
    /\ TaskAt("refused")
    /\ Go(IF "mount" \in near[task.to] THEN "attached" ELSE "unanswered")
    /\ UNCHANGED onlyTask

\* An end that has a channel by the time it completes keeps it: natively it is
\* reused, in the browser the attach is an error.
Attaches(p) == "mount" \notin near[p]
Reuses(p) == native /\ ~Attaches(p)
FarAfter(p, there) == [far EXCEPT ![p] = @ \/ there]

\* Both ends complete, each on its own.
Complete ==
    /\ TaskAt("answered")
    /\ \E here, there \in BOOLEAN :
        LET p == task.to
            attaches == here /\ Attaches(p)
            lands == there /\ ~far[p]
        IN  /\ IF attaches # lands THEN Trouble ELSE UNCHANGED troubles
            /\ near' = IF attaches THEN [near EXCEPT ![p] = @ \cup {"mount"}] ELSE near
            /\ far' = FarAfter(p, there)
            /\ whole' = IF attaches /\ lands THEN [whole EXCEPT ![p] = "mount"] ELSE whole
            /\ Go(IF here /\ (attaches \/ Reuses(p)) THEN "attached" ELSE "unanswered")
    /\ UNCHANGED <<native, conn, homeVars, stalled, joined, dialled, swarm, store, fetches>>

(* The home connection.  A path other than the channel, or none, is refused: *)
(* ensure_webrtc_selected, settled_path_label.                               *)

ConnectFails ==
    /\ \/ TaskAt("unanswered") /\ task.to = Home
       \/ TaskAt("attached") /\ task.to = Home
    /\ Go("unmounted")
    /\ UNCHANGED onlyTask

ConnectLands ==
    /\ TaskAt("attached") /\ task.to = Home /\ whole[Home] = "mount"
    /\ conn' = [conn EXCEPT ![Home] = "up"]
    /\ Go("idle")
    /\ UNCHANGED <<native, laneVars, homeVars, stalled, joined, dialled, swarm, store, bounds>>

-----------------------------------------------------------------------------
(* dial_swarm, once in the client's life, and seeder_webrtc_dial.            *)

BeginFetch ==
    /\ ~native /\ fetches < MaxFetches /\ fetches' = fetches + 1
    /\ task.pc \in {"idle", "done", "failed"}
    /\ \E missing \in (SUBSET Positions) \ {{}} :
        /\ task' = [Idle EXCEPT !.pc = "gather", !.missing = missing]
        /\ store' = Positions \ missing
    /\ UNCHANGED <<native, laneVars, conn, homeVars, stalled, joined, dialled, swarm, troubles>>

\* The cards of the moment, none before the mesh is joined.
Gather ==
    /\ TaskAt("gather") /\ dialled' = TRUE
    /\ \E cards \in SUBSET Peers :
        /\ (dialled \/ ~joined) => cards = {}
        /\ LET wide == Ascending(cards)
           IN  task' = [task EXCEPT !.pc = "dialling",
                                    !.left = SubSeq(wide, 1, Min({Len(wide), Width}))]
    /\ UNCHANGED <<native, laneVars, conn, homeVars, stalled, joined, swarm, store, bounds>>

JoinsSwarm(p) ==
    /\ swarm' = Append(swarm, p) /\ conn' = [conn EXCEPT ![p] = "up"]
    /\ Go("dialling")
    /\ UNCHANGED <<native, laneVars, homeVars, stalled, joined, dialled, store, bounds>>

\* The channel there already is, over either hub, before one is offered.
NextCandidate ==
    /\ TaskAt("dialling") /\ task.left # << >>
    /\ task' = [task EXCEPT !.pc = "channel", !.to = Head(task.left), !.left = Tail(@),
                            !.offers = 0, !.waited = 0]
    /\ UNCHANGED onlyTask

TakeChannel ==
    \/ TaskAt("channel") /\ whole[task.to] # "none" /\ JoinsSwarm(task.to)
    \/ TaskAt("channel") /\ whole[task.to] = "none" /\ Go("waiting") /\ UNCHANGED onlyTask

\* reoffer_due: one offer at entry, one past half the wait.
ReofferDue == task.offers = 0 \/ (task.offers = 1 /\ task.waited >= 1)

\* The channel of a round that attached is dialled; it leads nowhere if the other
\* end does not hold it.
DialChannel ==
    \/ TaskAt("waiting") /\ "mount" \in near[task.to]
         /\ whole[task.to] = "mount" /\ JoinsSwarm(task.to)
    \/ TaskAt("waiting") /\ "mount" \in near[task.to]
         /\ whole[task.to] # "mount" /\ Go("conceded") /\ UNCHANGED onlyTask

Reoffer ==
    /\ TaskAt("waiting") /\ "mount" \notin near[task.to] /\ ReofferDue
    /\ task' = [task EXCEPT !.pc = "offer", !.offers = @ + 1]
    /\ UNCHANGED onlyTask

\* Whatever the round says, the hub is asked again before the wait is given up.
RoundEnds ==
    /\ task.pc \in {"attached", "unanswered"} /\ task.to \in Peers
    /\ \E w \in task.waited..2 : task' = [task EXCEPT !.pc = "waiting", !.waited = w]
    /\ UNCHANGED onlyTask

WaitOrConcede ==
    /\ TaskAt("waiting") /\ "mount" \notin near[task.to] /\ ~ReofferDue
    /\ task' = IF task.waited = 2 THEN [task EXCEPT !.pc = "conceded"]
               ELSE [task EXCEPT !.waited = @ + 1]
    /\ UNCHANGED onlyTask

Conceded == TaskAt("conceded") /\ Go("dialling") /\ UNCHANGED onlyTask

-----------------------------------------------------------------------------
(* fetch_missing.                                                            *)

\* A peer whose connection is up and that is not stalled: it answers, be it to
\* refuse.
Answers(p) == conn[p] = "up" /\ p \notin stalled

\* OP_HAVE to every peer of the swarm at once and, when the last one has answered
\* or its connection is gone, the plan over those that said what they hold.  A claim is whatever the peer says.
AskHoldings ==
    /\ TaskAt("dialling") /\ task.left = << >>
    /\ \A i \in DOMAIN swarm : Answers(swarm[i]) \/ conn[swarm[i]] = "closed"
    /\ \E claims \in [DOMAIN swarm -> SUBSET Positions] :
        /\ \A i \in DOMAIN swarm : conn[swarm[i]] = "closed" => claims[i] = {}
        /\ LET plan == Plan(task.missing, claims)
           IN  task' = [task EXCEPT !.pc = "draining", !.queues = plan.queues,
                                    !.missed = [i \in DOMAIN swarm |-> << >>],
                                    !.rest = Ascending(plan.unheld)]
    /\ UNCHANGED onlyTask

\* Mutant: a peer that drops out takes the rest of its queue with it.
DrainForgetting(i) ==
    /\ TaskAt("draining") /\ task.queues[i] # << >>
    /\ LET p == swarm[i]
           queue == task.queues[i]
       IN  \/ /\ Answers(p)
              /\ \/ task' = [task EXCEPT !.got = @ \cup {Head(queue)}, !.queues[i] = Tail(@)]
                 \/ task' = [task EXCEPT !.missed[i] = Append(@, Head(queue)), !.queues[i] = Tail(@)]
           \/ /\ conn[p] = "closed"
              /\ task' = [task EXCEPT !.missed[i] = Append(@, Head(queue)), !.queues[i] = << >>]
    /\ UNCHANGED onlyTask

\* Bytes that do not match their address count as a refusal; a connection that
\* breaks, or an answer cut short, sends the rest of the queue home.
Drain(i) ==
    /\ TaskAt("draining") /\ task.queues[i] # << >>
    /\ LET p == swarm[i]
           queue == task.queues[i]
       IN  \/ /\ Answers(p)
              /\ \/ task' = [task EXCEPT !.got = @ \cup {Head(queue)}, !.queues[i] = Tail(@)]
                 \/ task' = [task EXCEPT !.missed[i] = Append(@, Head(queue)), !.queues[i] = Tail(@)]
           \/ /\ conn[p] = "closed" \/ Answers(p)
              /\ task' = [task EXCEPT !.missed[i] = @ \o queue, !.queues[i] = << >>]
    /\ UNCHANGED onlyTask

\* What the queues brought is stored once all have ended; a store that fails
\* ends the download over what was put before.
StoreChunks ==
    /\ TaskAt("draining") /\ \A i \in DOMAIN task.queues : task.queues[i] = << >>
    /\ \E put \in SUBSET task.got :
        /\ store' = store \cup put
        /\ task' = IF put = task.got
                   THEN [task EXCEPT !.pc = "home", !.rest = @ \o FlattenSeq(task.missed)]
                   ELSE [task EXCEPT !.pc = "failed"]
    /\ UNCHANGED <<native, laneVars, conn, homeVars, stalled, joined, dialled, swarm, bounds>>

\* fetch_or_read_chunk: by address, then by place; bytes that match neither way
\* end the download.
HomeAnswers == Answers(Home) /\ ice = "connected"

AskHome ==
    /\ TaskAt("home") /\ task.rest # << >>
    /\ \/ /\ Head(task.rest) \in store \/ HomeAnswers
          /\ store' = store \cup {Head(task.rest)}
          /\ task' = [task EXCEPT !.rest = Tail(@)]
       \/ /\ Head(task.rest) \notin store
          /\ HomeAnswers \/ conn[Home] = "closed"
          /\ Go("failed") /\ UNCHANGED store
    /\ UNCHANGED <<native, laneVars, conn, homeVars, stalled, joined, dialled, swarm, bounds>>

FetchEnds == TaskAt("home") /\ task.rest = << >> /\ Go("done") /\ UNCHANGED onlyTask

-----------------------------------------------------------------------------
(* watch_channel_health: the home connection's data channel, once a second.  *)

\* Mutant: the grace window never runs out.
JudgeChannelPatiently == ice \in {"failed", "detached"}

JudgeChannel == ice \in {"failed", "detached"} \/ (ice = "disconnected" /\ since > Grace)

HealthTick ==
    /\ ~native /\ conn[Home] = "up"
    /\ IF JudgeChannel
       THEN conn' = [conn EXCEPT ![Home] = "closed"] /\ UNCHANGED since
       ELSE /\ since' = IF ice = "disconnected" THEN Min({since, Grace}) + 1 ELSE 0
            /\ UNCHANGED conn
    /\ UNCHANGED <<native, laneVars, ice, stalled, joined, dialled, swarm, task, store, bounds>>

-----------------------------------------------------------------------------
(* The network, and the lane the mesh keeps to its peers.                    *)

MeshIsJoined ==
    /\ conn[Home] = "up" /\ ~joined /\ joined' = TRUE
    /\ UNCHANGED <<native, laneVars, conn, homeVars, stalled, dialled, swarm, task, store, bounds>>

MeshRound(p) ==
    /\ joined \/ (native /\ p = Home)
    /\ MeshHub \notin near[p] /\ ~far[p]
    /\ near' = [near EXCEPT ![p] = @ \cup {MeshHub}]
    /\ far' = [far EXCEPT ![p] = TRUE]
    /\ whole' = [whole EXCEPT ![p] = MeshHub]
    /\ UNCHANGED <<native, conn, homeVars, stalled, joined, dialled, swarm, task, store, bounds>>

\* A channel to a peer dies: what rode it falls silent, and each end lets go of
\* it when it notices.
ChannelDies(p) ==
    /\ p # Home /\ whole[p] # "none" /\ Trouble
    /\ whole' = [whole EXCEPT ![p] = "none"]
    /\ conn' = [conn EXCEPT ![p] = IF @ = "up" THEN "silent" ELSE @]
    /\ UNCHANGED <<native, near, far, homeVars, stalled, joined, dialled, swarm, task, store, fetches>>

NearDetaches(p) ==
    /\ \E hub \in near[p] : whole[p] # hub /\ near' = [near EXCEPT ![p] = @ \ {hub}]
    /\ UNCHANGED <<native, far, whole, conn, homeVars, stalled, joined, dialled, swarm, task, store, bounds>>

FarDetaches(p) ==
    /\ far[p] /\ whole[p] = "none" /\ far' = [far EXCEPT ![p] = FALSE]
    /\ UNCHANGED <<native, near, whole, conn, homeVars, stalled, joined, dialled, swarm, task, store, bounds>>

\* QUIC's idle timeout.
ConnectionTimesOut(p) ==
    /\ conn[p] = "silent" /\ conn' = [conn EXCEPT ![p] = "closed"]
    /\ UNCHANGED <<native, laneVars, homeVars, stalled, joined, dialled, swarm, task, store, bounds>>

\* A peer that keeps its connection and answers nothing on it.
Stall(p) ==
    /\ conn[p] = "up" /\ p \notin stalled /\ Trouble
    /\ stalled' = stalled \cup {p}
    /\ UNCHANGED <<native, laneVars, conn, homeVars, joined, dialled, swarm, task, store, fetches>>

HomeFlaps ==
    /\ ~native /\ conn[Home] = "up"
    /\ \/ ice = "connected" /\ ice' = "disconnected" /\ Trouble
       \/ ice = "disconnected" /\ ice' \in {"connected", "failed", "detached"} /\ UNCHANGED troubles
    /\ UNCHANGED <<native, laneVars, conn, since, stalled, joined, dialled, swarm, task, store, fetches>>

\* QUIC's idle timeout may end a connection whose channel carries nothing.
HomeTimesOut ==
    /\ ~native /\ conn[Home] = "up" /\ ice # "connected"
    /\ conn' = [conn EXCEPT ![Home] = "closed"]
    /\ UNCHANGED <<native, laneVars, homeVars, stalled, joined, dialled, swarm, task, store, bounds>>

-----------------------------------------------------------------------------

Round == Offer \/ Refused \/ Complete
Connecting == ConnectFails \/ ConnectLands
Dialling ==
    \/ Gather \/ NextCandidate \/ TakeChannel \/ DialChannel \/ Reoffer
    \/ RoundEnds \/ WaitOrConcede \/ Conceded
Downloading ==
    \/ AskHoldings \/ (\E i \in DOMAIN swarm : TaskAt("draining") /\ Drain(i))
    \/ StoreChunks \/ AskHome \/ FetchEnds
Network ==
    \/ MeshIsJoined \/ HomeFlaps \/ HomeTimesOut
    \/ \E p \in Remotes :
        \/ MeshRound(p) \/ ChannelDies(p) \/ NearDetaches(p) \/ FarDetaches(p) \/ Stall(p)

SwarmNext ==
    \/ Round \/ Connecting \/ Dialling \/ BeginFetch \/ Downloading
    \/ HealthTick \/ (\E p \in Peers : ConnectionTimesOut(p)) \/ Network

SwarmSpec == SwarmInit /\ [][SwarmNext]_swarmVars

\* A task goes on as long as it can, the watcher ticks, silence runs into QUIC's
\* timeout.  Nothing of the network need get better, nor does the home connection
\* count on QUIC's timeout: watch_channel_health is there to be sooner.
FairSwarm ==
    /\ SwarmSpec
    /\ WF_swarmVars(Round \/ Connecting \/ Dialling \/ Downloading)
    /\ WF_swarmVars(HealthTick)
    /\ \A p \in Peers : WF_swarmVars(ConnectionTimesOut(p))

-----------------------------------------------------------------------------

\* A plan is a partition of what is missing: "a position nobody holds silently
\* dropped" reads as a download that stops short (swarm.rs).  Each queue asks its
\* peer for what it claims, rarest first, and no peer is given its i-th chunk
\* while another that has it was given fewer than i - 1.
PlanIsWhole(missing, holders) ==
    LET plan == Plan(missing, holders)
        queue(i) == ToSet(plan.queues[i])
    IN  /\ plan.unheld = {k \in missing : Who(k, holders) = {}}
        /\ \A k \in missing \ plan.unheld : \E i \in DOMAIN holders :
            k \in queue(i) /\ \A j \in DOMAIN holders : k \in queue(j) => j = i
        /\ \A i \in DOMAIN holders :
            /\ queue(i) \subseteq holders[i] \cap missing
            /\ \A a, b \in DOMAIN plan.queues[i] : a < b =>
                <<plan.queues[i][a], plan.queues[i][b]>> \in Rarer(missing, holders)
            /\ \A a \in DOMAIN plan.queues[i] :
                \A j \in Who(plan.queues[i][a], holders) : Len(plan.queues[j]) >= a - 1

SwarmTypeOK ==
    /\ native \in BOOLEAN /\ joined \in BOOLEAN /\ dialled \in BOOLEAN
    /\ near \in [Remotes -> SUBSET {"mount", "mesh"}] /\ far \in [Remotes -> BOOLEAN]
    /\ whole \in [Remotes -> {"none", "mount", "mesh"}]
    /\ conn \in [Remotes -> {"none", "up", "silent", "closed"}]
    /\ ice \in {"connected", "disconnected", "failed", "detached"} /\ since \in 0..Grace + 1
    /\ stalled \subseteq Remotes /\ ToSet(swarm) \subseteq Peers
    /\ store \subseteq Positions /\ troubles \in 0..MaxTroubles /\ fetches \in 0..MaxFetches
    /\ task.to \in Remotes /\ task.offers \in 0..2 /\ task.waited \in 0..2
    /\ task.missing \subseteq Positions /\ task.got \subseteq task.missing

\* What peer i was asked for and has not brought.
Owed(i) == ToSet(task.queues[i]) \cup ToSet(task.missed[i])

\* While the queues drain a missing chunk is in one place, once: brought, still
\* asked of a peer, sent back by one, or left for the home peer.
NothingIsLost ==
    /\ TaskAt("draining") =>
        /\ task.missing = UNION ({task.got, ToSet(task.rest)} \cup {Owed(i) : i \in DOMAIN swarm})
        /\ task.got \cap ToSet(task.rest) = {} /\ IsInjective(task.rest)
        /\ \A i \in DOMAIN swarm :
            /\ Owed(i) \cap (task.got \cup ToSet(task.rest)) = {}
            /\ IsInjective(task.queues[i]) /\ IsInjective(task.missed[i])
            /\ ToSet(task.queues[i]) \cap ToSet(task.missed[i]) = {}
            /\ \A j \in DOMAIN swarm \ {i} : Owed(i) \cap Owed(j) = {}
    /\ TaskAt("home") => task.missing \subseteq store \cup ToSet(task.rest)

\* A download that ends well has every chunk of its file, whatever its peers
\* claimed, sent or dropped, and on the way nothing is forgotten; a peer is one
\* source, never two; and a wait is not given up over a channel of the mount's own
\* ("throwing away a data channel that exists", lib.rs).
DownloadsAreTrue ==
    /\ SwarmTypeOK /\ NothingIsLost
    /\ TaskAt("done") => store = Positions
    /\ IsInjective(swarm)
    /\ TaskAt("conceded") => whole[task.to] # "mount"

\* What is begun ends, well or badly, as long as no peer holds its connection open
\* and says nothing: a home channel that is lost is closed within its grace
\* window, a peer's by QUIC, and no wait for one outlives its budget.
DownloadsEnd ==
    task.pc \notin {"idle", "done", "failed", "unmounted"}
        ~> (task.pc \in {"idle", "done", "failed", "unmounted"} \/ stalled # {})

=============================================================================
