----------------------------- MODULE ConnectProofs -----------------------------
(***************************************************************************)
(* Theorems of Connect, for every finite set of attempts, any peers, cards *)
(* and trees, and every limit: the membership that waits is the one that   *)
(* everybody of the tab is on, and a record lags behind the lanes that     *)
(* missed its peer.                                                        *)
(***************************************************************************)
EXTENDS Connect, TLAPS, FiniteSetTheorems, SequenceTheorems, WellFoundedInduction

AttemptState ==
    [pc : {"idle", "head", "minting", "redial", "cards", "race", "failed"},
     stage : 0..3, dial : {"none", "dialling", "failed"}, tight : BOOLEAN,
     m : Members \cup {0}, proven : BOOLEAN, dialling : SUBSET Peers,
     landed : SUBSET Peers, want : Trees \cup {0}]

ClientState ==
    [slot : {"none", "pending", "own", "shared"}, m : Members \cup {0}, joining : BOOLEAN,
     challenged : Peers \cup {0}, from : Peers \cup {0}, tree : Trees \cup {0}]

Types ==
    /\ peer \in [Peers -> [alive : BOOLEAN, tree : Trees, reach : Reaches]]
    /\ cards \subseteq Peers
    /\ known \in [Peers -> [tree : Trees \cup {0}, strikes : Nat]]
    /\ missed \in [Peers -> 0..StrikeLimit]
    /\ waiting \in Members \cup {0}
    /\ member \in [Members -> [state : {"free", "joined", "closed"}, duplicate : BOOLEAN]]
    /\ attempt \in [Attempts -> AttemptState]
    /\ client \in [Attempts -> ClientState]

\* An attempt is on a membership from its claim to the end of its lane, dials
\* and meets candidates only in a redial or a race, and races for a tree that
\* was voted for.
LanesAreStaged ==
    \A a \in Attempts :
        /\ attempt[a].pc \in {"redial", "cards", "race"} <=> attempt[a].m # 0
        /\ attempt[a].dialling \cup attempt[a].landed # {} => attempt[a].pc \in {"redial", "race"}
        /\ attempt[a].pc = "race" => attempt[a].want \in Trees

\* One membership is on the mesh, the one that waits, and it is the one every
\* attempt and every shared client is on.
OneMembership ==
    /\ waiting # 0 => member[waiting].state = "joined"
    /\ \A m \in Members : member[m].state = "joined" => m = waiting
    /\ \A a \in Attempts : attempt[a].m # 0 => attempt[a].m = waiting
    /\ \A a \in Attempts : client[a].slot = "shared" => waiting # 0 /\ client[a].m = waiting

\* A record is struck no more often than lanes in a row missed its peer.
StrikesAreMisses ==
    \A p \in Peers : known[p].tree # 0 =>
        known[p].strikes < StrikeLimit /\ known[p].strikes <= missed[p]

\* A shared client is homed on a peer, for a tree.
HomesAreNamed ==
    \A a \in Attempts : client[a].slot = "shared" =>
        client[a].from \in Peers /\ client[a].tree \in Trees

ConnectInv ==
    Types /\ LanesAreStaged /\ OneMembership /\ StrikesAreMisses
    /\ HomesAreNamed /\ HomesCarryTheShare

-----------------------------------------------------------------------------

\* A set of numbers that is not empty has a least element.
LEMMA LeastOfNaturals ==
    ASSUME NEW S, S \subseteq Nat, S # {}
    PROVE  \E n \in S : \A m \in S : n <= m
<1>1. PICK n \in S : \A m \in S : ~ (<<m, n>> \in OpToRel(<, Nat))
  BY NatLessThanWellFounded, WFMin
<1>2. \A m \in S : ~ (m < n)
  BY <1>1 DEF OpToRel
<1>3. QED
  BY <1>2

\* A share that has bytes has a file to probe with, and no file asks for more
\* than that one.
LEMMA ProbesAskForTheMost ==
    ASSUME NEW files \in Seq(Nat), NEW i \in DOMAIN files, files[i] > 0
    PROVE  \E target \in probe_target(files) : Asks(files[i]) <= target.want
<1> DEFINE live == {k \in DOMAIN files : files[k] > 0}
           Beats(j, k) == files[j] > files[k] \/ (files[j] = files[k] /\ j > k)
           Above(k) == {j \in live : Beats(j, k)}
           Sizes == {Cardinality(Above(k)) : k \in live}
<1>1. DOMAIN files = 1..Len(files) /\ Len(files) \in Nat /\ \A k \in DOMAIN files : files[k] \in Nat
  BY LenProperties, ElementOfSeq
<1>2. IsFiniteSet(live) /\ live \subseteq DOMAIN files
  <2>1. live \in SUBSET (1..Len(files))
    BY <1>1
  <2>2. IsFiniteSet(1..Len(files))
    BY <1>1, FS_Interval
  <2>3. QED
    <3> HIDE DEF live
    <3> QED  BY <1>1, <2>1, <2>2, FS_Subset
<1>3. \A k \in live : IsFiniteSet(Above(k)) /\ Cardinality(Above(k)) \in Nat
  BY <1>2, FS_Subset, FS_CardinalityType
<1>4. PICK k \in live : \A j \in live : Cardinality(Above(k)) <= Cardinality(Above(j))
  <2>1. Sizes \subseteq Nat /\ Sizes # {}
    BY <1>3
  <2>2. PICK n \in Sizes : \A m \in Sizes : n <= m
    <3> HIDE DEF Sizes
    <3> QED  BY <2>1, LeastOfNaturals
  <2>3. PICK k \in live : n = Cardinality(Above(k))
    BY <2>2
  <2>4. \A j \in live : Cardinality(Above(j)) \in Sizes
    OBVIOUS
  <2>5. QED
    <3> HIDE DEF Sizes, Above
    <3> QED  BY <2>2, <2>3, <2>4
<1>5. Above(k) = {}
  <2> SUFFICES ASSUME NEW j \in Above(k)  PROVE FALSE
    OBVIOUS
  <2>1. Above(j) \subseteq Above(k) \ {j}
    BY <1>1, <1>2
  <2>2. Cardinality(Above(k) \ {j}) = Cardinality(Above(k)) - 1 /\ IsFiniteSet(Above(k) \ {j})
    <3> HIDE DEF Above
    <3> QED  BY <1>3, <1>4, FS_RemoveElement
  <2>3. Cardinality(Above(j)) <= Cardinality(Above(k) \ {j})
    <3> HIDE DEF Above
    <3> QED  BY <2>1, <2>2, FS_Subset
  <2>4. j \in live
    OBVIOUS
  <2>5. QED
    <3> HIDE DEF Above, live
    <3> QED  BY <1>3, <1>4, <2>2, <2>3, <2>4
<1>6. \A j \in live : files[j] < files[k] \/ (files[j] = files[k] /\ j <= k)
  <2> TAKE j \in live
  <2>1. ~ Beats(j, k)
    BY <1>5
  <2>2. QED
    BY <1>1, <1>2, <1>4, <2>1
<1>7. [index |-> k, want |-> Asks(files[k])] \in probe_target(files)
  BY <1>6 DEF probe_target
<1>8. Asks(files[i]) <= Asks(files[k])
  <2>1. i \in live /\ files[i] \in Nat /\ files[k] \in Nat /\ files[i] <= files[k]
    BY <1>1, <1>2, <1>6
  <2>2. QED
    BY <2>1, ConnectAssumption DEF Asks
<1>9. QED
  BY <1>7, <1>8

\* The references to a membership are counted.
LEMMA RefsAreCounted ==
    ASSUME NEW m
    PROVE  Refs(m) \in Nat
<1> DEFINE homed == {a \in Attempts : client[a].slot = "shared" /\ client[a].m = m}
           dialling == {a \in Attempts : attempt[a].m = m}
<1>1. IsFiniteSet(homed) /\ IsFiniteSet(dialling)
  BY FS_Subset, ConnectAssumption
<1>2. Cardinality(homed) \in Nat /\ Cardinality(dialling) \in Nat
  <2> HIDE DEF homed, dialling
  <2> QED  BY <1>1, FS_CardinalityType
<1>3. QED
  BY <1>2 DEF Refs

\* When a membership that waits has no reference but the register's own, no
\* attempt and no client of the tab is on it; with one client more, it is the
\* only one.
LEMMA UnheldMemberships ==
    ASSUME waiting # 0
    PROVE  /\ Refs(waiting) <= 1 =>
                \A a \in Attempts : attempt[a].m # waiting
                                    /\ ~ (client[a].slot = "shared" /\ client[a].m = waiting)
           /\ Refs(waiting) <= 2 =>
                \A a \in Attempts : client[a].slot = "shared" /\ client[a].m = waiting =>
                    \A b \in Attempts :
                        /\ attempt[b].m # waiting
                        /\ client[b].slot = "shared" /\ client[b].m = waiting => b = a
<1> DEFINE homed == {a \in Attempts : client[a].slot = "shared" /\ client[a].m = waiting}
           dialling == {a \in Attempts : attempt[a].m = waiting}
<1>1. IsFiniteSet(homed) /\ IsFiniteSet(dialling)
  BY FS_Subset, ConnectAssumption
<1>2. Cardinality(homed) \in Nat /\ Cardinality(dialling) \in Nat
  BY <1>1, FS_CardinalityType
<1>3. Refs(waiting) = 1 + Cardinality(homed) + Cardinality(dialling)
  BY <1>2 DEF Refs
<1>4. ASSUME Refs(waiting) <= 1  PROVE homed = {} /\ dialling = {}
  <2>1. Cardinality(homed) = 0 /\ Cardinality(dialling) = 0
    <3> HIDE DEF homed, dialling
    <3> QED  BY <1>2, <1>3, <1>4
  <2>2. QED
    <3> HIDE DEF homed, dialling
    <3> QED  BY <1>1, <2>1, FS_EmptySet
<1>5. ASSUME Refs(waiting) <= 2, NEW a \in homed  PROVE homed = {a} /\ dialling = {}
  <2>1. Cardinality(homed \ {a}) = Cardinality(homed) - 1 /\ IsFiniteSet(homed \ {a})
        /\ Cardinality(homed \ {a}) \in Nat
    <3> HIDE DEF homed
    <3> QED  BY <1>1, <1>5, FS_RemoveElement, FS_CardinalityType
  <2>2. Cardinality(homed \ {a}) = 0 /\ Cardinality(dialling) = 0
    <3> HIDE DEF homed, dialling
    <3> QED  BY <1>2, <1>3, <1>5, <2>1
  <2>3. homed \ {a} = {} /\ dialling = {}
    <3> HIDE DEF homed, dialling
    <3> QED  BY <1>1, <2>1, <2>2, FS_EmptySet
  <2>4. QED
    <3> HIDE DEF homed, dialling
    <3> QED  BY <1>5, <2>3
<1>6. QED
  BY <1>4, <1>5

-----------------------------------------------------------------------------

\* What a lane leaves of the records is a table of records.
LEMMA RecordsStayRecords ==
    ASSUME Types, NEW unreached \in SUBSET Peers, NEW answered \in SUBSET Peers
    PROVE  /\ AfterFailedLane(known, unreached, answered)
                    \in [Peers -> [tree : Trees \cup {0}, strikes : Nat]]
           /\ Missed(unreached, answered) \in [Peers -> 0..StrikeLimit]
<1>1. \A p \in Peers : known[p] \in [tree : Trees \cup {0}, strikes : Nat]
                       /\ missed[p] \in 0..StrikeLimit
  BY DEF Types
<1>2. StrikeLimit \in Nat \ {0}
  BY ConnectAssumption
<1>3. QED
  BY <1>1, <1>2 DEF AfterFailedLane, Missed, NoRecord

\* The tree every peer starts with is one of the trees.
LEMMA FirstIsATree == First \in Trees
<1>1. \E t \in Trees : \A u \in Trees : t <= u
  BY LeastOfNaturals, ConnectAssumption
<1>2. QED
  BY <1>1 DEF First

\* A membership that is minted is one of the members.
LEMMA MintedMembers ==
    ASSUME FreeMembers # {}
    PROVE  (CHOOSE m \in FreeMembers : \A n \in FreeMembers : m <= n) \in FreeMembers
<1>1. FreeMembers \subseteq Nat
  BY ConnectAssumption DEF FreeMembers
<1>2. QED
  BY <1>1, LeastOfNaturals

\* The initial states satisfy the inductive invariant.
LEMMA InitConnect == Init => ConnectInv
<1> SUFFICES ASSUME Init  PROVE ConnectInv
  OBVIOUS
<1>1. StrikeLimit \in Nat \ {0} /\ 0 \in 0..StrikeLimit
  BY ConnectAssumption
<1>2. attempt \in [Attempts -> AttemptState]
  BY DEF Init, Idle, AttemptState
<1>3. client \in [Attempts -> ClientState]
  BY DEF Init, NoClient, ClientState
<1>4. known \in [Peers -> [tree : Trees \cup {0}, strikes : Nat]] /\ StrikesAreMisses
  BY <1>1, FirstIsATree DEF Init, NoRecord, StrikesAreMisses
<1>5. Types
  BY <1>1, <1>2, <1>3, <1>4, FirstIsATree DEF Init, Types, Free
<1>6. LanesAreStaged /\ OneMembership /\ HomesAreNamed /\ HomesCarryTheShare
  BY DEF Init, Idle, NoClient, Free, LanesAreStaged, OneMembership, HomesAreNamed,
         HomesCarryTheShare
<1>7. QED
  BY <1>4, <1>5, <1>6 DEF ConnectInv

\* An attempt that is a stage further is an attempt, and so is one that turns
\* to the seeders remembered, and one that has failed.
LEMMA StagesAreAttempts ==
    ASSUME NEW r \in AttemptState, NEW stage \in 0..3, NEW dial \in {"none", "dialling", "failed"}
    PROVE  [r EXCEPT !.dial = dial, !.stage = stage] \in AttemptState
  BY DEF AttemptState

(* An attempt that dials again, over the membership it was given, is still an attempt. *)
LEMMA RedialsAreAttempts ==
    ASSUME NEW r \in AttemptState, NEW m \in Members \cup {0}
    PROVE  Redialling(r, m) \in AttemptState
<1>1. Recorded \in SUBSET Peers
  BY DEF Recorded
<1>2. QED
  BY <1>1 DEF Redialling, AttemptState

(* An attempt whose lane failed is still an attempt, and so is one that meets *)
(* a candidate.                                                               *)
LEMMA FailuresAreAttempts ==
    ASSUME NEW r \in AttemptState
    PROVE  Failed(r) \in AttemptState
  BY DEF Failed, AttemptState

LEMMA LandingsAreAttempts ==
    ASSUME NEW r \in AttemptState, NEW p \in Peers
    PROVE  [r EXCEPT !.landed = r.landed \cup {p}, !.proven = TRUE] \in AttemptState
<1>1. r.landed \cup {p} \in SUBSET Peers /\ TRUE \in BOOLEAN
  BY DEF AttemptState
<1>2. QED
  BY <1>1 DEF AttemptState

\* Every step keeps the variables in their types.
LEMMA TypesStep ==
    ASSUME ConnectInv, [Next]_vars
    PROVE  Types'
<1> USE DEF ConnectInv
<1>1. /\ \A a \in Attempts : attempt[a] \in AttemptState /\ client[a] \in ClientState
      /\ waiting \in Members \cup {0}
  BY DEF Types
<1>2. ASSUME NEW a \in Attempts, Start(a)  PROVE Types'
  <2>1. attempt' \in [Attempts -> AttemptState]
    <3>1. PICK tight \in BOOLEAN :
              attempt' = [attempt EXCEPT ![a] =
                    [Idle EXCEPT !.pc = "head", !.dial = "dialling", !.tight = tight]]
      BY <1>2 DEF Start
    <3>2. [Idle EXCEPT !.pc = "head", !.dial = "dialling", !.tight = tight] \in AttemptState
      <4>1. Idle \in AttemptState
        BY DEF Idle, AttemptState
      <4>2. QED
        BY <3>1, <4>1 DEF AttemptState
    <3>3. QED
      BY <3>1, <3>2 DEF Types
  <2>2. client' \in [Attempts -> ClientState]
    BY <1>2 DEF Start, Types, NoClient, ClientState
  <2>3. QED
    BY <1>2, <2>1, <2>2 DEF Start, Types, world, roster, meshes
<1>3. ASSUME NEW a \in Attempts, Tick(a)  PROVE Types'
  <2>1. attempt' \in [Attempts -> AttemptState]
    <3>1. [attempt[a] EXCEPT !.stage = @ + 1,
                             !.dial = IF attempt[a].stage = 2 THEN "failed" ELSE @] \in AttemptState
      <4> DEFINE dial == IF attempt[a].stage = 2 THEN "failed" ELSE attempt[a].dial
      <4>1. attempt[a].stage + 1 \in 0..3 /\ dial \in {"none", "dialling", "failed"}
        BY <1>1, <1>3 DEF Tick, AttemptState
      <4> HIDE DEF dial
      <4>2. [attempt[a] EXCEPT !.stage = attempt[a].stage + 1, !.dial = dial] \in AttemptState
        BY <1>1, <4>1 DEF AttemptState
      <4>3. QED
        BY <4>2 DEF dial
    <3>2. attempt' = [attempt EXCEPT ![a] =
                [attempt[a] EXCEPT !.stage = @ + 1,
                                   !.dial = IF attempt[a].stage = 2 THEN "failed" ELSE @]]
      BY <1>1, <1>3 DEF Tick, Types, AttemptState
    <3>3. QED
      BY <3>1, <3>2 DEF Types
  <2>2. QED
    BY <1>3, <2>1 DEF Tick, Types, world, roster, meshes
<1>4. ASSUME NEW a \in Attempts, OriginAnswers(a)  PROVE Types'
  <2>1. attempt' \in [Attempts -> AttemptState]
    BY <1>4 DEF OriginAnswers, Types, Idle, AttemptState
  <2>2. client' \in [Attempts -> ClientState]
    BY <1>4 DEF OriginAnswers, Types, NoClient, ClientState
  <2>3. QED
    BY <1>4, <2>1, <2>2 DEF OriginAnswers, Types, world, roster, meshes
<1>5. ASSUME NEW a \in Attempts, Concede(a) \/ BothFailed(a)  PROVE Types'
  <2>1. attempt' \in [Attempts -> AttemptState]
    <3>1. Idle \in AttemptState
      BY DEF Idle, AttemptState
    <3>2. [attempt[a] EXCEPT !.dial = "failed", !.stage = 3] \in AttemptState
      <4>1. 3 \in 0..3
        OBVIOUS
      <4>2. QED
        BY <1>1, <4>1, StagesAreAttempts
    <3>3. \/ attempt' = [attempt EXCEPT ![a] = Idle]
          \/ attempt' = [attempt EXCEPT ![a] = [attempt[a] EXCEPT !.dial = "failed", !.stage = 3]]
      BY <1>1, <1>5 DEF Concede, BothFailed, Types, AttemptState
    <3>4. QED
      BY <3>1, <3>2, <3>3 DEF Types
  <2>2. QED
    BY <1>5, <2>1 DEF Concede, BothFailed, Types, world, roster, meshes
<1>6. ASSUME NEW a \in Attempts, Enter(a)  PROVE Types'
  <2>1. attempt' \in [Attempts -> AttemptState]
    <3>1. [attempt[a] EXCEPT !.pc = "minting"] \in AttemptState
      BY <1>1 DEF AttemptState
    <3>2. Redialling(attempt[a], waiting) \in AttemptState
      BY <1>1, RedialsAreAttempts
    <3>3. QED
      BY <1>6, <3>1, <3>2 DEF Enter, Lane, Types
  <2>2. QED
    BY <1>6, <2>1 DEF Enter, Types, world, roster, meshes
<1>7. ASSUME NEW a \in Attempts, Minted(a)  PROVE Types'
  <2> DEFINE m == CHOOSE m \in FreeMembers : \A n \in FreeMembers : m <= n
  <2>1. m \in Members
    BY <1>7, MintedMembers DEF Minted, FreeMembers
  <2>2. Claim(m) /\ Lane(a, Redialling(attempt[a], waiting'))
        /\ UNCHANGED <<world, roster, client, tries>>
    BY <1>7 DEF Minted
  <2> HIDE DEF m
  <2>3. waiting' \in Members \cup {0}
        /\ member' \in [Members -> [state : {"free", "joined", "closed"}, duplicate : BOOLEAN]]
    BY <2>1, <2>2 DEF Claim, Types, Free
  <2>4. attempt' \in [Attempts -> AttemptState]
    BY <1>1, <2>2, <2>3, RedialsAreAttempts DEF Lane, Types
  <2>5. QED
    BY <2>2, <2>3, <2>4 DEF Types, world, roster
<1>8. ASSUME NEW a \in Attempts, JoinFails(a) \/ NobodyVouches(a) \/ RaceOver(a)  PROVE Types'
  <2>1. attempt' \in [Attempts -> AttemptState]
    <3>1. Failed(attempt[a]) \in AttemptState
      BY <1>1, FailuresAreAttempts
    <3>2. QED
      BY <1>8, <3>1 DEF JoinFails, NobodyVouches, RaceOver, Lane, Types
  <2>2. QED
    BY <1>8, <2>1 DEF JoinFails, NobodyVouches, RaceOver, Types, world, roster, meshes
<1>9. ASSUME NEW a \in Attempts, NEW p \in Peers, Won(a, p)  PROVE Types'
  <2>1. attempt' \in [Attempts -> AttemptState]
    BY <1>9 DEF Won, Types, Idle, AttemptState
  <2>2. client' \in [Attempts -> ClientState]
    <3>1. peer[p].tree \in Trees /\ attempt[a].m \in Members \cup {0}
      BY <1>1 DEF Types, AttemptState
    <3>2. QED
      BY <1>9, <3>1 DEF Won, Types, NoClient, ClientState
  <2>3. known' \in [Peers -> [tree : Trees \cup {0}, strikes : Nat]]
    <3>1. attempt[a].want \in Trees \cup {0}
      BY <1>1 DEF AttemptState
    <3>2. CASE attempt[a].pc = "redial"
      BY <1>9, <3>2, RecordsStayRecords DEF Won
    <3>3. CASE attempt[a].pc # "redial"
      BY <1>9, <3>1, <3>3 DEF Won, remember_known_seeder, Types
    <3>4. QED
      BY <3>2, <3>3
  <2>4. missed' \in [Peers -> 0..StrikeLimit]
    BY <1>9, ConnectAssumption DEF Won, Types
  <2>5. QED
    BY <1>9, <2>1, <2>2, <2>3, <2>4 DEF Won, Types, world, meshes
<1>10. ASSUME NEW a \in Attempts, RedialOver(a)  PROVE Types'
  <2>1. PICK answered \in SUBSET Refused(a), unreached \in SUBSET (attempt[a].dialling \ attempt[a].landed) :
            /\ known' = AfterFailedLane(known, unreached, answered)
            /\ missed' = Missed(unreached, answered)
            /\ Lane(a, [attempt[a] EXCEPT !.pc = "cards", !.dialling = {}, !.landed = {}])
    BY <1>10 DEF RedialOver
  <2>2. answered \in SUBSET Peers /\ unreached \in SUBSET Peers
    BY <1>1 DEF Refused, AttemptState
  <2>3. [attempt[a] EXCEPT !.pc = "cards", !.dialling = {}, !.landed = {}] \in AttemptState
    BY <1>1 DEF AttemptState
  <2>4. attempt' \in [Attempts -> AttemptState]
    BY <2>1, <2>3 DEF Lane, Types
  <2>5. QED
    BY <1>10, <2>1, <2>2, <2>4, RecordsStayRecords DEF RedialOver, Types, world, meshes
<1>11. ASSUME NEW a \in Attempts, Vouched(a)  PROVE Types'
  <2>1. PICK tree \in Majorities(cards) :
            Lane(a, [attempt[a] EXCEPT !.pc = "race", !.want = tree,
                                       !.dialling = {p \in cards : peer[p].tree = tree}])
    BY <1>11 DEF Vouched
  <2>2. tree \in Trees
    BY DEF Majorities
  <2>3. {p \in cards : peer[p].tree = tree} \subseteq Peers
    BY DEF Types
  <2>4. attempt' \in [Attempts -> AttemptState]
    <3>1. [attempt[a] EXCEPT !.pc = "race", !.want = tree,
                             !.dialling = {p \in cards : peer[p].tree = tree}] \in AttemptState
      BY <1>1, <2>2, <2>3 DEF AttemptState
    <3>2. QED
      BY <2>1, <3>1 DEF Lane, Types
  <2>5. QED
    BY <1>11, <2>4 DEF Vouched, Types, world, roster, meshes
<1>12. ASSUME NEW a \in Attempts, JoinEnds(a)  PROVE Types'
  <2>1. client' \in [Attempts -> ClientState]
    <3>1. PICK joined \in BOOLEAN :
              client' = [client EXCEPT ![a].joining = FALSE,
                                       ![a].slot = IF joined /\ @ = "pending" THEN "own" ELSE @]
      BY <1>12 DEF JoinEnds
    <3>2. [client[a] EXCEPT !.joining = FALSE,
                            !.slot = IF joined /\ @ = "pending" THEN "own" ELSE @] \in ClientState
      BY <1>1 DEF ClientState
    <3>3. client' = [client EXCEPT ![a] =
              [client[a] EXCEPT !.joining = FALSE,
                                !.slot = IF joined /\ @ = "pending" THEN "own" ELSE @]]
      BY <1>1, <3>1 DEF Types, ClientState
    <3>4. QED
      BY <3>2, <3>3 DEF Types
  <2>2. waiting' \in Members \cup {0}
        /\ member' \in [Members -> [state : {"free", "joined", "closed"}, duplicate : BOOLEAN]]
    <3>1. CASE waiting = 0
      BY <1>12, <3>1 DEF JoinEnds, Types, meshes
    <3>2. CASE waiting # 0 /\ Close(waiting)
      BY <1>1, <3>2 DEF Types, Close, Free
    <3>3. CASE waiting # 0 /\ member' = [member EXCEPT ![waiting].duplicate = TRUE]
               /\ UNCHANGED waiting
      BY <1>1, <3>3 DEF Types
    <3>4. QED
      BY <1>12, <3>1, <3>2, <3>3 DEF JoinEnds
  <2>3. QED
    BY <1>12, <2>1, <2>2 DEF JoinEnds, Types, world, roster
<1>13. ASSUME NEW a \in Attempts, leave_mesh(a)  PROVE Types'
  <2>1. client' \in [Attempts -> ClientState]
    <3>1. [NoClient EXCEPT !.joining = client[a].joining] \in ClientState
      BY <1>1 DEF NoClient, ClientState
    <3>2. QED
      BY <1>13, <3>1 DEF leave_mesh, Types
  <2>2. waiting' \in Members \cup {0}
        /\ member' \in [Members -> [state : {"free", "joined", "closed"}, duplicate : BOOLEAN]]
    <3>1. client[a].m \in Members \cup {0}
      BY <1>1 DEF ClientState
    <3>2. CASE Close(waiting) /\ client[a].slot = "shared"
      BY <1>1, <3>2 DEF Types, Close, Free
    <3>3. CASE UNCHANGED meshes
      BY <3>3 DEF Types, meshes
    <3>4. CASE /\ member' = IF client[a].slot = "shared"
                            THEN [member EXCEPT ![client[a].m].state = "closed"] ELSE member
               /\ UNCHANGED waiting
      BY <3>1, <3>4 DEF Types
    <3>5. QED
      BY <1>13, <3>2, <3>3, <3>4 DEF leave_mesh
  <2>3. QED
    BY <1>13, <2>1, <2>2 DEF leave_mesh, Types, world, roster
<1>14. ASSUME NEW a \in Attempts, challenge_adopted_tree(a)  PROVE Types'
  <2>1. client' \in [Attempts -> ClientState]
    <3>1. client' = [client EXCEPT ![a] = [client[a] EXCEPT !.challenged = 0]]
      BY <1>1, <1>14 DEF challenge_adopted_tree, Types
    <3>2. [client[a] EXCEPT !.challenged = 0] \in ClientState
      BY <1>1 DEF Types, ClientState
    <3>3. QED
      BY <3>1, <3>2 DEF Types
  <2>2. known' \in [Peers -> [tree : Trees \cup {0}, strikes : Nat]]
    <3>1. known' = known \/ known' = [known EXCEPT ![client[a].challenged] = NoRecord]
      BY <1>14 DEF challenge_adopted_tree
    <3>2. NoRecord \in [tree : Trees \cup {0}, strikes : Nat]
      BY DEF NoRecord
    <3>3. QED
      BY <3>1, <3>2 DEF Types
  <2>3. QED
    BY <1>14, <2>1, <2>2 DEF challenge_adopted_tree, Types, world, meshes
<1>15. CASE World
  <2>1. peer' \in [Peers -> [alive : BOOLEAN, tree : Trees, reach : Reaches]]
    <3>1. CASE OriginReturns \/ \E p \in Peers : CardArrives(p)
      BY <3>1 DEF OriginReturns, CardArrives, Types
    <3>2. ASSUME NEW p \in Peers, PeerGoes(p)
          PROVE  peer' \in [Peers -> [alive : BOOLEAN, tree : Trees, reach : Reaches]]
      BY <3>2 DEF PeerGoes, Types
    <3>3. ASSUME NEW p \in Peers, PeerMovesOn(p)
          PROVE  peer' \in [Peers -> [alive : BOOLEAN, tree : Trees, reach : Reaches]]
      BY <3>3 DEF PeerMovesOn, Types
    <3>4. QED
      BY <1>15, <3>1, <3>2, <3>3 DEF World
  <2>2. cards' \subseteq Peers
    BY <1>15 DEF World, OriginReturns, CardArrives, PeerGoes, PeerMovesOn, Types
  <2>3. QED
    BY <1>15, <2>1, <2>2 DEF World, Types, roster, meshes
<1>16. CASE UNCHANGED vars
  BY <1>16 DEF vars, world, roster, meshes, Types
<1>17. ASSUME NEW a \in Attempts, NEW p \in Peers, peer_answered(a, p)  PROVE Types'
  <2>1. attempt' = [attempt EXCEPT ![a] =
            [attempt[a] EXCEPT !.landed = attempt[a].landed \cup {p}, !.proven = TRUE]]
    BY <1>17 DEF peer_answered, Lane
  <2>2. attempt' \in [Attempts -> AttemptState]
    BY <1>1, <2>1, LandingsAreAttempts DEF Types
  <2>3. QED
    BY <1>17, <2>2 DEF peer_answered, Types, world, roster, meshes
<1>18. QED
  BY <1>2, <1>3, <1>4, <1>5, <1>6, <1>7, <1>8, <1>9, <1>10, <1>11, <1>12, <1>13, <1>14,
     <1>15, <1>16, <1>17 DEF Next, Race

-----------------------------------------------------------------------------

\* What one attempt needs of its record for the staging to hold of it.
Staged(r) ==
    /\ r.pc \in {"redial", "cards", "race"} <=> r.m # 0
    /\ r.dialling \cup r.landed # {} => r.pc \in {"redial", "race"}
    /\ r.pc = "race" => r.want \in Trees

\* Whatever a step does of an attempt leaves it staged, and on a membership it
\* was on before or on the one that waits.
LEMMA LanesStep ==
    ASSUME ConnectInv, [Next]_vars
    PROVE  /\ LanesAreStaged'
           /\ \A a \in Attempts : attempt'[a].m \in {0, attempt[a].m, waiting'}
<1> USE DEF ConnectInv
<1>1. \A a \in Attempts : attempt[a] \in AttemptState /\ Staged(attempt[a])
  BY DEF Types, LanesAreStaged, Staged
<1>2. ASSUME NEW a \in Attempts, NEW r, attempt' = [attempt EXCEPT ![a] = r], Staged(r),
             r.m \in {0, attempt[a].m, waiting'}
      PROVE  \A b \in Attempts : Staged(attempt'[b]) /\ attempt'[b].m \in {0, attempt[b].m, waiting'}
  BY <1>1, <1>2 DEF Types
<1> DEFINE Goal == \A b \in Attempts :
                Staged(attempt'[b]) /\ attempt'[b].m \in {0, attempt[b].m, waiting'}
<1>3. ASSUME NEW a \in Attempts, Start(a)  PROVE Goal
  <2>1. PICK tight \in BOOLEAN :
            attempt' = [attempt EXCEPT ![a] =
                  [Idle EXCEPT !.pc = "head", !.dial = "dialling", !.tight = tight]]
    BY <1>3 DEF Start
  <2>2. LET r == [Idle EXCEPT !.pc = "head", !.dial = "dialling", !.tight = tight]
        IN  r.pc = "head" /\ r.m = 0 /\ r.dialling = {} /\ r.landed = {}
    BY DEF Idle
  <2>3. QED
    BY <1>2, <2>1, <2>2 DEF Staged
<1>4. ASSUME NEW a \in Attempts, Tick(a) \/ Concede(a)  PROVE Goal
  <2>1. PICK stage, dial :
            attempt' = [attempt EXCEPT ![a] = [attempt[a] EXCEPT !.stage = stage, !.dial = dial]]
    <3>1. attempt[a] \in AttemptState /\ attempt \in [Attempts -> AttemptState]
      BY <1>1 DEF Types
    <3>2. CASE Tick(a)
      <4>1. attempt' = [attempt EXCEPT ![a] =
                  [attempt[a] EXCEPT !.stage = attempt[a].stage + 1,
                                     !.dial = IF attempt[a].stage = 2 THEN "failed" ELSE attempt[a].dial]]
        BY <3>1, <3>2 DEF Tick, AttemptState
      <4>2. QED
        BY <4>1
    <3>3. CASE Concede(a)
      <4>1. attempt' = [attempt EXCEPT ![a] = [attempt[a] EXCEPT !.stage = 3, !.dial = "failed"]]
        BY <3>1, <3>3 DEF Concede, AttemptState
      <4>2. QED
        BY <4>1
    <3>4. QED
      BY <1>4, <3>2, <3>3
  <2> DEFINE r == [attempt[a] EXCEPT !.stage = stage, !.dial = dial]
  <2>2. r.pc = attempt[a].pc /\ r.m = attempt[a].m /\ r.dialling = attempt[a].dialling
        /\ r.landed = attempt[a].landed /\ r.want = attempt[a].want
    BY <1>1 DEF AttemptState
  <2>3. QED
    <3> HIDE DEF r
    <3> QED  BY <1>1, <1>2, <2>1, <2>2 DEF Staged
<1>5. ASSUME NEW a \in Attempts,
             OriginAnswers(a) \/ BothFailed(a) \/ \E p \in Peers : Won(a, p)
      PROVE  Goal
  <2>1. attempt' = [attempt EXCEPT ![a] = Idle]
    BY <1>5 DEF OriginAnswers, BothFailed, Won
  <2>2. Staged(Idle) /\ Idle.m = 0
    BY DEF Staged, Idle
  <2>3. QED
    BY <1>2, <2>1, <2>2
<1>6. ASSUME NEW r \in AttemptState, NEW m \in Members \cup {0}, m # 0, r.landed = {}
      PROVE  Staged(Redialling(r, m)) /\ Redialling(r, m).m = m
  BY <1>6 DEF Redialling, Staged, AttemptState
<1>7. ASSUME NEW a \in Attempts, Enter(a)  PROVE Goal
  <2>1. CASE waiting = 0
    <3>1. attempt' = [attempt EXCEPT ![a] = [attempt[a] EXCEPT !.pc = "minting"]]
      BY <1>7, <2>1 DEF Enter, Lane
    <3>2. Staged([attempt[a] EXCEPT !.pc = "minting"])
          /\ [attempt[a] EXCEPT !.pc = "minting"].m = attempt[a].m
      BY <1>1, <1>7 DEF Enter, Staged, AttemptState
    <3>3. QED
      BY <1>2, <3>1, <3>2
  <2>2. CASE waiting # 0
    <3>1. attempt' = [attempt EXCEPT ![a] = Redialling(attempt[a], waiting)] /\ waiting' = waiting
      BY <1>7, <2>2 DEF Enter, Lane, meshes
    <3>2. waiting \in Members \cup {0}
      BY DEF Types
    <3>3. attempt[a].landed = {}
      BY <1>1, <1>7 DEF Enter, Staged
    <3>4. QED
      BY <1>1, <1>2, <1>6, <2>2, <3>1, <3>2, <3>3
  <2>3. QED
    BY <2>1, <2>2
<1>8. ASSUME NEW a \in Attempts, Minted(a)  PROVE Goal
  <2> DEFINE m == CHOOSE m \in FreeMembers : \A n \in FreeMembers : m <= n
  <2>1. m \in Members
    BY <1>8, MintedMembers DEF Minted, FreeMembers
  <2>2. Claim(m) /\ attempt' = [attempt EXCEPT ![a] = Redialling(attempt[a], waiting')]
    BY <1>8 DEF Minted, Lane
  <2> HIDE DEF m
  <2>3. waiting' \in Members \cup {0} /\ waiting' # 0
    BY <2>1, <2>2, ConnectAssumption DEF Claim, Types
  <2>4. attempt[a].landed = {}
    BY <1>1, <1>8 DEF Minted, Staged
  <2>5. QED
    BY <1>1, <1>2, <1>6, <2>2, <2>3, <2>4
<1>9. ASSUME NEW r \in AttemptState
      PROVE  Staged(Failed(r)) /\ Failed(r).m = 0
  BY DEF Failed, Staged, AttemptState
<1>10. ASSUME NEW a \in Attempts, JoinFails(a) \/ NobodyVouches(a) \/ RaceOver(a)  PROVE Goal
  <2>1. attempt' = [attempt EXCEPT ![a] = Failed(attempt[a])]
    BY <1>10 DEF JoinFails, NobodyVouches, RaceOver, Lane
  <2>2. QED
    BY <1>1, <1>2, <1>9, <2>1
<1>11. ASSUME NEW a \in Attempts, RedialOver(a)  PROVE Goal
  <2> DEFINE r == [attempt[a] EXCEPT !.pc = "cards", !.dialling = {}, !.landed = {}]
  <2>1. attempt' = [attempt EXCEPT ![a] = r]
    BY <1>11 DEF RedialOver, Lane
  <2>2. r.pc = "cards" /\ r.m = attempt[a].m /\ r.dialling = {} /\ r.landed = {}
        /\ attempt[a].pc = "redial"
    BY <1>1, <1>11 DEF RedialOver, AttemptState
  <2>3. Staged(r)
    <3> HIDE DEF r
    <3> QED  BY <1>1, <2>2 DEF Staged
  <2>4. QED
    <3> HIDE DEF Staged
    <3> QED  BY <1>2, <2>1, <2>2, <2>3
<1>12. ASSUME NEW a \in Attempts, Vouched(a)  PROVE Goal
  <2>1. PICK tree \in Majorities(cards) :
            attempt' = [attempt EXCEPT ![a] =
                [attempt[a] EXCEPT !.pc = "race", !.want = tree,
                                   !.dialling = {p \in cards : peer[p].tree = tree}]]
    BY <1>12 DEF Vouched, Lane
  <2> DEFINE r == [attempt[a] EXCEPT !.pc = "race", !.want = tree,
                                     !.dialling = {p \in cards : peer[p].tree = tree}]
  <2>2. r.pc = "race" /\ r.m = attempt[a].m /\ r.want = tree /\ attempt[a].pc = "cards"
    BY <1>1, <1>12 DEF Vouched, AttemptState
  <2>3. tree \in Trees
    BY DEF Majorities
  <2>4. Staged(r)
    <3> HIDE DEF r
    <3> QED  BY <1>1, <2>2, <2>3 DEF Staged
  <2>5. QED
    BY <1>2, <2>1, <2>2, <2>4
<1>13. ASSUME \/ \E a \in Attempts : JoinEnds(a) \/ leave_mesh(a) \/ challenge_adopted_tree(a)
              \/ World \/ UNCHANGED vars
       PROVE  Goal
  <2>1. attempt' = attempt
    BY <1>13 DEF JoinEnds, leave_mesh, challenge_adopted_tree, World, vars, roster, meshes
  <2>2. QED
    BY <1>1, <2>1 DEF Staged
<1>14. ASSUME NEW a \in Attempts, NEW p \in Peers, peer_answered(a, p)  PROVE Goal
  <2> DEFINE r == [attempt[a] EXCEPT !.landed = attempt[a].landed \cup {p}, !.proven = TRUE]
  <2>1. attempt' = [attempt EXCEPT ![a] = r]
    BY <1>14 DEF peer_answered, Lane
  <2>2. r.pc = attempt[a].pc /\ r.m = attempt[a].m /\ r.want = attempt[a].want
        /\ attempt[a].pc \in {"redial", "race"}
    BY <1>1, <1>14 DEF AttemptState, peer_answered, Staged
  <2>3. QED
    <3> HIDE DEF r
    <3> QED  BY <1>1, <1>2, <2>1, <2>2 DEF Staged
<1>15. Goal
  <2> HIDE DEF Goal
  <2> QED  BY <1>3, <1>4, <1>5, <1>7, <1>8, <1>10, <1>11, <1>12,
              <1>13, <1>14 DEF Next, Race
<1>16. QED
  BY <1>15 DEF LanesAreStaged, Staged

-----------------------------------------------------------------------------

\* A step that neither registers a membership nor closes one leaves everybody
\* on the one that waits.
LEMMA MembershipsAsTheyWere ==
    ASSUME ConnectInv, [Next]_vars, UNCHANGED waiting,
           \A m \in Members : member'[m].state = member[m].state,
           \A a \in Attempts : client'[a].slot = "shared" =>
                \/ client[a].slot = "shared" /\ client'[a].m = client[a].m
                \/ attempt[a].m # 0 /\ client'[a].m = attempt[a].m
    PROVE  OneMembership'
<1>1. \A a \in Attempts : attempt'[a].m \in {0, attempt[a].m, waiting'}
  BY LanesStep
<1>2. waiting \in Members \cup {0}
  BY DEF ConnectInv, Types
<1>3. QED
  BY <1>1, <1>2 DEF ConnectInv, OneMembership

\* A membership is closed when nobody else of the tab is on it.
LEMMA ClosedMemberships ==
    ASSUME ConnectInv, waiting # 0, Close(waiting), UNCHANGED attempt,
           \A a \in Attempts : attempt[a].m # waiting,
           \A a \in Attempts : client'[a].slot = "shared" =>
                client[a].slot = "shared" /\ client[a].m # waiting
    PROVE  OneMembership'
<1>1. waiting \in Members \cup {0} /\ waiting' = 0
  BY DEF ConnectInv, Types, Close
<1>2. \A m \in Members : member'[m].state # "joined"
  BY DEF ConnectInv, Types, OneMembership, Close, Free
<1>3. \A a \in Attempts : attempt'[a].m = 0 /\ client'[a].slot # "shared"
  BY DEF ConnectInv, OneMembership
<1>4. QED
  BY <1>1, <1>2, <1>3 DEF OneMembership

\* Every step keeps the tab on one membership.
LEMMA MembershipStep ==
    ASSUME ConnectInv, [Next]_vars
    PROVE  OneMembership'
<1>1. /\ \A a \in Attempts : attempt[a] \in AttemptState /\ client[a] \in ClientState
      /\ waiting \in Members \cup {0} /\ 0 \notin Members
      /\ client \in [Attempts -> ClientState]
      /\ member \in [Members -> [state : {"free", "joined", "closed"}, duplicate : BOOLEAN]]
  BY ConnectAssumption DEF ConnectInv, Types
<1>2. ASSUME NEW a \in Attempts,
             \/ Start(a) \/ Tick(a) \/ OriginAnswers(a) \/ Concede(a) \/ BothFailed(a)
             \/ Enter(a) \/ JoinFails(a) \/ RedialOver(a) \/ Vouched(a) \/ NobodyVouches(a)
             \/ RaceOver(a) \/ challenge_adopted_tree(a) \/ \E p \in Peers : peer_answered(a, p)
      PROVE  OneMembership'
  <2>1. UNCHANGED meshes
    BY <1>2 DEF Start, Tick, OriginAnswers, Concede, BothFailed, Enter, JoinFails, RedialOver,
                Vouched, NobodyVouches, RaceOver, challenge_adopted_tree, peer_answered
  <2>2. \/ UNCHANGED client
        \/ client' = [client EXCEPT ![a] = NoClient]
        \/ client' = [client EXCEPT ![a] = [NoClient EXCEPT !.slot = "pending", !.joining = TRUE]]
        \/ client' = [client EXCEPT ![a].challenged = 0]
    BY <1>2 DEF Start, Tick, OriginAnswers, Concede, BothFailed, Enter, JoinFails, RedialOver,
                Vouched, NobodyVouches, RaceOver, challenge_adopted_tree, peer_answered
  <2>3. \A b \in Attempts : client'[b].slot = "shared" =>
            client[b].slot = "shared" /\ client'[b].m = client[b].m
    <3>1. CASE UNCHANGED client
      BY <3>1
    <3>2. ASSUME NEW r, client' = [client EXCEPT ![a] = r], r.slot # "shared"
          PROVE  \A b \in Attempts : client'[b].slot = "shared" =>
                     client[b].slot = "shared" /\ client'[b].m = client[b].m
      BY <1>1, <3>2
    <3>3. NoClient.slot # "shared"
          /\ [NoClient EXCEPT !.slot = "pending", !.joining = TRUE].slot # "shared"
      BY DEF NoClient
    <3>4. CASE client' = [client EXCEPT ![a].challenged = 0]
      BY <1>1, <3>4 DEF ClientState
    <3>5. QED
      BY <2>2, <3>1, <3>2, <3>3, <3>4
  <2>4. QED
    BY <2>1, <2>3, MembershipsAsTheyWere DEF meshes
<1>3. ASSUME NEW a \in Attempts, NEW p \in Peers, Won(a, p)  PROVE OneMembership'
  <2>1. attempt[a].m # 0
    BY <1>3 DEF Won, ConnectInv, LanesAreStaged
  <2>2. PICK challenged, from, tree :
            client' = [client EXCEPT ![a] =
                [NoClient EXCEPT !.slot = "shared", !.m = attempt[a].m, !.challenged = challenged,
                                 !.from = from, !.tree = tree]]
    BY <1>3 DEF Won
  <2>3. \A b \in Attempts : client'[b].slot = "shared" =>
            \/ client[b].slot = "shared" /\ client'[b].m = client[b].m
            \/ attempt[b].m # 0 /\ client'[b].m = attempt[b].m
    <3>1. \A b \in Attempts \ {a} : client'[b] = client[b]
      BY <1>1, <2>2
    <3>2. client'[a].m = attempt[a].m
      <4>1. client'[a] = [NoClient EXCEPT !.slot = "shared", !.m = attempt[a].m,
                                          !.challenged = challenged, !.from = from, !.tree = tree]
        BY <1>1, <2>2
      <4>2. QED
        BY <4>1 DEF NoClient
    <3>3. QED
      BY <2>1, <3>1, <3>2
  <2>4. QED
    BY <1>3, <2>3, MembershipsAsTheyWere DEF Won, meshes
<1>4. ASSUME NEW a \in Attempts, Minted(a)  PROVE OneMembership'
  <2> DEFINE m == CHOOSE m \in FreeMembers : \A n \in FreeMembers : m <= n
  <2>1. m \in Members
    BY <1>4, MintedMembers DEF Minted, FreeMembers
  <2>2. Claim(m) /\ client' = client
    BY <1>4 DEF Minted
  <2> HIDE DEF m
  <2>3. CASE waiting # 0
    BY <2>2, <2>3, MembershipsAsTheyWere DEF Claim
  <2>4. CASE waiting = 0
    <3>1. waiting' = m /\ member' = [member EXCEPT ![m] = [Free EXCEPT !.state = "joined"]]
      BY <2>2, <2>4 DEF Claim
    <3>2. member'[m].state = "joined" /\ \A n \in Members \ {m} : member'[n].state = member[n].state
      BY <1>1, <2>1, <3>1 DEF Free
    <3>3. \A b \in Attempts : attempt'[b].m \in {0, attempt[b].m, waiting'}
      BY LanesStep
    <3>4. QED
      BY <1>1, <2>1, <2>2, <2>4, <3>1, <3>2, <3>3 DEF ConnectInv, OneMembership
  <2>5. QED
    BY <2>3, <2>4
<1>5. ASSUME NEW a \in Attempts, JoinEnds(a)  PROVE OneMembership'
  <2>1. \A b \in Attempts : client'[b].slot = "shared" =>
            client[b].slot = "shared" /\ client'[b].m = client[b].m
    <3>1. PICK joined \in BOOLEAN :
              client' = [client EXCEPT ![a].joining = FALSE,
                                       ![a].slot = IF joined /\ @ = "pending" THEN "own" ELSE @]
      BY <1>5 DEF JoinEnds
    <3>2. QED
      BY <1>1, <3>1 DEF ClientState
  <2>2. CASE waiting = 0
    BY <1>5, <2>1, <2>2, MembershipsAsTheyWere DEF JoinEnds, meshes
  <2>3. CASE waiting # 0 /\ safe_to_retire(Refs(waiting))
    <3>1. Close(waiting) /\ UNCHANGED attempt
      BY <1>5, <2>3 DEF JoinEnds
    <3>2. \A b \in Attempts : attempt[b].m # waiting
                              /\ ~ (client[b].slot = "shared" /\ client[b].m = waiting)
      BY <2>3, UnheldMemberships DEF safe_to_retire
    <3>3. QED
      BY <2>1, <2>3, <3>1, <3>2, ClosedMemberships
  <2>4. CASE waiting # 0 /\ ~safe_to_retire(Refs(waiting))
    <3>1. member' = [member EXCEPT ![waiting].duplicate = TRUE] /\ UNCHANGED waiting
      BY <1>5, <2>4 DEF JoinEnds
    <3>2. \A n \in Members : member'[n].state = member[n].state
      BY <1>1, <3>1
    <3>3. QED
      BY <2>1, <3>1, <3>2, MembershipsAsTheyWere
  <2>5. QED
    BY <2>2, <2>3, <2>4
<1>6. ASSUME NEW a \in Attempts, leave_mesh(a)  PROVE OneMembership'
  <2>1. /\ client' = [client EXCEPT ![a] = [NoClient EXCEPT !.joining = client[a].joining]]
        /\ UNCHANGED attempt
    BY <1>6 DEF leave_mesh
  <2>2. /\ client'[a].slot = "none"
        /\ \A b \in Attempts \ {a} : client'[b] = client[b]
    BY <1>1, <2>1 DEF NoClient
  <2>3. CASE client[a].slot = "shared" /\ Close(waiting)
             /\ collect_duplicate_now(waiting, Refs(waiting) - 1)
    <3>1. waiting # 0 /\ client[a].m = waiting
      BY <2>3 DEF ConnectInv, OneMembership
    <3>2. Refs(waiting) - 1 <= 1
      BY <2>3 DEF collect_duplicate_now, safe_to_retire
    <3>3. Refs(waiting) <= 2
      <4>1. Refs(waiting) \in Nat
        BY <3>1, RefsAreCounted
      <4>2. QED
        BY <3>2, <4>1
    <3>4. \A b \in Attempts :
              attempt[b].m # waiting /\ (client[b].slot = "shared" /\ client[b].m = waiting => b = a)
      BY <2>3, <3>1, <3>3, UnheldMemberships
    <3>5. QED
      BY <2>1, <2>2, <2>3, <3>1, <3>4, ClosedMemberships
  <2>4. CASE UNCHANGED meshes
    BY <2>2, <2>4, MembershipsAsTheyWere DEF meshes
  <2>5. CASE client[a].slot # "shared"
    <3>1. UNCHANGED meshes
      BY <1>6, <2>5 DEF leave_mesh, meshes
    <3>2. QED
      BY <2>4, <3>1
  <2>6. client[a].slot = "shared" => client[a].m = waiting
    BY DEF ConnectInv, OneMembership
  <2>7. QED
    BY <1>6, <2>3, <2>4, <2>5, <2>6 DEF leave_mesh
<1>7. CASE World \/ UNCHANGED vars
  <2>1. UNCHANGED <<meshes, client>>
    BY <1>7 DEF World, vars
  <2>2. QED
    BY <2>1, MembershipsAsTheyWere DEF meshes
<1>8. QED
  BY <1>2, <1>3, <1>4, <1>5, <1>6, <1>7 DEF Next, Race

-----------------------------------------------------------------------------

\* What a peer's channel bears never changes.
LEMMA ChannelsStayAsTheyAre ==
    ASSUME ConnectInv, [Next]_vars
    PROVE  \A p \in Peers : peer'[p].reach = peer[p].reach
<1>1. peer \in [Peers -> [alive : BOOLEAN, tree : Trees, reach : Reaches]]
  BY DEF ConnectInv, Types
<1>2. CASE UNCHANGED peer
  BY <1>2
<1>3. ASSUME NEW p \in Peers, PeerGoes(p) \/ PeerMovesOn(p)
      PROVE  \A q \in Peers : peer'[q].reach = peer[q].reach
  BY <1>1, <1>3 DEF PeerGoes, PeerMovesOn
<1>4. UNCHANGED peer \/ \E p \in Peers : PeerGoes(p) \/ PeerMovesOn(p)
  BY DEF Next, Race, World, OriginReturns, CardArrives, Start, Tick, OriginAnswers, Concede,
         BothFailed, Enter, Minted, JoinFails, Won, RedialOver, Vouched, NobodyVouches, RaceOver,
         JoinEnds, leave_mesh, challenge_adopted_tree, peer_answered, vars, world
<1>5. QED
  BY <1>2, <1>3, <1>4

\* A client that is shared was so before, for the same tree at the same peer,
\* or its peer has just passed the probe of that tree.
LEMMA HomesAreVetted ==
    ASSUME ConnectInv, [Next]_vars, NEW a \in Attempts, client'[a].slot = "shared"
    PROVE  \/ /\ client[a].slot = "shared"
              /\ client'[a].from = client[a].from /\ client'[a].tree = client[a].tree
           \/ \E p \in Peers : /\ Passes(p)
                               /\ client'[a].from = p /\ client'[a].tree = peer[p].tree
<1>1. client \in [Attempts -> ClientState]
  BY DEF ConnectInv, Types
<1>2. ASSUME NEW b \in Attempts, NEW p \in Peers, Won(b, p)
      PROVE  \/ client'[a] = client[a]
             \/ Passes(p) /\ client'[a].from = p /\ client'[a].tree = peer[p].tree
  <2>1. Passes(p) /\ \E m, challenged :
            client' = [client EXCEPT ![b] =
                [NoClient EXCEPT !.slot = "shared", !.m = m, !.challenged = challenged,
                                 !.from = p, !.tree = peer[p].tree]]
    BY <1>2 DEF Won, Serves
  <2>2. QED
    BY <1>1, <2>1 DEF NoClient
<1>3. ASSUME NEW b \in Attempts, NEW r, client' = [client EXCEPT ![b] = r], r.slot # "shared"
      PROVE  client'[a] = client[a]
  BY <1>1, <1>3
<1>4. ASSUME NEW b \in Attempts, challenge_adopted_tree(b) \/ JoinEnds(b)
      PROVE  /\ client[a].slot = "shared"
             /\ client'[a].from = client[a].from /\ client'[a].tree = client[a].tree
  <2>1. CASE challenge_adopted_tree(b)
    BY <1>1, <2>1 DEF challenge_adopted_tree, ClientState
  <2>2. CASE JoinEnds(b)
    <3>1. PICK joined \in BOOLEAN :
              client' = [client EXCEPT ![b].joining = FALSE,
                                       ![b].slot = IF joined /\ @ = "pending" THEN "own" ELSE @]
      BY <2>2 DEF JoinEnds
    <3>2. QED
      BY <1>1, <3>1 DEF ClientState
  <2>3. QED
    BY <1>4, <2>1, <2>2
<1>5. ASSUME NEW b \in Attempts, Start(b) \/ OriginAnswers(b) \/ leave_mesh(b)
      PROVE  client'[a] = client[a]
  <2>1. \E joining : \/ client' = [client EXCEPT ![b] = NoClient]
                     \/ client' = [client EXCEPT ![b] = [NoClient EXCEPT !.slot = "pending", !.joining = TRUE]]
                     \/ client' = [client EXCEPT ![b] = [NoClient EXCEPT !.joining = joining]]
    BY <1>5 DEF Start, OriginAnswers, leave_mesh
  <2>2. \A joining : /\ NoClient.slot # "shared"
                     /\ [NoClient EXCEPT !.slot = "pending", !.joining = TRUE].slot # "shared"
                     /\ [NoClient EXCEPT !.joining = joining].slot # "shared"
    BY DEF NoClient
  <2>3. QED
    BY <1>3, <2>1, <2>2
<1>6. CASE UNCHANGED client
  BY <1>6
<1>7. QED
  BY <1>2, <1>4, <1>5, <1>6
  DEF Next, Race, World, Tick, Concede, BothFailed, Enter, Minted, JoinFails, RedialOver,
      Vouched, NobodyVouches, RaceOver, peer_answered, vars

\* Every step keeps every client on a channel that bears its share.
LEMMA HomesStep ==
    ASSUME ConnectInv, [Next]_vars
    PROVE  HomesAreNamed' /\ HomesCarryTheShare'
<1>1. SUFFICES ASSUME NEW a \in Attempts, client'[a].slot = "shared"
               PROVE  /\ client'[a].from \in Peers /\ client'[a].tree \in Trees
                      /\ \A i \in DOMAIN Files[client'[a].tree] :
                            Files[client'[a].tree][i] > 0 =>
                                Asks(Files[client'[a].tree][i]) <= peer'[client'[a].from].reach
  BY DEF HomesAreNamed, HomesCarryTheShare
<1>2. \A p \in Peers : peer'[p].reach = peer[p].reach /\ peer[p].tree \in Trees
                       /\ peer[p].reach \in Nat
  BY ChannelsStayAsTheyAre, ConnectAssumption DEF ConnectInv, Types
<1>3. CASE /\ client[a].slot = "shared"
           /\ client'[a].from = client[a].from /\ client'[a].tree = client[a].tree
  BY <1>2, <1>3 DEF ConnectInv, HomesAreNamed, HomesCarryTheShare
<1>4. ASSUME NEW p \in Peers, Passes(p), client'[a].from = p, client'[a].tree = peer[p].tree
      PROVE  /\ client'[a].from \in Peers /\ client'[a].tree \in Trees
             /\ \A i \in DOMAIN Files[client'[a].tree] :
                   Files[client'[a].tree][i] > 0 =>
                       Asks(Files[client'[a].tree][i]) <= peer'[client'[a].from].reach
  <2> DEFINE files == Files[peer[p].tree]
  <2>1. files \in Seq(Nat)
    BY <1>2, ConnectAssumption
  <2>2. ASSUME NEW i \in DOMAIN files, files[i] > 0
        PROVE  Asks(files[i]) <= peer[p].reach
    <3>1. PICK target \in probe_target(files) : Asks(files[i]) <= target.want
      <4> HIDE DEF files
      <4> QED  BY <2>1, <2>2, ProbesAskForTheMost
    <3>2. target.want <= peer[p].reach
      BY <1>4 DEF Passes, probe_read, Drains
    <3>3. \E k \in DOMAIN files : target = [index |-> k, want |-> Asks(files[k])]
      BY DEF probe_target
    <3>4. \A k \in DOMAIN files : Asks(files[k]) \in Nat
      <4>1. \A k \in DOMAIN files : files[k] \in Nat
        <5> HIDE DEF files
        <5> QED  BY <2>1, LenProperties, ElementOfSeq
      <4>2. QED
        BY <4>1, ConnectAssumption DEF Asks
    <3>5. QED
      BY <1>2, <3>1, <3>2, <3>3, <3>4
  <2>3. QED
    BY <1>2, <1>4, <2>2
<1>5. QED
  BY <1>1, <1>3, <1>4, HomesAreVetted

\* What a step may do to the records of the seeders: a record lags behind the
\* lanes that missed its peer, and one that goes was missed often enough, or
\* its tree is challenged.
SpentByEvidence ==
    \A p \in Peers :
        known[p].tree # 0 /\ known'[p].tree = 0 =>
            \/ missed'[p] >= StrikeLimit
            \/ \E a \in Attempts : client[a].challenged = p

(* Every step leaves strikes that are misses in a row, and spends a record on them alone. *)
LEMMA StrikesStep ==
    ASSUME ConnectInv, [Next]_vars
    PROVE  StrikesAreMisses' /\ SpentByEvidence
<1>1. /\ known \in [Peers -> [tree : Trees \cup {0}, strikes : Nat]]
      /\ missed \in [Peers -> 0..StrikeLimit]
      /\ \A p \in Peers : known[p].tree # 0 =>
            known[p].strikes < StrikeLimit /\ known[p].strikes <= missed[p]
      /\ StrikeLimit \in Nat \ {0} /\ 0 \notin Trees
  BY ConnectAssumption DEF ConnectInv, Types, StrikesAreMisses
<1>2. ASSUME NEW unreached \in SUBSET Peers, NEW answered \in SUBSET Peers,
             known' = AfterFailedLane(known, unreached, answered),
             missed' = Missed(unreached, answered)
      PROVE  StrikesAreMisses' /\ SpentByEvidence
  <2>1. ASSUME NEW p \in Peers
        PROVE  /\ known'[p].tree # 0 =>
                    known'[p].strikes < StrikeLimit /\ known'[p].strikes <= missed'[p]
               /\ known[p].tree # 0 /\ known'[p].tree = 0 => missed'[p] >= StrikeLimit
    <3>1. CASE known[p].tree = 0
      <4>1. known'[p] = NoRecord
        BY <1>2, <3>1 DEF AfterFailedLane
      <4>2. QED
        BY <3>1, <4>1 DEF NoRecord
    <3>2. CASE known[p].tree # 0 /\ p \in answered
      <4>1. known'[p] = [known[p] EXCEPT !.strikes = 0] /\ missed'[p] = 0
        BY <1>2, <3>2 DEF AfterFailedLane, Missed
      <4>2. known'[p].tree # 0 /\ known'[p].strikes = 0
        BY <1>1, <3>2, <4>1
      <4>3. QED
        BY <1>1, <4>1, <4>2
    <3>3. CASE known[p].tree # 0 /\ p \notin answered /\ p \in unreached
      <4>1. /\ known'[p] = IF known[p].strikes + 1 < StrikeLimit
                           THEN [known[p] EXCEPT !.strikes = known[p].strikes + 1] ELSE NoRecord
            /\ missed'[p] = IF missed[p] < StrikeLimit THEN missed[p] + 1 ELSE missed[p]
        BY <1>2, <3>3 DEF AfterFailedLane, Missed
      <4>2. known[p].strikes \in Nat /\ missed[p] \in 0..StrikeLimit
            /\ known[p].strikes < StrikeLimit /\ known[p].strikes <= missed[p]
        BY <1>1, <3>3
      <4>3. CASE known[p].strikes + 1 < StrikeLimit
        <5>1. known'[p].tree = known[p].tree /\ known'[p].strikes = known[p].strikes + 1
          BY <1>1, <4>1, <4>3
        <5>2. QED
          BY <1>1, <3>3, <4>1, <4>2, <4>3, <5>1
      <4>4. CASE ~(known[p].strikes + 1 < StrikeLimit)
        <5>1. known'[p].tree = 0
          BY <4>1, <4>4 DEF NoRecord
        <5>2. QED
          BY <1>1, <4>1, <4>2, <4>4, <5>1
      <4>5. QED
        BY <4>3, <4>4
    <3>4. CASE known[p].tree # 0 /\ p \notin answered /\ p \notin unreached
      <4>1. known'[p] = known[p] /\ missed'[p] = missed[p]
        BY <1>2, <3>4 DEF AfterFailedLane, Missed
      <4>2. QED
        BY <1>1, <3>4, <4>1
    <3>5. QED
      BY <3>1, <3>2, <3>3, <3>4
  <2>2. QED
    BY <2>1 DEF StrikesAreMisses, SpentByEvidence
<1>3. ASSUME NEW a \in Attempts, NEW p \in Peers, Won(a, p)
      PROVE  StrikesAreMisses' /\ SpentByEvidence
  <2>1. missed' = [missed EXCEPT ![p] = 0]
    BY <1>3 DEF Won
  <2>2. CASE attempt[a].pc = "redial"
    <3>1. known' = AfterFailedLane(known, {}, {p})
      BY <1>3, <2>2 DEF Won
    <3>2. missed' = Missed({}, {p})
      <4>1. \A q \in Peers : Missed({}, {p})[q] = IF q = p THEN 0 ELSE missed[q]
        BY DEF Missed
      <4>2. Missed({}, {p}) = [q \in Peers |-> Missed({}, {p})[q]]
        BY DEF Missed
      <4>3. QED
        BY <1>1, <2>1, <4>1, <4>2
    <3>3. QED
      BY <1>2, <3>1, <3>2
  <2>3. CASE attempt[a].pc # "redial"
    <3>1. known' = [known EXCEPT ![p] = [tree |-> attempt[a].want, strikes |-> 0]]
      BY <1>3, <2>3 DEF Won, remember_known_seeder
    <3>2. attempt[a].want \in Trees
      BY <1>3, <2>3 DEF Won, ConnectInv, LanesAreStaged
    <3>3. QED
      BY <1>1, <2>1, <3>1, <3>2 DEF StrikesAreMisses, SpentByEvidence
  <2>4. QED
    BY <2>2, <2>3
<1>4. ASSUME NEW a \in Attempts, RedialOver(a)  PROVE StrikesAreMisses' /\ SpentByEvidence
  <2>1. PICK answered \in SUBSET Refused(a), unreached \in SUBSET (attempt[a].dialling \ attempt[a].landed) :
            /\ known' = AfterFailedLane(known, unreached, answered)
            /\ missed' = Missed(unreached, answered)
    BY <1>4 DEF RedialOver
  <2>2. attempt[a].dialling \subseteq Peers /\ attempt[a].landed \subseteq Peers
    BY DEF ConnectInv, Types, AttemptState
  <2>3. QED
    BY <1>2, <2>1, <2>2 DEF Refused
<1>5. ASSUME NEW a \in Attempts, challenge_adopted_tree(a)
      PROVE  StrikesAreMisses' /\ SpentByEvidence
  <2>1. /\ known' = known \/ known' = [known EXCEPT ![client[a].challenged] = NoRecord]
        /\ missed' = missed
    BY <1>5 DEF challenge_adopted_tree
  <2>2. \A q \in Peers : known'[q] = known[q] \/ (q = client[a].challenged /\ known'[q] = NoRecord)
    BY <1>1, <2>1
  <2>3. NoRecord.tree = 0
    BY DEF NoRecord
  <2>4. QED
    BY <1>1, <2>1, <2>2, <2>3 DEF StrikesAreMisses, SpentByEvidence
<1>6. CASE UNCHANGED roster
  BY <1>1, <1>6 DEF roster, StrikesAreMisses, SpentByEvidence
<1>7. QED
  BY <1>3, <1>4, <1>5, <1>6
  DEF Next, Race, World, Start, Tick, OriginAnswers, Concede, BothFailed, Enter, Minted, JoinFails,
      Vouched, NobodyVouches, RaceOver, JoinEnds, leave_mesh, peer_answered, vars

-----------------------------------------------------------------------------

\* The inductive invariant holds throughout: one membership of the tab is on
\* the mesh and everybody is on it, a record's strikes are lanes that missed its
\* peer, and a client's channel bears its share.
THEOREM ConnectInvariant == Spec => []ConnectInv
<1>1. ConnectInv /\ [Next]_vars => ConnectInv'
  BY TypesStep, LanesStep, MembershipStep, HomesStep, StrikesStep DEF ConnectInv
<1>2. QED
  BY <1>1, InitConnect, PTL DEF Spec

\* A membership somebody lives on is never closed under them and none is left
\* behind, and a client is homed on a channel that carries every read of its
\* share.  ShareClient.connect, claim_waiting_mesh, safe_to_retire, probe_target.
THEOREM ClientsStayWellHomed == Spec => []ClientsAreWellHomed
<1>1. ConnectInv => ClientsAreWellHomed
  <2> SUFFICES ASSUME ConnectInv  PROVE ClientsAreWellHomed
    OBVIOUS
  <2>1. ConnectTypeOK
    BY DEF ConnectInv, ConnectTypeOK, Types, AttemptState, LanesAreStaged, OneMembership,
           StrikesAreMisses
  <2>2. LivedOnIsNeverClosed
    BY DEF ConnectInv, OneMembership, LivedOnIsNeverClosed
  <2>3. NoMembershipIsLost
    BY DEF ConnectInv, OneMembership, NoMembershipIsLost
  <2>4. QED
    BY <2>1, <2>2, <2>3 DEF ConnectInv, ClientsAreWellHomed, MembershipsAreKept
<1>2. QED
  BY <1>1, ConnectInvariant, PTL

\* A record is spent by evidence about its peer alone, whichever lanes end in
\* which order.  roster_after_failed_lane, judge_adopted_tree.
THEOREM RecordsAreSpentSoundly == Spec => RecordsAreSpentByEvidence
<1>1. ConnectInv /\ [Next]_vars =>
        [\A p \in Peers :
            known[p].tree # 0 /\ known'[p].tree = 0 =>
                \/ missed'[p] >= StrikeLimit
                \/ \E a \in Attempts : client[a].challenged = p]_vars
  BY StrikesStep DEF SpentByEvidence
<1>2. QED
  BY <1>1, ConnectInvariant, PTL DEF Spec, RecordsAreSpentByEvidence

===============================================================================
