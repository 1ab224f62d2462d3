----------------------------- MODULE SessionProofs -----------------------------
(***************************************************************************)
(* Theorems of Session, for any mounts, passwords, faults and calls.       *)
(***************************************************************************)
EXTENDS Session, TLAPS, SequenceTheorems

PromiseState ==
    [state : {"pending", "ok", "failed", "refused", "unusable"}, password : Entered \cup {0},
     slot : {"none", "Joined", "Left"}, leaving : BOOLEAN, closed : BOOLEAN]

Clients == [cache : Nat, promise : Seq(PromiseState)]

\* A mount's variables while n promises have been made.
MountState(n) ==
    [phase : {"none", "connecting", "ready", "needs-password", "failed", "gone"},
     aborted : BOOLEAN, pending : 0..n, password : Entered \cup {0}, client : 0..n,
     watched : SUBSET (1..n),
     loop : [Loops -> [pc : {"off", "connect", "manifest", "watch", "sleep"}, on : 0..n]],
     retiring : 0..n, evicted : BOOLEAN]

Types ==
    /\ clients \in Clients
    /\ session \in [Sessions -> MountState(Len(clients.promise))]
    /\ remembered \in Entered \cup {0}
    /\ {agent.entry, agent.on} \subseteq 0..Len(clients.promise)

\* A client that neither left the mesh nor is about to.
Serving(c, p) == c.promise[p].slot # "Left" /\ ~c.promise[p].leaving

\* What the cache holds is on its way or up, and serves.
CacheIsGood(c) ==
    /\ c.cache \in 0..Len(c.promise)
    /\ c.cache # 0 => c.promise[c.cache].state \in {"pending", "ok"} /\ Serving(c, c.cache)

IsLive(m) == m.phase # "none" /\ ~m.aborted
Reviving(m) == m.loop["revival"].pc # "off"

\* A loop waits for a promise that failed: microtasks first, and nothing is cached.
LoopIsSound(c, loop) ==
    /\ loop.pc # "off" => loop.on # 0
    /\ loop.pc \in {"manifest", "watch"} => c.promise[loop.on].state = "ok"
    /\ loop.pc = "connect" /\ c.promise[loop.on].state \notin {"pending", "ok"} => c.cache = 0

\* One mount m over the cache c.  The client it retires, and the one an
\* unmounted mount let go of, never come back into the cache.
MountIsSound(c, m) ==
    /\ m.phase = "none" => m = Unmounted
    /\ m.phase = "gone" => m = Gone
    /\ m.phase \notin {"none", "gone"} => m.pending # 0
    /\ \A l \in Loops :
        /\ LoopIsSound(c, m.loop[l])
        /\ m.loop[l].pc # "off" => m.phase \notin {"none", "gone"}
    /\ Reviving(m) => m.retiring # 0 /\ c.cache # m.retiring
    /\ IsLive(m) => Serving(c, m.pending) /\ (Reviving(m) => Serving(c, m.retiring))
    /\ m.aborted /\ m.phase # "gone" => c.cache # m.pending

\* The password at hand is the one remembered, and none at the gate.
PasswordIsSound(m, password) ==
    IsLive(m) => m.password = password /\ (m.phase = "needs-password" => password = 0)

\* Nobody retires what a mounted session m serves with.
Spared(m, n) == IsLive(m) /\ Reviving(n) => m.pending # n.retiring
SparedRetiring(m, n) == IsLive(m) /\ Reviving(m) /\ Reviving(n) => m.retiring # n.retiring

\* The invariant of the theorems.
SessionInv ==
    /\ Types /\ CacheIsGood(clients)
    /\ \A s \in Sessions :
        MountIsSound(clients, session[s]) /\ PasswordIsSound(session[s], remembered)
    /\ \A s, t \in Sessions :
        /\ Spared(session[s], session[t])
        /\ s # t => SparedRetiring(session[s], session[t]) /\ ~(Live(s) /\ Live(t))

-----------------------------------------------------------------------------
(* What the cache goes through.                                              *)

\* What a client did, it did before; a promise that fails leaves no cache.
Aged(c, d, left) ==
    /\ d \in Clients /\ Len(c.promise) <= Len(d.promise)
    /\ d.cache \in {0, c.cache} \/ d.cache > Len(c.promise)
    /\ \A p \in 1..Len(c.promise) :
        /\ \/ d.promise[p].state = c.promise[p].state
           \/ c.promise[p].state = "pending" /\ (d.promise[p].state = "ok" \/ d.cache = 0)
        /\ p # left /\ Serving(c, p) => Serving(d, p)

\* What connect, evict, release and retire do: no promise settles.
Moved(c, d, left) ==
    /\ Aged(c, d, left)
    /\ \A p \in 1..Len(c.promise) : d.promise[p].state = c.promise[p].state

USE DEF Clients

(* A new promise is pending, and its client serves.                          *)
LEMMA NewIs ==
    ASSUME NEW c \in Clients, NEW password \in Entered \cup {0}, NEW d, d = New(c, password)
    PROVE  /\ d \in Clients
           /\ Len(d.promise) = Len(c.promise) + 1 /\ d.cache = Len(c.promise) + 1
           /\ \A p \in 1..Len(c.promise) : d.promise[p] = c.promise[p]
           /\ d.promise[Len(c.promise) + 1].state = "pending" /\ Serving(d, Len(c.promise) + 1)
<1> DEFINE fresh == [state |-> "pending", password |-> password, slot |-> "none",
                     leaving |-> FALSE, closed |-> FALSE]
<1>1. fresh \in PromiseState
    BY DEF PromiseState
<1>2. d.promise = Append(c.promise, fresh) /\ d.cache = Len(c.promise) + 1
    BY DEF New
<1>3. d = [cache |-> Len(c.promise) + 1, promise |-> Append(c.promise, fresh)]
    BY DEF New
<1>4. c.promise \in Seq(PromiseState) /\ Len(c.promise) \in Nat
    OBVIOUS
<1>5. /\ Append(c.promise, fresh) \in Seq(PromiseState)
      /\ Len(Append(c.promise, fresh)) = Len(c.promise) + 1
      /\ \A p \in 1..Len(c.promise) : Append(c.promise, fresh)[p] = c.promise[p]
      /\ Append(c.promise, fresh)[Len(c.promise) + 1] = fresh
    BY <1>1, <1>4, AppendProperties
<1>6. fresh.state = "pending" /\ fresh.slot = "none" /\ fresh.leaving = FALSE
    OBVIOUS
<1> HIDE DEF fresh
<1>7. d \in Clients
    BY <1>3, <1>4, <1>5
<1>8. d.promise[Len(c.promise) + 1] = fresh
    BY <1>2, <1>5
<1> QED
    BY <1>2, <1>4, <1>5, <1>6, <1>7, <1>8 DEF Serving

(* connect hands out what serves.                                            *)
LEMMA ConnectMoves ==
    ASSUME NEW c \in Clients, CacheIsGood(c), NEW password \in Entered \cup {0},
           NEW d, d = Connect(c, password)
    PROVE  Moved(c, d, 0) /\ CacheIsGood(d) /\ d.cache # 0
<1>1. CASE c.cache # 0
    BY <1>1 DEF Connect, Moved, Aged
<1>2. CASE c.cache = 0
  <2>1. d = New(c, password)
    BY <1>2 DEF Connect
  <2>2. /\ d \in Clients
        /\ Len(d.promise) = Len(c.promise) + 1 /\ d.cache = Len(c.promise) + 1
        /\ \A p \in 1..Len(c.promise) : d.promise[p] = c.promise[p]
        /\ d.promise[Len(c.promise) + 1].state = "pending" /\ Serving(d, Len(c.promise) + 1)
    BY <2>1, NewIs
  <2>3. Len(c.promise) \in Nat
    OBVIOUS
  <2>4. \A p \in 1..Len(c.promise) : Serving(c, p) => Serving(d, p)
    BY <2>2 DEF Serving
  <2>5. Moved(c, d, 0)
    BY <2>2, <2>3, <2>4 DEF Moved, Aged
  <2>6. CacheIsGood(d) /\ d.cache # 0
    BY <2>2, <2>3 DEF CacheIsGood
  <2> QED
    BY <2>5, <2>6
<1> QED
    BY <1>1, <1>2

(* One promise is replaced.                                                  *)
LEMMA PromiseSet ==
    ASSUME NEW c \in Clients, NEW p \in 1..Len(c.promise), NEW new \in PromiseState,
           NEW d, d = [c EXCEPT !.promise[p] = new]
    PROVE  /\ d \in Clients /\ d.cache = c.cache /\ Len(d.promise) = Len(c.promise)
           /\ d.promise[p] = new
           /\ \A q \in 1..Len(c.promise) : q # p => d.promise[q] = c.promise[q]
<1>1. c.promise \in Seq(PromiseState) /\ c = [cache |-> c.cache, promise |-> c.promise]
    OBVIOUS
<1>2. d = [cache |-> c.cache, promise |-> [c.promise EXCEPT ![p] = new]]
    BY <1>1
<1>3. /\ [c.promise EXCEPT ![p] = new] \in Seq(PromiseState)
      /\ Len([c.promise EXCEPT ![p] = new]) = Len(c.promise)
    BY <1>1, ExceptSeq
<1>4. /\ [c.promise EXCEPT ![p] = new][p] = new
      /\ \A q \in 1..Len(c.promise) : q # p => [c.promise EXCEPT ![p] = new][q] = c.promise[q]
    BY <1>1
<1> QED
    BY <1>2, <1>3, <1>4

(* A client told to leave is no longer the cached one.                       *)
LEMMA RetireMoves ==
    ASSUME NEW c \in Clients, CacheIsGood(c), NEW owned \in 1..Len(c.promise), c.cache # owned,
           NEW d, d = Retire(c, owned)
    PROVE  Moved(c, d, owned) /\ CacheIsGood(d) /\ d.cache = c.cache
<1> DEFINE client == c.promise[owned]
<1>1. c.promise \in Seq(PromiseState) /\ client \in PromiseState /\ Len(c.promise) \in Nat
    BY ElementOfSeq
<1>2. CASE client.state \notin {"ok", "pending"}
    BY <1>1, <1>2 DEF Retire, Moved, Aged
<1>3. CASE client.state \in {"ok", "pending"}
  <2> DEFINE left == [client EXCEPT !.slot = "Left"]
             leaving == [client EXCEPT !.leaving = TRUE]
  <2>1. /\ left \in PromiseState /\ left.state = client.state
        /\ leaving \in PromiseState /\ leaving.state = client.state
    <3> HIDE DEF client
    <3> QED
        BY <1>1 DEF PromiseState
  <2>2. \E new \in PromiseState :
            new.state = client.state /\ d = [c EXCEPT !.promise[owned] = new]
    <3>1. CASE client.state = "ok"
      <4>1. d = [c EXCEPT !.promise[owned] = left]
        BY <3>1 DEF Retire
      <4> QED
        BY <2>1, <4>1
    <3>2. CASE client.state = "pending"
      <4>1. d = [c EXCEPT !.promise[owned] = leaving]
        BY <3>2 DEF Retire
      <4> QED
        BY <2>1, <4>1
    <3> QED
        BY <1>3, <3>1, <3>2
  <2>3. PICK new \in PromiseState :
            new.state = client.state /\ d = [c EXCEPT !.promise[owned] = new]
    BY <2>2
  <2>4. /\ d \in Clients /\ d.cache = c.cache /\ Len(d.promise) = Len(c.promise)
        /\ d.promise[owned] = new
        /\ \A q \in 1..Len(c.promise) : q # owned => d.promise[q] = c.promise[q]
    BY <2>3, PromiseSet
  <2> QED
    BY <1>1, <2>3, <2>4 DEF Moved, Aged, Serving, CacheIsGood
<1> QED
    BY <1>2, <1>3

(* Evicting a promise empties the cache if that promise is the cached one, and settles
   none.                                                                     *)
LEMMA EvictMoves ==
    ASSUME NEW c \in Clients, CacheIsGood(c), NEW owned, NEW d, d = Evict(c, owned)
    PROVE  /\ Moved(c, d, 0) /\ CacheIsGood(d) /\ d.promise = c.promise
           /\ d.cache = IF c.cache = owned THEN 0 ELSE c.cache
<1>1. CASE c.cache = owned
  <2>1. d = [cache |-> 0, promise |-> c.promise]
    BY <1>1 DEF Evict
  <2> QED
    BY <1>1, <2>1 DEF Moved, Aged, CacheIsGood, Serving
<1>2. CASE c.cache # owned
    BY <1>2 DEF Evict, Moved, Aged
<1> QED
    BY <1>1, <1>2

(* release lets go of a client and tells it to leave, if it is the cached one. *)
LEMMA ReleaseMoves ==
    ASSUME NEW c \in Clients, CacheIsGood(c), NEW owned \in 1..Len(c.promise),
           NEW d, d = Release(c, owned)
    PROVE  /\ Moved(c, d, owned) /\ CacheIsGood(d)
           /\ d.cache = IF c.cache = owned THEN 0 ELSE c.cache
<1>1. CASE c.cache = owned
  <2> DEFINE e == Evict(c, owned)
  <2>1. Moved(c, e, 0) /\ CacheIsGood(e) /\ e.promise = c.promise /\ e.cache = 0
    BY <1>1, EvictMoves
  <2>2. e \in Clients /\ d = Retire(e, owned) /\ e.cache # owned /\ owned \in 1..Len(e.promise)
    BY <1>1, <2>1 DEF Release, Moved, Aged
  <2> HIDE DEF e
  <2>3. Moved(e, d, owned) /\ CacheIsGood(d) /\ d.cache = e.cache
    BY <2>1, <2>2, RetireMoves
  <2> QED
    BY <1>1, <2>1, <2>3 DEF Moved, Aged, Serving
<1>2. CASE c.cache # owned
    BY <1>2 DEF Release, Moved, Aged
<1> QED
    BY <1>1, <1>2

(* A redial never hands out the client it let go of.                         *)
LEMMA RedialMoves ==
    ASSUME NEW c \in Clients, CacheIsGood(c), NEW owned \in 1..Len(c.promise),
           NEW password \in Entered \cup {0}, NEW d, d = Redial(c, owned, password)
    PROVE  Moved(c, d, owned) /\ CacheIsGood(d) /\ d.cache \notin {0, owned}
<1> DEFINE e == Release(c, owned)
<1>1. Moved(c, e, owned) /\ CacheIsGood(e) /\ e.cache # owned
  <2>1. owned # 0
    BY DEF Clients
  <2> QED
    BY <2>1, ReleaseMoves
<1>2. e \in Clients /\ d = Connect(e, password)
    BY <1>1 DEF Redial, Moved, Aged
<1> HIDE DEF e
<1>3. Moved(e, d, 0) /\ CacheIsGood(d) /\ d.cache # 0
    BY <1>1, <1>2, ConnectMoves
<1>4. Len(c.promise) \in Nat /\ Len(e.promise) \in Nat /\ Len(d.promise) \in Nat
      /\ c.cache \in Nat /\ d.cache \in Nat /\ e.cache \in Nat
    BY <1>2, <1>3 DEF Moved, Aged
<1>5. d.cache = e.cache \/ d.cache > Len(e.promise)
    BY <1>3 DEF Moved, Aged
<1>6. Moved(c, d, owned)
  <2>1. d.cache \in {0, c.cache} \/ d.cache > Len(c.promise)
    BY <1>1, <1>3, <1>4, <1>5 DEF Moved, Aged
  <2>2. \A p \in 1..Len(c.promise) : p \in 1..Len(e.promise) /\ p # 0
    BY <1>1, <1>4 DEF Moved, Aged
  <2> QED
    BY <1>1, <1>3, <1>4, <2>1, <2>2 DEF Moved, Aged
<1> QED
    BY <1>1, <1>3, <1>4, <1>5, <1>6 DEF Moved, Aged

-----------------------------------------------------------------------------
(* What that means to a mount.                                               *)

\* No loop of m waits for a settled promise.
Resting(c, m) ==
    \A l \in Loops : m.loop[l].pc = "connect" => c.promise[m.loop[l].on].state = "pending"

\* A new promise is made only when nothing waits for an old one that settled.
FreshIsIdle(c, d, m) == d.cache \notin {0, c.cache} => Resting(c, m)

(* A loop stays sound while the clients move; a new client comes into the cache only while
   the promise it waits for is pending. *)
LEMMA LoopAges ==
    ASSUME NEW c \in Clients, NEW d, NEW left, Aged(c, d, left),
           NEW loop, loop.on \in 0..Len(c.promise), LoopIsSound(c, loop),
           d.cache \notin {0, c.cache} /\ loop.pc = "connect" =>
               c.promise[loop.on].state = "pending"
    PROVE  LoopIsSound(d, loop)
<1> SUFFICES ASSUME loop.pc # "off" PROVE LoopIsSound(d, loop)
    BY DEF LoopIsSound
<1>1. loop.on \in 1..Len(c.promise)
    BY DEF LoopIsSound
<1>2. /\ \/ d.promise[loop.on].state = c.promise[loop.on].state
         \/ c.promise[loop.on].state = "pending"
                /\ (d.promise[loop.on].state = "ok" \/ d.cache = 0)
    BY <1>1 DEF Aged
<1> QED
    BY <1>1, <1>2 DEF LoopIsSound

(* A mount stays sound while the clients move, provided what leaves the cache for good is
   not what it serves with. *)
LEMMA MountAges ==
    ASSUME NEW c \in Clients, NEW d, NEW left, Aged(c, d, left),
           NEW m \in MountState(Len(c.promise)), MountIsSound(c, m), FreshIsIdle(c, d, m),
           IsLive(m) => m.pending # left /\ (Reviving(m) => m.retiring # left)
    PROVE  m \in MountState(Len(d.promise)) /\ MountIsSound(d, m)
<1>1. /\ Len(c.promise) \in Nat /\ Len(d.promise) \in Nat /\ Len(c.promise) <= Len(d.promise)
      /\ c.cache \in Nat /\ d.cache \in Nat
    BY DEF Aged
<1>2. /\ m.pending \in 0..Len(c.promise) /\ m.retiring \in 0..Len(c.promise)
      /\ \A l \in Loops : m.loop[l].on \in 0..Len(c.promise)
    BY DEF MountState
<1>3. m \in MountState(Len(d.promise))
  <2>1. 0..Len(c.promise) \subseteq 0..Len(d.promise) /\ 1..Len(c.promise) \subseteq 1..Len(d.promise)
    BY <1>1
  <2> QED
    BY <2>1 DEF MountState
<1>4. \A l \in Loops : LoopIsSound(d, m.loop[l])
  <2> TAKE l \in Loops
  <2>1. LoopIsSound(c, m.loop[l])
    BY DEF MountIsSound
  <2>2. d.cache \notin {0, c.cache} /\ m.loop[l].pc = "connect" =>
            c.promise[m.loop[l].on].state = "pending"
    BY DEF FreshIsIdle, Resting
  <2> QED
    BY <1>2, <2>1, <2>2, LoopAges
<1>5. \A p \in 1..Len(c.promise) : c.cache # p => d.cache # p
    BY <1>1 DEF Aged
<1>6. Reviving(m) => m.retiring \in 1..Len(c.promise) /\ d.cache # m.retiring
    BY <1>1, <1>2, <1>5 DEF MountIsSound
<1>7. IsLive(m) => m.pending \in 1..Len(c.promise)
  <2>1. m.phase = "gone" => m.aborted
    BY DEF MountIsSound, Gone, Unmounted
  <2> QED
    BY <1>1, <1>2, <2>1 DEF MountIsSound, IsLive
<1>8. IsLive(m) => Serving(d, m.pending) /\ (Reviving(m) => Serving(d, m.retiring))
    BY <1>6, <1>7 DEF MountIsSound, Aged
<1>9. m.aborted /\ m.phase # "gone" => d.cache # m.pending
  <2>1. m.phase = "none" => ~m.aborted
    BY DEF MountIsSound, Unmounted
  <2>2. m.aborted /\ m.phase # "gone" => c.cache # m.pending /\ m.pending \in 1..Len(c.promise)
    BY <1>1, <1>2, <2>1 DEF MountIsSound
  <2> QED
    BY <1>5, <2>2
<1> QED
    BY <1>3, <1>4, <1>6, <1>8, <1>9 DEF MountIsSound

\* Nothing that the other mounts rely on left.
Untouched(s, left) ==
    \A t \in Sessions \ {s} :
        IsLive(session[t]) =>
            /\ session[t].pending # left
            /\ Reviving(session[t]) => session[t].retiring # left
            /\ remembered' = remembered

\* What a mount n and the others retire is not what they serve with.
Agrees(s, n) ==
    /\ Spared(n, n)
    /\ \A t \in Sessions \ {s} :
        /\ Spared(session[t], n) /\ Spared(n, session[t])
        /\ SparedRetiring(n, session[t]) /\ SparedRetiring(session[t], n)
        /\ ~(IsLive(n) /\ IsLive(session[t]))

(* One mount takes a step, and what its client does leaves the rest alone.   *)
LEMMA SessionMoves ==
    ASSUME SessionInv, NEW s \in Sessions, NEW n, NEW left,
           Aged(clients, clients', left), CacheIsGood(clients'),
           \A t \in Sessions \ {s} : FreshIsIdle(clients, clients', session[t]),
           session' = [session EXCEPT ![s] = n],
           n \in MountState(Len(clients'.promise)), MountIsSound(clients', n),
           PasswordIsSound(n, remembered'), remembered' \in Entered \cup {0},
           Untouched(s, left), Agrees(s, n), UNCHANGED agent
    PROVE  SessionInv'
<1>1. clients \in Clients /\ clients' \in Clients /\ Len(clients.promise) <= Len(clients'.promise)
    BY DEF SessionInv, Types, Aged
<1>2. session'[s] = n /\ \A t \in Sessions \ {s} : session'[t] = session[t]
    BY DEF SessionInv, Types
<1>3. \A t \in Sessions \ {s} :
        /\ session'[t] \in MountState(Len(clients'.promise)) /\ MountIsSound(clients', session'[t])
        /\ PasswordIsSound(session'[t], remembered')
  <2> TAKE t \in Sessions \ {s}
  <2>1. /\ session[t] \in MountState(Len(clients.promise)) /\ MountIsSound(clients, session[t])
        /\ PasswordIsSound(session[t], remembered)
    BY DEF SessionInv, Types
  <2>2. session[t] \in MountState(Len(clients'.promise)) /\ MountIsSound(clients', session[t])
    <3>1. FreshIsIdle(clients, clients', session[t])
        OBVIOUS
    <3>2. IsLive(session[t]) =>
            session[t].pending # left /\ (Reviving(session[t]) => session[t].retiring # left)
        BY DEF Untouched
    <3> QED
        BY <1>1, <2>1, <3>1, <3>2, MountAges
  <2> QED
    BY <1>2, <2>1, <2>2 DEF Untouched, PasswordIsSound
<1>4. Types'
  <2>1. DOMAIN session' = Sessions /\ session' = [t \in Sessions |-> session'[t]]
    BY DEF SessionInv, Types
  <2>2. session' \in [Sessions -> MountState(Len(clients'.promise))]
    BY <1>2, <1>3, <2>1
  <2>3. {agent.entry, agent.on} \subseteq 0..Len(clients'.promise)
    BY <1>1 DEF SessionInv, Types
  <2> QED
    BY <1>1, <2>2, <2>3 DEF Types
<1>5. \A t \in Sessions :
        MountIsSound(clients', session'[t]) /\ PasswordIsSound(session'[t], remembered')
    BY <1>2, <1>3
<1>6. \A t, u \in Sessions :
        /\ Spared(session'[t], session'[u])
        /\ t # u => SparedRetiring(session'[t], session'[u])
                    /\ ~(IsLive(session'[t]) /\ IsLive(session'[u]))
  <2> TAKE t, u \in Sessions
  <2>1. CASE t = s /\ u = s
    BY <1>2, <2>1 DEF Agrees
  <2>2. CASE t = s /\ u # s
    BY <1>2, <2>2 DEF Agrees
  <2>3. CASE t # s /\ u = s
    BY <1>2, <2>3 DEF Agrees
  <2>4. CASE t # s /\ u # s
    BY <1>2, <2>4 DEF SessionInv, Live, IsLive
  <2> QED
    BY <2>1, <2>2, <2>3, <2>4
<1> QED
    BY <1>4, <1>5, <1>6 DEF SessionInv, Live, IsLive

\* What the mount n relies on, m relied on.
Keeps(n, m) ==
    /\ IsLive(n) => IsLive(m) /\ n.pending = m.pending
    /\ Reviving(n) => Reviving(m) /\ n.retiring = m.retiring

(* A mount that keeps its ends agrees with every other session, as it did before. *)
LEMMA KeepingAgrees ==
    ASSUME SessionInv, NEW s \in Sessions, NEW n, Keeps(n, session[s])
    PROVE  Agrees(s, n)
<1>1. \A t \in Sessions :
        /\ Spared(session[s], session[t]) /\ Spared(session[t], session[s])
        /\ t # s => SparedRetiring(session[s], session[t]) /\ SparedRetiring(session[t], session[s])
                    /\ ~(IsLive(session[s]) /\ IsLive(session[t]))
    BY DEF SessionInv, Live, IsLive
<1> QED
    BY <1>1 DEF Agrees, Keeps, Spared, SparedRetiring

(* A mount goes on with what it relied on, over what the cache becomes.      *)
LEMMA Continues ==
    ASSUME SessionInv, NEW s \in Sessions, NEW n, NEW left,
           Aged(clients, clients', left), CacheIsGood(clients'),
           \A t \in Sessions \ {s} : FreshIsIdle(clients, clients', session[t]),
           FreshIsIdle(clients, clients', n),
           session' = [session EXCEPT ![s] = n],
           n \in MountState(Len(clients.promise)), MountIsSound(clients, n),
           PasswordIsSound(n, remembered'), remembered' \in Entered \cup {0},
           IsLive(n) => n.pending # left /\ (Reviving(n) => n.retiring # left),
           Untouched(s, left), Keeps(n, session[s]), UNCHANGED agent
    PROVE  SessionInv'
<1>1. clients \in Clients
    BY DEF SessionInv, Types
<1>2. n \in MountState(Len(clients'.promise)) /\ MountIsSound(clients', n)
    BY <1>1, MountAges
<1>3. Agrees(s, n)
    BY KeepingAgrees
<1> QED
    BY <1>2, <1>3, SessionMoves

\* What the mount n retires, over the cache as it was and will be.
RetiresWell(s, n, left) ==
    /\ n.retiring \in 1..Len(clients.promise) /\ n.retiring \notin {0, left, clients'.cache}
    /\ Serving(clients, n.retiring)
    /\ \A t \in Sessions \ {s} : Reviving(session[t]) => n.retiring # session[t].retiring

\* The loop l of the mounted n waits for what the cache now holds.
Dialling(s, n, l) ==
    /\ session' = [session EXCEPT ![s] = n]
    /\ n \in MountState(Len(clients'.promise)) /\ n.phase \notin {"none", "gone"} /\ ~n.aborted
    /\ n.pending = clients'.cache /\ n.loop[l] = [pc |-> "connect", on |-> clients'.cache]
    /\ \A k \in Loops \ {l} : n.loop[k] = session[s].loop[k]

(* A mount dials, and nobody else is mounted.                                *)
LEMMA Dials ==
    ASSUME SessionInv, NEW s \in Sessions, NEW n, NEW left, NEW l \in Loops,
           Aged(clients, clients', left), CacheIsGood(clients'), clients'.cache # 0,
           \A t \in Sessions : FreshIsIdle(clients, clients', session[t]),
           Dialling(s, n, l), Reviving(n) => RetiresWell(s, n, left),
           \A t \in Sessions \ {s} : ~IsLive(session[t]),
           PasswordIsSound(n, remembered'), remembered' \in Entered \cup {0}, UNCHANGED agent
    PROVE  SessionInv'
<1> USE DEF Dialling, RetiresWell
<1>1. clients \in Clients /\ clients' \in Clients
    BY DEF SessionInv, Types, Aged
<1>2. \A k \in Loops : LoopIsSound(clients', n.loop[k])
  <2>1. LoopIsSound(clients', n.loop[l])
    BY DEF LoopIsSound, CacheIsGood
  <2>2. ASSUME NEW k \in Loops \ {l} PROVE LoopIsSound(clients', n.loop[k])
    <3>1. session[s] \in MountState(Len(clients.promise)) /\ MountIsSound(clients, session[s])
        BY DEF SessionInv, Types
    <3>2. /\ session[s].loop[k].on \in 0..Len(clients.promise)
          /\ LoopIsSound(clients, session[s].loop[k])
        BY <3>1 DEF MountState, MountIsSound
    <3>3. clients'.cache \notin {0, clients.cache} /\ session[s].loop[k].pc = "connect" =>
              clients.promise[session[s].loop[k].on].state = "pending"
        BY DEF FreshIsIdle, Resting
    <3> QED
        BY <1>1, <3>2, <3>3, LoopAges
  <2> QED
    BY <2>1, <2>2
<1>3. MountIsSound(clients', n)
  <2>1. Serving(clients', n.pending)
    BY DEF CacheIsGood
  <2>2. Reviving(n) => Serving(clients', n.retiring)
    BY DEF Aged
  <2>3. n.pending # 0
    OBVIOUS
  <2> QED
    BY <1>2, <2>1, <2>2, <2>3 DEF MountIsSound
<1>4. ASSUME NEW t \in Sessions \ {s}, Reviving(session[t]) PROVE clients'.cache # session[t].retiring
  <2>1. session[t] \in MountState(Len(clients.promise)) /\ MountIsSound(clients, session[t])
    BY DEF SessionInv, Types
  <2>2. /\ session[t].retiring \in 0..Len(clients.promise) /\ session[t].retiring # 0
        /\ clients.cache # session[t].retiring
    BY <1>4, <2>1 DEF MountState, MountIsSound
  <2>3. Len(clients.promise) \in Nat /\ clients'.cache \in Nat
    BY <1>1
  <2> QED
    BY <2>2, <2>3 DEF Aged
<1>5. Agrees(s, n)
  <2>1. Spared(n, n)
    BY DEF Spared
  <2> QED
    BY <1>4, <2>1 DEF Agrees, Spared, SparedRetiring
<1>6. Untouched(s, left)
    BY DEF Untouched
<1> QED
    BY <1>3, <1>5, <1>6, SessionMoves

(* What happens to the cache alone.                                          *)
LEMMA CacheMoves ==
    ASSUME SessionInv, Aged(clients, clients', 0), CacheIsGood(clients'),
           \A t \in Sessions : FreshIsIdle(clients, clients', session[t]),
           UNCHANGED <<session, remembered>>,
           {agent'.entry, agent'.on} \subseteq 0..Len(clients'.promise)
    PROVE  SessionInv'
<1>1. clients \in Clients /\ clients' \in Clients
    BY DEF SessionInv, Types, Aged
<1>2. \A t \in Sessions :
        session[t] \in MountState(Len(clients'.promise)) /\ MountIsSound(clients', session[t])
  <2> TAKE t \in Sessions
  <2>1. session[t] \in MountState(Len(clients.promise)) /\ MountIsSound(clients, session[t])
    BY DEF SessionInv, Types
  <2>2. IsLive(session[t]) =>
            session[t].pending # 0 /\ (Reviving(session[t]) => session[t].retiring # 0)
    BY <2>1 DEF MountIsSound, IsLive, Gone, Unmounted
  <2>3. FreshIsIdle(clients, clients', session[t])
    OBVIOUS
  <2> QED
    BY <1>1, <2>1, <2>2, <2>3, MountAges
<1>3. Types'
  <2>1. session' \in [Sessions -> MountState(Len(clients'.promise))]
    BY <1>2 DEF SessionInv, Types
  <2> QED
    BY <1>1, <2>1 DEF SessionInv, Types
<1> QED
    BY <1>2, <1>3 DEF SessionInv, Live

(* While no call runs, nothing is asked of a mount that has just begun. *)
LEMMA IdleRests ==
    ASSUME Idle, NEW d, NEW t \in Sessions
    PROVE  FreshIsIdle(clients, d, session[t])
BY DEF Idle, FreshIsIdle, Resting, Settled, Promise

(* The invariant, as one session sees it. *)
LEMMA MountOf ==
    ASSUME SessionInv, NEW s \in Sessions
    PROVE  /\ clients \in Clients /\ Len(clients.promise) \in Nat /\ CacheIsGood(clients)
           /\ session[s] \in MountState(Len(clients.promise)) /\ MountIsSound(clients, session[s])
           /\ PasswordIsSound(session[s], remembered)
           /\ IsLive(session[s]) =>
                /\ session[s].phase \notin {"none", "gone"} /\ session[s].pending # 0
                /\ \A t \in Sessions \ {s} : ~IsLive(session[t])
<1>1. /\ clients \in Clients /\ CacheIsGood(clients)
      /\ session[s] \in MountState(Len(clients.promise)) /\ MountIsSound(clients, session[s])
      /\ PasswordIsSound(session[s], remembered)
    BY DEF SessionInv, Types
<1>2. IsLive(session[s]) => session[s].phase \notin {"none", "gone"} /\ session[s].pending # 0
    BY <1>1 DEF MountIsSound, IsLive, Gone, Unmounted
<1>3. IsLive(session[s]) => \A t \in Sessions \ {s} : ~IsLive(session[t])
    BY DEF SessionInv, Live, IsLive
<1> QED
    BY <1>1, <1>2, <1>3

(* A step of a mount that leaves the cache as it is.                         *)
LEMMA StaysInPlace ==
    ASSUME SessionInv, NEW s \in Sessions, NEW n, clients' = clients,
           session' = [session EXCEPT ![s] = n],
           n \in MountState(Len(clients.promise)), MountIsSound(clients, n), Keeps(n, session[s]),
           PasswordIsSound(n, remembered'), remembered' \in Entered \cup {0},
           remembered' = remembered \/ IsLive(session[s]), UNCHANGED agent
    PROVE  SessionInv'
<1>1. Aged(clients, clients', 0) /\ CacheIsGood(clients')
    BY MountOf DEF Aged
<1>2. \A m : FreshIsIdle(clients, clients', m)
    BY DEF FreshIsIdle
<1>3. \A t \in Sessions :
        IsLive(session[t]) =>
            session[t].pending # 0 /\ (Reviving(session[t]) => session[t].retiring # 0)
    BY MountOf DEF MountIsSound
<1>4. Untouched(s, 0)
    BY <1>3, MountOf DEF Untouched
<1>5. IsLive(n) => n.pending # 0 /\ (Reviving(n) => n.retiring # 0)
    BY <1>3 DEF Keeps
<1> QED
    BY <1>1, <1>2, <1>4, <1>5, Continues

(* Whatever a mounted record changes besides what MountIsSound looks at.     *)
LEMMA StaysSound ==
    ASSUME NEW c, NEW m, NEW n, MountIsSound(c, m),
           m.phase \notin {"none", "gone"}, n.phase \notin {"none", "gone"},
           n.pending = m.pending, n.aborted = m.aborted,
           \A l \in Loops : LoopIsSound(c, n.loop[l]),
           Reviving(n) => Reviving(m) /\ n.retiring = m.retiring
    PROVE  MountIsSound(c, n) /\ Keeps(n, m)
BY DEF MountIsSound, Keeps, IsLive

LoopState(k) == [pc : {"off", "connect", "manifest", "watch", "sleep"}, on : 0..k]

\* A mount one loop of which changed.
Looping(m, l, new) == [m EXCEPT !.loop[l] = new]

(* Setting one loop of a mount leaves the rest of it and the other loop alone. *)
LEMMA LoopSet ==
    ASSUME NEW k \in Nat, NEW m \in MountState(k), NEW l \in Loops, NEW new \in LoopState(k),
           NEW n, n = Looping(m, l, new)
    PROVE  /\ n \in MountState(k)
           /\ n.phase = m.phase /\ n.aborted = m.aborted /\ n.pending = m.pending
           /\ n.password = m.password /\ n.client = m.client /\ n.watched = m.watched
           /\ n.retiring = m.retiring /\ n.evicted = m.evicted
           /\ n.loop[l] = new /\ \A j \in Loops \ {l} : n.loop[j] = m.loop[j]
<1> DEFINE loop == [m.loop EXCEPT ![l] = new]
<1>1. m.loop \in [Loops -> LoopState(k)]
    BY DEF MountState, LoopState
<1>2. loop \in [Loops -> LoopState(k)] /\ loop[l] = new /\ \A j \in Loops \ {l} : loop[j] = m.loop[j]
    BY <1>1
<1>3. n = [m EXCEPT !.loop = loop]
    BY DEF Looping
<1> HIDE DEF loop
<1>4. /\ n.phase = m.phase /\ n.aborted = m.aborted /\ n.pending = m.pending
      /\ n.password = m.password /\ n.client = m.client /\ n.watched = m.watched
      /\ n.retiring = m.retiring /\ n.evicted = m.evicted /\ n.loop = loop
    BY <1>3 DEF MountState
<1>5. n \in MountState(k)
    BY <1>2, <1>3 DEF MountState, LoopState
<1> QED
    BY <1>2, <1>4, <1>5

(* A mount that is gone is sound for any clients: it holds nothing. *)
LEMMA GoneIs ==
    ASSUME NEW c \in Clients
    PROVE  /\ Gone \in MountState(Len(c.promise)) /\ MountIsSound(c, Gone)
           /\ ~IsLive(Gone) /\ ~Reviving(Gone) /\ Resting(c, Gone)
<1>1. Len(c.promise) \in Nat
    OBVIOUS
<1>2. [l \in Loops |-> Off] \in [Loops -> LoopState(Len(c.promise))]
    BY <1>1 DEF Off, LoopState
<1>3. Unmounted \in MountState(Len(c.promise)) /\ Unmounted.loop = [l \in Loops |-> Off]
    BY <1>1, <1>2 DEF Unmounted, MountState, LoopState
<1>4. /\ Gone.phase = "gone" /\ Gone.aborted = TRUE /\ "revival" \in Loops
      /\ \A l \in Loops : Gone.loop[l].pc = "off"
  <2>1. Gone.phase = "gone" /\ Gone.aborted = TRUE /\ Gone.loop = Unmounted.loop
    BY <1>3 DEF Gone, MountState
  <2> QED
    BY <1>3, <2>1 DEF Off, Loops
<1>5. Gone \in MountState(Len(c.promise))
    BY <1>3 DEF Gone, MountState
<1>6. ~IsLive(Gone) /\ ~Reviving(Gone) /\ Resting(c, Gone)
    BY <1>4 DEF IsLive, Reviving, Resting
<1>7. MountIsSound(c, Gone)
    BY <1>4, <1>6 DEF MountIsSound, LoopIsSound
<1> QED
    BY <1>5, <1>6, <1>7

(* A loop of a mount ends, and perhaps the mount with it.                    *)
LEMMA EndedKeeps ==
    ASSUME NEW c \in Clients, NEW m \in MountState(Len(c.promise)), MountIsSound(c, m),
           m.phase \notin {"none", "gone"}, NEW l \in Loops, NEW n, n = Ended(m, l)
    PROVE  /\ n \in MountState(Len(c.promise)) /\ MountIsSound(c, n) /\ Keeps(n, m)
           /\ l = "revival" => ~Reviving(n)
           /\ IsLive(n) \/ ~m.aborted => n.phase = m.phase /\ n.password = m.password
           /\ Resting(c, m) => Resting(c, n)
<1>k. PICK k \in Nat : k = Len(c.promise)
    OBVIOUS
<1>1. m \in MountState(k) /\ Off \in LoopState(k)
    BY <1>k DEF Off, LoopState
<1>s. PICK still : still = Looping(m, l, Off)
    OBVIOUS
<1>2. /\ still \in MountState(k)
      /\ still.phase = m.phase /\ still.aborted = m.aborted /\ still.pending = m.pending
      /\ still.password = m.password /\ still.retiring = m.retiring
      /\ still.loop[l] = Off /\ \A j \in Loops \ {l} : still.loop[j] = m.loop[j]
    BY <1>1, <1>s, LoopSet
<1>r. PICK rest : rest = IF l = "dial" THEN still ELSE [still EXCEPT !.retiring = 0, !.evicted = FALSE]
    OBVIOUS
<1>3. n = Tidy(rest)
    BY <1>s, <1>r DEF Ended, Looping
<1>4. /\ rest \in MountState(k)
      /\ rest.phase = m.phase /\ rest.aborted = m.aborted /\ rest.pending = m.pending
      /\ rest.password = m.password /\ (l = "dial" => rest.retiring = m.retiring)
      /\ rest.loop[l] = Off /\ \A j \in Loops \ {l} : rest.loop[j] = m.loop[j]
  <2>1. CASE l = "dial"
    <3>1. rest = still
        BY <1>r, <2>1
    <3> QED
        BY <1>2, <3>1
  <2>2. CASE l # "dial"
    <3>1. rest = [still EXCEPT !.retiring = 0, !.evicted = FALSE]
        BY <1>r, <2>2
    <3>2. rest \in MountState(k)
      <4>1. PICK mid : mid = [still EXCEPT !.retiring = 0]
        OBVIOUS
      <4>2. mid \in MountState(k)
        <5>1. 0 \in 0..k
            OBVIOUS
        <5> QED
            BY <1>2, <4>1, <5>1 DEF MountState
      <4>3. rest = [mid EXCEPT !.evicted = FALSE]
        BY <3>1, <4>1
      <4> QED
        BY <4>2, <4>3 DEF MountState
    <3>3. /\ rest.phase = still.phase /\ rest.aborted = still.aborted
          /\ rest.pending = still.pending /\ rest.password = still.password
          /\ rest.loop = still.loop
        BY <1>2, <3>1 DEF MountState
    <3> QED
        BY <1>2, <2>2, <3>2, <3>3
  <2> QED
    BY <2>1, <2>2
<1>5. \A j \in Loops : LoopIsSound(c, rest.loop[j])
    BY <1>4 DEF LoopIsSound, Off, MountIsSound
<1>6. Reviving(rest) => l = "dial" /\ Reviving(m)
    BY <1>4 DEF Reviving, Off, Loops
<1>7. MountIsSound(c, rest) /\ Keeps(rest, m)
    BY <1>4, <1>5, <1>6, StaysSound
<1>8. Resting(c, m) => Resting(c, rest)
    BY <1>4 DEF Resting, Off
<1>9. n = rest \/ (n = Gone /\ m.aborted)
    BY <1>3, <1>4 DEF Tidy
<1> QED
    BY <1>k, <1>4, <1>6, <1>7, <1>8, <1>9, GoneIs DEF Keeps

-----------------------------------------------------------------------------
(* The steps.                                                                *)

(* A client that comes up keeps the invariant. *)
LEMMA ResolveStep ==
    ASSUME SessionInv, NEW p \in DOMAIN clients.promise, Resolve(p)
    PROVE  SessionInv'
<1> DEFINE new == Outcome("ok", IF Promise(p).leaving THEN "Left" ELSE "Joined")
<1>1. clients \in Clients /\ CacheIsGood(clients) /\ p \in 1..Len(clients.promise)
    BY DEF SessionInv, Types
<1>2. new \in PromiseState /\ new.state = "ok" /\ ~new.leaving
      /\ (~Promise(p).leaving => new.slot = "Joined")
    BY DEF Outcome, PromiseState
<1>3. clients' = [clients EXCEPT !.promise[p] = new] /\ Promise(p).state = "pending"
    BY DEF Resolve, Settled
<1> HIDE DEF new
<1>4. /\ clients' \in Clients /\ clients'.cache = clients.cache
      /\ Len(clients'.promise) = Len(clients.promise) /\ clients'.promise[p] = new
      /\ \A q \in 1..Len(clients.promise) : q # p => clients'.promise[q] = clients.promise[q]
    BY <1>1, <1>2, <1>3, PromiseSet
<1>5. Aged(clients, clients', 0) /\ CacheIsGood(clients')
    BY <1>1, <1>2, <1>3, <1>4 DEF Aged, CacheIsGood, Serving, Promise
<1>6. \A t \in Sessions : FreshIsIdle(clients, clients', session[t])
    BY <1>4 DEF FreshIsIdle
<1> QED
    BY <1>4, <1>5, <1>6, CacheMoves DEF Resolve, SessionInv, Types

(* A client that fails to come up keeps the invariant; who waits on it will find the cache
   empty. *)
LEMMA RejectStep ==
    ASSUME SessionInv, NEW p \in DOMAIN clients.promise, Reject(p)
    PROVE  SessionInv'
<1>1. clients \in Clients /\ p \in 1..Len(clients.promise)
    BY DEF SessionInv, Types
<1>2. PICK new \in PromiseState :
        /\ new.slot = "none" /\ ~new.leaving
        /\ clients' = [clients EXCEPT !.cache = 0, !.promise[p] = new]
  <2>1. PICK state \in {"failed", "refused", "unusable"} :
            clients' = [clients EXCEPT !.cache = 0, !.promise[p] = Outcome(state, "none")]
    BY DEF Reject
  <2>2. /\ Outcome(state, "none") \in PromiseState
        /\ Outcome(state, "none").slot = "none" /\ ~Outcome(state, "none").leaving
    BY DEF Outcome, PromiseState
  <2> QED
    BY <2>1, <2>2
<1>3. PICK c : c = [cache |-> 0, promise |-> clients.promise]
    OBVIOUS
<1>4. c \in Clients /\ c.promise = clients.promise /\ c.cache = 0
      /\ clients' = [c EXCEPT !.promise[p] = new]
  <2>1. clients' = [cache |-> 0, promise |-> [clients.promise EXCEPT ![p] = new]]
    BY <1>1, <1>2
  <2>2. [c EXCEPT !.promise[p] = new] =
            [cache |-> 0, promise |-> [clients.promise EXCEPT ![p] = new]]
    BY <1>3
  <2>3. c \in Clients /\ c.promise = clients.promise /\ c.cache = 0
    BY <1>1, <1>3
  <2> QED
    BY <2>1, <2>2, <2>3
<1>5. /\ clients' \in Clients /\ clients'.cache = 0
      /\ Len(clients'.promise) = Len(clients.promise) /\ clients'.promise[p] = new
      /\ \A q \in 1..Len(clients.promise) : q # p => clients'.promise[q] = clients.promise[q]
    BY <1>1, <1>4, PromiseSet
<1>6. Promise(p).state = "pending"
    BY DEF Reject, Settled
<1>7. Aged(clients, clients', 0) /\ CacheIsGood(clients')
    BY <1>1, <1>2, <1>5, <1>6 DEF Aged, CacheIsGood, Serving, Promise
<1>8. \A t \in Sessions : FreshIsIdle(clients, clients', session[t])
    BY <1>5 DEF FreshIsIdle
<1> QED
    BY <1>5, <1>7, <1>8, CacheMoves DEF Reject, SessionInv, Types

(* A connection that dies keeps the invariant. *)
LEMMA DiesStep ==
    ASSUME SessionInv, NEW p \in DOMAIN clients.promise, ConnectionDies(p)
    PROVE  SessionInv'
<1>1. clients \in Clients /\ CacheIsGood(clients) /\ p \in 1..Len(clients.promise)
    BY DEF SessionInv, Types
<1>2. PICK new : new = [clients.promise[p] EXCEPT !.closed = TRUE]
    OBVIOUS
<1>3. clients.promise[p] \in PromiseState
    BY <1>1, ElementOfSeq
<1>4. /\ new \in PromiseState /\ new.state = clients.promise[p].state
      /\ new.slot = clients.promise[p].slot /\ new.leaving = clients.promise[p].leaving
    BY <1>2, <1>3 DEF PromiseState
<1>5. clients' = [clients EXCEPT !.promise[p] = new]
    BY <1>2 DEF ConnectionDies
<1>6. /\ clients' \in Clients /\ clients'.cache = clients.cache
      /\ Len(clients'.promise) = Len(clients.promise) /\ clients'.promise[p] = new
      /\ \A q \in 1..Len(clients.promise) : q # p => clients'.promise[q] = clients.promise[q]
    BY <1>1, <1>4, <1>5, PromiseSet
<1>7. Aged(clients, clients', 0) /\ CacheIsGood(clients')
    BY <1>1, <1>4, <1>6 DEF Aged, CacheIsGood, Serving
<1>8. \A t \in Sessions : FreshIsIdle(clients, clients', session[t])
    BY <1>6 DEF FreshIsIdle
<1> QED
    BY <1>6, <1>7, <1>8, CacheMoves DEF ConnectionDies, SessionInv, Types

(* A call of the agent that begins keeps the invariant. *)
LEMMA CallStep ==
    ASSUME SessionAssumption, SessionInv, Idle, NEW password \in Passed, Call(password)
    PROVE  SessionInv'
<1>1. clients \in Clients /\ CacheIsGood(clients) /\ password \in Entered \cup {0}
    BY DEF SessionInv, Types, SessionAssumption
<1>2. Moved(clients, clients', 0) /\ CacheIsGood(clients')
    BY <1>1, ConnectMoves DEF Call
<1>3. {agent'.entry, agent'.on} \subseteq 0..Len(clients'.promise)
    BY <1>2 DEF Call, CacheIsGood, Moved, Aged
<1> QED
    BY <1>2, <1>3, IdleRests, CacheMoves DEF Call, Moved

(* The end of the agent's dial keeps the invariant. *)
LEMMA CallDialledStep ==
    ASSUME SessionInv, CallDialled, UNCHANGED <<session, remembered>>
    PROVE  SessionInv'
<1>1. clients \in Clients /\ CacheIsGood(clients) /\ clients' = clients
    BY DEF SessionInv, Types, CallDialled
<1>2. Aged(clients, clients', 0) /\ CacheIsGood(clients')
    BY <1>1 DEF Aged
<1>3. {agent'.entry, agent'.on} \subseteq 0..Len(clients'.promise)
  <2>1. agent.on \in 0..Len(clients.promise) /\ 0 \in 0..Len(clients.promise)
    BY <1>1 DEF SessionInv, Types
  <2>2. agent'.entry \in {0, agent.on} /\ agent'.on = 0
    BY DEF CallDialled, NoCall
  <2> QED
    BY <1>1, <2>1, <2>2
<1>4. \A t \in Sessions : FreshIsIdle(clients, clients', session[t])
    BY <1>1 DEF FreshIsIdle
<1> QED
    BY <1>2, <1>3, <1>4, CacheMoves

(* A loop that goes on to its manifest, its watch or its sleep leaves the mount sound. *)
LEMMA AtKeeps ==
    ASSUME NEW c \in Clients, NEW m \in MountState(Len(c.promise)), MountIsSound(c, m),
           NEW l \in Loops, m.loop[l].pc # "off", NEW pc \in {"manifest", "watch", "sleep"},
           pc # "sleep" => c.promise[m.loop[l].on].state = "ok", NEW n, n = At(m, l, pc)
    PROVE  /\ n \in MountState(Len(c.promise)) /\ MountIsSound(c, n) /\ Keeps(n, m)
           /\ n.phase = m.phase /\ n.password = m.password
<1>k. PICK k \in Nat : k = Len(c.promise)
    OBVIOUS
<1>1. PICK new : new = [pc |-> pc, on |-> m.loop[l].on]
    OBVIOUS
<1>2. m \in MountState(k) /\ m.loop \in [Loops -> LoopState(k)]
    BY <1>k DEF MountState, LoopState
<1>3. new \in LoopState(k) /\ new.pc = pc /\ new.on = m.loop[l].on
    BY <1>1, <1>2 DEF LoopState
<1>4. n = Looping(m, l, new)
  <2>1. m.loop[l] \in LoopState(k)
    BY <1>2
  <2>2. [m.loop[l] EXCEPT !.pc = pc] = new
    BY <1>1, <2>1 DEF LoopState
  <2>3. n = [m EXCEPT !.loop[l] = [m.loop[l] EXCEPT !.pc = pc]]
    BY DEF At
  <2> QED
    BY <2>2, <2>3 DEF Looping
<1>5. /\ n \in MountState(k)
      /\ n.phase = m.phase /\ n.aborted = m.aborted /\ n.pending = m.pending
      /\ n.password = m.password /\ n.retiring = m.retiring
      /\ n.loop[l] = new /\ \A j \in Loops \ {l} : n.loop[j] = m.loop[j]
    BY <1>2, <1>3, <1>4, LoopSet
<1>6. m.phase \notin {"none", "gone"} /\ \A j \in Loops : LoopIsSound(c, n.loop[j])
  <2>1. \A j \in Loops : LoopIsSound(c, m.loop[j])
    BY DEF MountIsSound
  <2>2. LoopIsSound(c, n.loop[l])
    <3>1. LoopIsSound(c, m.loop[l]) /\ n.loop[l] = new
        BY <1>5, <2>1
    <3>2. new.on # 0 /\ new.pc # "connect" /\ (new.pc # "sleep" => c.promise[new.on].state = "ok")
        BY <1>3, <3>1 DEF LoopIsSound
    <3> QED
        BY <3>1, <3>2 DEF LoopIsSound
  <2>3. m.phase \notin {"none", "gone"}
    BY DEF MountIsSound
  <2> QED
    BY <1>5, <2>1, <2>2, <2>3
<1>7. Reviving(n) => Reviving(m)
    BY <1>5 DEF Reviving, Loops
<1>8. MountIsSound(c, n) /\ Keeps(n, m)
    BY <1>5, <1>6, <1>7, StaysSound
<1> QED
    BY <1>k, <1>5, <1>8

(* Showing a manifest leaves the mount sound, and ready. *)
LEMMA ShowKeeps ==
    ASSUME NEW c \in Clients, NEW m \in MountState(Len(c.promise)), MountIsSound(c, m),
           m.phase \notin {"none", "gone"}, NEW p \in 0..Len(c.promise), NEW n, n = Show(m, p)
    PROVE  /\ n \in MountState(Len(c.promise)) /\ MountIsSound(c, n) /\ Keeps(n, m)
           /\ n.phase = "ready" /\ n.password = m.password /\ n.loop = m.loop
           /\ n.aborted = m.aborted
<1>1. PICK k \in Nat : k = Len(c.promise)
    OBVIOUS
<1>2. m \in MountState(k) /\ p \in 0..k
    BY <1>1
<1>3. PICK shown : shown = [m EXCEPT !.phase = "ready"]
    OBVIOUS
<1>4. shown \in MountState(k)
    BY <1>2, <1>3 DEF MountState
<1>5. n = [shown EXCEPT !.client = p]
    BY <1>3 DEF Show
<1>6. n \in MountState(k)
    BY <1>2, <1>4, <1>5 DEF MountState
<1>7. /\ n.phase = "ready" /\ n.password = m.password /\ n.loop = m.loop
      /\ n.aborted = m.aborted /\ n.pending = m.pending /\ n.retiring = m.retiring
    BY <1>2, <1>3, <1>5 DEF MountState
<1>8. Reviving(n) <=> Reviving(m)
    BY <1>7 DEF Reviving
<1>9. MountIsSound(c, n) /\ Keeps(n, m)
  <2>1. \A l \in Loops : LoopIsSound(c, n.loop[l])
    BY <1>7 DEF MountIsSound
  <2> QED
    BY <1>7, <1>8, <2>1, StaysSound
<1> QED
    BY <1>1, <1>6, <1>7, <1>9

(* The end of bringUp: what was retiring leaves, and nobody serves with it.  *)
LEMMA BroughtUpStep ==
    ASSUME SessionInv, NEW s \in Sessions, NEW l \in Loops, session[s].loop[l].pc # "off",
           NEW record \in MountState(Len(clients.promise)), MountIsSound(clients, record),
           Keeps(record, session[s]), record.phase = session[s].phase,
           record.password = session[s].password, record.retiring = session[s].retiring,
           BroughtUp(s, l, record), UNCHANGED agent
    PROVE  SessionInv'
<1> DEFINE m == session[s]
<1>1. /\ clients \in Clients /\ Len(clients.promise) \in Nat /\ CacheIsGood(clients)
      /\ m \in MountState(Len(clients.promise)) /\ MountIsSound(clients, m)
      /\ PasswordIsSound(m, remembered) /\ m.phase \notin {"none", "gone"}
    BY MountOf DEF MountIsSound
<1>2. remembered' = remembered /\ remembered \in Entered \cup {0}
    BY DEF BroughtUp, SessionInv, Types
<1>3. PICK n : n = Ended(record, l)
    OBVIOUS
<1>4. session' = [session EXCEPT ![s] = n]
    BY <1>3 DEF BroughtUp
<1>5. /\ n \in MountState(Len(clients.promise)) /\ MountIsSound(clients, n) /\ Keeps(n, record)
      /\ l = "revival" => ~Reviving(n)
      /\ IsLive(n) => n.phase = m.phase /\ n.password = m.password
    BY <1>1, <1>3, EndedKeeps
<1>6. Keeps(n, m)
    BY <1>5 DEF Keeps
<1>7. PasswordIsSound(n, remembered')
    BY <1>1, <1>2, <1>5, <1>6 DEF PasswordIsSound, Keeps
<1>8. CASE l = "dial"
  <2>1. clients' = clients
    BY <1>8 DEF BroughtUp
  <2> QED
    BY <1>2, <1>4, <1>5, <1>6, <1>7, <2>1, StaysInPlace
<1>9. CASE l = "revival"
  <2>1. Reviving(m) /\ m.retiring \in 0..Len(clients.promise)
    BY <1>1, <1>9 DEF Reviving, MountState
  <2>2. m.retiring \in 1..Len(clients.promise) /\ clients.cache # m.retiring
    BY <1>1, <2>1 DEF MountIsSound
  <2>3. clients' = Retire(clients, m.retiring)
    BY <1>9 DEF BroughtUp
  <2>4. Moved(clients, clients', m.retiring) /\ CacheIsGood(clients') /\ clients'.cache = clients.cache
    BY <1>1, <2>2, <2>3, RetireMoves
  <2>5. \A t \in Sessions :
            /\ Spared(session[t], m)
            /\ t # s => SparedRetiring(session[t], m)
    BY DEF SessionInv
  <2>6. Untouched(s, m.retiring)
    BY <1>2, <2>1, <2>5 DEF Untouched, Spared, SparedRetiring
  <2>7. IsLive(n) => n.pending # m.retiring
    BY <1>6, <2>1, <2>5 DEF Spared, Keeps
  <2>8. \A x : FreshIsIdle(clients, clients', x)
    BY <2>4 DEF FreshIsIdle
  <2>9. ~Reviving(n) /\ Aged(clients, clients', m.retiring)
    BY <1>5, <1>9, <2>4 DEF Moved
  <2> HIDE DEF m
  <2> QED
    BY <1>2, <1>4, <1>5, <1>6, <1>7, <2>4, <2>6, <2>7, <2>8, <2>9, Continues DEF m
<1> QED
    BY <1>8, <1>9 DEF Loops

(* bringUp threw.  A dial that was refused has left no cache behind.         *)
LEMMA CaughtStep ==
    ASSUME SessionInv, NEW s \in Sessions, NEW l \in Loops, session[s].loop[l].pc # "off",
           session[s].loop[l].pc # "connect" => Promise(session[s].loop[l].on).state = "ok",
           session[s].loop[l].pc \in {"connect", "manifest", "watch"},
           Caught(s, l), UNCHANGED agent
    PROVE  SessionInv'
<1> DEFINE m == session[s]
           on == m.loop[l].on
<1>1. /\ clients \in Clients /\ Len(clients.promise) \in Nat /\ CacheIsGood(clients)
      /\ m \in MountState(Len(clients.promise)) /\ MountIsSound(clients, m)
      /\ PasswordIsSound(m, remembered) /\ m.phase \notin {"none", "gone"} /\ m.pending # 0
    BY MountOf DEF MountIsSound
<1>2. remembered \in Entered \cup {0}
    BY DEF SessionInv, Types
<1>3. PICK e : e = Ended(m, l)
    OBVIOUS
<1>4. /\ e \in MountState(Len(clients.promise)) /\ MountIsSound(clients, e) /\ Keeps(e, m)
      /\ l = "revival" => ~Reviving(e)
      /\ IsLive(e) \/ ~m.aborted => e.phase = m.phase /\ e.password = m.password
    BY <1>1, <1>3, EndedKeeps
<1>5. CASE session' = [session EXCEPT ![s] = e] /\ UNCHANGED <<clients, remembered>>
  <2>1. PasswordIsSound(e, remembered')
    BY <1>1, <1>4, <1>5 DEF PasswordIsSound, Keeps
  <2> QED
    BY <1>2, <1>4, <1>5, <2>1, StaysInPlace
<1>6. CASE /\ ~m.aborted /\ l = "dial" /\ Promise(on).state = "refused"
           /\ remembered' = Forgotten(m.password) /\ clients' = Release(clients, m.pending)
           /\ session' = [session EXCEPT ![s] =
                    [e EXCEPT !.password = 0, !.phase = "needs-password"]]
  <2>1. clients.cache = 0
    BY <1>1, <1>6 DEF MountIsSound, LoopIsSound, Promise
  <2>2. clients' = clients
    BY <1>1, <1>6, <2>1 DEF Release
  <2>3. IsLive(m)
    BY <1>1, <1>6 DEF IsLive
  <2>4. remembered' = 0
    BY <1>1, <1>6, <2>3 DEF Forgotten, PasswordIsSound
  <2>5. PICK n : n = [e EXCEPT !.password = 0, !.phase = "needs-password"]
    OBVIOUS
  <2>6. /\ n \in MountState(Len(clients.promise)) /\ n.phase = "needs-password" /\ n.password = 0
        /\ n.loop = e.loop /\ n.pending = e.pending /\ n.aborted = e.aborted
        /\ n.retiring = e.retiring
    <3>1. PICK x : x = [e EXCEPT !.password = 0]
        OBVIOUS
    <3>2. x \in MountState(Len(clients.promise))
        BY <1>4, <3>1 DEF MountState
    <3>3. n = [x EXCEPT !.phase = "needs-password"]
        BY <2>5, <3>1
    <3>4. n \in MountState(Len(clients.promise))
        BY <3>2, <3>3 DEF MountState
    <3> QED
        BY <1>4, <2>5, <3>4 DEF MountState
  <2>7. e.phase = m.phase
    BY <1>4, <1>6
  <2>8. MountIsSound(clients, n) /\ Keeps(n, e)
    <3>1. \A j \in Loops : LoopIsSound(clients, n.loop[j])
        BY <1>4, <2>6 DEF MountIsSound
    <3>2. Reviving(n) => Reviving(e)
        BY <2>6 DEF Reviving
    <3> QED
        BY <1>1, <1>4, <2>6, <2>7, <3>1, <3>2, StaysSound
  <2>9. Keeps(n, m) /\ PasswordIsSound(n, remembered')
    BY <1>4, <2>4, <2>6, <2>8 DEF Keeps, PasswordIsSound
  <2> QED
    BY <1>6, <2>2, <2>3, <2>4, <2>5, <2>6, <2>8, <2>9, StaysInPlace
<1>7. CASE /\ ~m.aborted /\ l = "dial"
           /\ session' = [session EXCEPT ![s] = [e EXCEPT !.phase = "failed"]]
           /\ UNCHANGED <<clients, remembered>>
  <2>1. PICK n : n = [e EXCEPT !.phase = "failed"]
    OBVIOUS
  <2>2. /\ n \in MountState(Len(clients.promise)) /\ n.phase = "failed"
        /\ n.password = e.password /\ n.loop = e.loop /\ n.pending = e.pending
        /\ n.aborted = e.aborted /\ n.retiring = e.retiring
    BY <1>4, <2>1 DEF MountState
  <2>3. MountIsSound(clients, n) /\ Keeps(n, e)
    <3>1. \A j \in Loops : LoopIsSound(clients, n.loop[j])
        BY <1>4, <2>2 DEF MountIsSound
    <3>2. Reviving(n) => Reviving(e)
        BY <2>2 DEF Reviving
    <3> QED
        BY <1>1, <1>4, <1>7, <2>2, <3>1, <3>2, StaysSound
  <2>4. Keeps(n, m) /\ PasswordIsSound(n, remembered')
    BY <1>1, <1>4, <1>7, <2>2, <2>3 DEF Keeps, PasswordIsSound
  <2> QED
    BY <1>2, <1>7, <2>1, <2>2, <2>3, <2>4, StaysInPlace
<1>8. CASE session' = [session EXCEPT ![s] = Retrying(m, l)] /\ UNCHANGED <<clients, remembered>>
  <2>1. PICK n : n = At(m, l, "sleep")
    OBVIOUS
  <2>2. /\ n \in MountState(Len(clients.promise)) /\ MountIsSound(clients, n) /\ Keeps(n, m)
        /\ n.phase = m.phase /\ n.password = m.password
    BY <1>1, <2>1, AtKeeps
  <2>3. PasswordIsSound(n, remembered')
    BY <1>1, <1>8, <2>2 DEF PasswordIsSound, Keeps
  <2>4. session' = [session EXCEPT ![s] = n]
    BY <1>8, <2>1 DEF Retrying
  <2> QED
    BY <1>2, <1>8, <2>2, <2>3, <2>4, StaysInPlace
<1> QED
    BY <1>3, <1>5, <1>6, <1>7, <1>8 DEF Caught, SessionInv, Types

\* bringUp got what the cache holds up, or goes on to its next await.
LEMMA AwaitedStep ==
    ASSUME SessionInv, NEW s \in Sessions, NEW l \in Loops, Awaited(s, l), UNCHANGED agent
    PROVE  SessionInv'
<1> DEFINE m == session[s]
           on == m.loop[l].on
<1>1. /\ clients \in Clients /\ Len(clients.promise) \in Nat
      /\ m \in MountState(Len(clients.promise)) /\ MountIsSound(clients, m)
      /\ PasswordIsSound(m, remembered) /\ remembered \in Entered \cup {0}
    BY MountOf DEF SessionInv, Types
<1>2. m.loop[l].pc = "connect"
    BY DEF Awaited
<1>3. CASE Resolved(on) /\ m.aborted /\ BroughtUp(s, l, m)
  <2>1. Keeps(m, m)
    BY DEF Keeps
  <2> QED
    BY <1>1, <1>2, <1>3, <2>1, BroughtUpStep
<1>4. CASE /\ Resolved(on) /\ session' = [session EXCEPT ![s] = At(m, l, "manifest")]
           /\ UNCHANGED <<clients, remembered>>
  <2>1. PICK n : n = At(m, l, "manifest")
    OBVIOUS
  <2>2. clients.promise[on].state = "ok"
    BY <1>4 DEF Resolved, Promise
  <2>3. /\ n \in MountState(Len(clients.promise)) /\ MountIsSound(clients, n) /\ Keeps(n, m)
        /\ n.phase = m.phase /\ n.password = m.password
    BY <1>1, <1>2, <2>1, <2>2, AtKeeps
  <2>4. PasswordIsSound(n, remembered')
    BY <1>1, <1>4, <2>3 DEF PasswordIsSound, Keeps
  <2> QED
    BY <1>1, <1>4, <2>1, <2>3, <2>4, StaysInPlace
<1>5. CASE Caught(s, l)
    BY <1>2, <1>5, CaughtStep
<1> QED
    BY <1>3, <1>4, <1>5 DEF Awaited, SessionInv, Types

(* The manifest a loop asked for, once it is there, keeps the invariant. *)
LEMMA ManifestStep ==
    ASSUME SessionInv, NEW s \in Sessions, NEW l \in Loops, ManifestCame(s, l), UNCHANGED agent
    PROVE  SessionInv'
<1> DEFINE m == session[s]
           on == m.loop[l].on
<1>1. /\ clients \in Clients /\ Len(clients.promise) \in Nat
      /\ m \in MountState(Len(clients.promise)) /\ MountIsSound(clients, m)
      /\ PasswordIsSound(m, remembered) /\ remembered \in Entered \cup {0}
    BY MountOf DEF SessionInv, Types
<1>2. m.loop[l].pc = "manifest"
    BY DEF ManifestCame
<1>3. /\ m.phase \notin {"none", "gone"} /\ on \in 0..Len(clients.promise)
      /\ clients.promise[on].state = "ok"
    BY <1>1, <1>2 DEF MountIsSound, LoopIsSound, MountState
<1>4. CASE BroughtUp(s, l, m)
  <2>1. Keeps(m, m)
    BY DEF Keeps
  <2> QED
    BY <1>1, <1>2, <1>4, <2>1, BroughtUpStep
<1>5. CASE /\ session' = [session EXCEPT ![s] = At(Show(m, on), l, "watch")]
           /\ UNCHANGED <<clients, remembered>>
  <2>1. PICK shown : shown = Show(m, on)
    OBVIOUS
  <2>2. PICK n : n = At(shown, l, "watch")
    OBVIOUS
  <2>3. /\ shown \in MountState(Len(clients.promise)) /\ MountIsSound(clients, shown)
        /\ Keeps(shown, m) /\ shown.phase = "ready" /\ shown.password = m.password
        /\ shown.loop = m.loop
    BY <1>1, <1>3, <2>1, ShowKeeps
  <2>4. /\ n \in MountState(Len(clients.promise)) /\ MountIsSound(clients, n) /\ Keeps(n, shown)
        /\ n.phase = shown.phase /\ n.password = shown.password
    BY <1>1, <1>2, <1>3, <2>2, <2>3, AtKeeps
  <2>5. Keeps(n, m) /\ PasswordIsSound(n, remembered')
    BY <1>1, <1>5, <2>3, <2>4 DEF PasswordIsSound, Keeps
  <2> QED
    BY <1>1, <1>5, <2>1, <2>2, <2>4, <2>5, StaysInPlace
<1>6. CASE Caught(s, l)
    BY <1>2, <1>3, <1>6, CaughtStep DEF Promise
<1> QED
    BY <1>4, <1>5, <1>6 DEF ManifestCame, SessionInv, Types

(* A watch that opens keeps the invariant. *)
LEMMA WatchOpenedStep ==
    ASSUME SessionInv, NEW s \in Sessions, NEW l \in Loops, WatchOpened(s, l), UNCHANGED agent
    PROVE  SessionInv'
<1> DEFINE m == session[s]
           on == m.loop[l].on
<1>1. /\ clients \in Clients /\ Len(clients.promise) \in Nat
      /\ m \in MountState(Len(clients.promise)) /\ MountIsSound(clients, m)
    BY MountOf
<1>2. m.loop[l].pc = "watch"
    BY DEF WatchOpened
<1>3. /\ m.phase \notin {"none", "gone"} /\ on \in 1..Len(clients.promise)
      /\ clients.promise[on].state = "ok"
  <2>1. on \in 0..Len(clients.promise) /\ on # 0
    BY <1>1, <1>2 DEF MountIsSound, LoopIsSound, MountState
  <2> QED
    BY <1>1, <1>2, <2>1 DEF MountIsSound, LoopIsSound
<1>4. CASE BroughtUp(s, l, [m EXCEPT !.watched = IF m.aborted THEN @ ELSE @ \cup {on}])
  <2>1. PICK watched : watched = IF m.aborted THEN m.watched ELSE m.watched \cup {on}
    OBVIOUS
  <2>2. watched \in SUBSET (1..Len(clients.promise))
    BY <1>1, <1>3, <2>1 DEF MountState
  <2>3. PICK n : n = [m EXCEPT !.watched = watched]
    OBVIOUS
  <2>4. /\ n \in MountState(Len(clients.promise))
        /\ n.phase = m.phase /\ n.password = m.password /\ n.loop = m.loop
        /\ n.aborted = m.aborted /\ n.pending = m.pending /\ n.retiring = m.retiring
    BY <1>1, <2>2, <2>3 DEF MountState
  <2>5. MountIsSound(clients, n) /\ Keeps(n, m)
    <3>1. \A j \in Loops : LoopIsSound(clients, n.loop[j])
        BY <1>1, <2>4 DEF MountIsSound
    <3>2. Reviving(n) => Reviving(m)
        BY <2>4 DEF Reviving
    <3> QED
        BY <1>1, <1>3, <2>4, <3>1, <3>2, StaysSound
  <2>6. BroughtUp(s, l, n)
    BY <1>4, <2>1, <2>3
  <2> QED
    BY <1>2, <2>4, <2>5, <2>6, BroughtUpStep
<1>5. CASE Caught(s, l)
    BY <1>2, <1>3, <1>5, CaughtStep DEF Promise
<1> QED
    BY <1>4, <1>5 DEF WatchOpened

(* A frame of a watch keeps the invariant. *)
LEMMA WatchFrameStep ==
    ASSUME SessionInv, NEW s \in Sessions, NEW p, WatchFrame(s, p)
    PROVE  SessionInv'
<1> DEFINE m == session[s]
<1>1. /\ clients \in Clients /\ Len(clients.promise) \in Nat
      /\ m \in MountState(Len(clients.promise)) /\ MountIsSound(clients, m)
      /\ PasswordIsSound(m, remembered) /\ remembered \in Entered \cup {0}
    BY MountOf DEF SessionInv, Types
<1>2. m.phase \notin {"none", "gone"} /\ p \in 0..Len(clients.promise)
    BY <1>1, MountOf DEF WatchFrame, Live, IsLive, MountState
<1>3. PICK n : n = Show(m, p)
    OBVIOUS
<1>4. /\ n \in MountState(Len(clients.promise)) /\ MountIsSound(clients, n) /\ Keeps(n, m)
      /\ n.phase = "ready" /\ n.password = m.password
    BY <1>1, <1>2, <1>3, ShowKeeps
<1>5. PasswordIsSound(n, remembered')
    BY <1>1, <1>4 DEF WatchFrame, PasswordIsSound, Keeps
<1> QED
    BY <1>1, <1>3, <1>4, <1>5, StaysInPlace DEF WatchFrame

(* An unmounted mount takes its client with it, if the cache still holds it. *)
LEMMA UnmountStep ==
    ASSUME SessionInv, NEW s \in Sessions, Unmount(s)
    PROVE  SessionInv'
<1> DEFINE m == session[s]
<1>1. /\ clients \in Clients /\ Len(clients.promise) \in Nat /\ CacheIsGood(clients)
      /\ m \in MountState(Len(clients.promise)) /\ MountIsSound(clients, m)
      /\ remembered \in Entered \cup {0}
    BY MountOf DEF SessionInv, Types
<1>2. IsLive(m)
    BY DEF Unmount, Live, IsLive
<1>3. /\ m.phase \notin {"none", "gone"} /\ m.pending \in 1..Len(clients.promise)
      /\ \A t \in Sessions \ {s} : ~IsLive(session[t])
    BY <1>1, <1>2, MountOf DEF MountState
<1>4. /\ Moved(clients, clients', m.pending) /\ CacheIsGood(clients')
      /\ clients'.cache = IF clients.cache = m.pending THEN 0 ELSE clients.cache
    BY <1>1, <1>3, ReleaseMoves DEF Unmount
<1>5. Aged(clients, clients', m.pending) /\ \A x : FreshIsIdle(clients, clients', x)
    BY <1>4 DEF FreshIsIdle, Moved
<1>6. PICK n : n = [m EXCEPT !.aborted = TRUE, !.watched = {}]
    OBVIOUS
<1>7. /\ n \in MountState(Len(clients.promise))
      /\ n.phase = m.phase /\ n.password = m.password /\ n.loop = m.loop
      /\ n.aborted = TRUE /\ n.pending = m.pending /\ n.retiring = m.retiring
  <2>1. PICK x : x = [m EXCEPT !.aborted = TRUE]
    OBVIOUS
  <2>2. /\ x \in MountState(Len(clients.promise)) /\ x.aborted = TRUE
        /\ x.phase = m.phase /\ x.password = m.password /\ x.loop = m.loop
        /\ x.pending = m.pending /\ x.retiring = m.retiring
    BY <1>1, <2>1 DEF MountState
  <2>3. n = [x EXCEPT !.watched = {}]
    BY <1>6, <2>1
  <2> QED
    BY <2>2, <2>3 DEF MountState
<1>8. ~IsLive(n) /\ (Reviving(n) <=> Reviving(m))
    BY <1>7 DEF IsLive, Reviving
<1>9. n \in MountState(Len(clients'.promise))
  <2>1. Len(clients'.promise) \in Nat /\ Len(clients.promise) <= Len(clients'.promise)
    BY <1>5 DEF Aged
  <2>2. /\ 0..Len(clients.promise) \subseteq 0..Len(clients'.promise)
        /\ 1..Len(clients.promise) \subseteq 1..Len(clients'.promise)
    BY <1>1, <2>1
  <2> QED
    BY <1>7, <2>2 DEF MountState
<1>10. MountIsSound(clients', n)
  <2>1. \A l \in Loops : LoopIsSound(clients', n.loop[l])
    <3> TAKE l \in Loops
    <3>1. m.loop[l].on \in 0..Len(clients.promise) /\ LoopIsSound(clients, m.loop[l])
        BY <1>1 DEF MountState, MountIsSound
    <3>2. clients'.cache \in {0, clients.cache}
        BY <1>4
    <3> QED
        BY <1>1, <1>5, <1>7, <3>1, <3>2, LoopAges
  <2>2. clients'.cache # n.pending /\ (Reviving(n) => clients'.cache # n.retiring)
    BY <1>1, <1>3, <1>4, <1>7, <1>8 DEF MountIsSound
  <2> QED
    BY <1>1, <1>3, <1>7, <1>8, <2>1, <2>2 DEF MountIsSound
<1>11. PICK gone : gone = Tidy(n)
    OBVIOUS
<1>12. /\ gone \in MountState(Len(clients'.promise)) /\ MountIsSound(clients', gone)
       /\ ~IsLive(gone) /\ Keeps(gone, m)
  <2>1. CASE gone = n
    BY <1>7, <1>8, <1>9, <1>10, <2>1 DEF Keeps
  <2>2. CASE gone = Gone
    <3>1. clients' \in Clients
        BY <1>5 DEF Aged
    <3> QED
        BY <2>2, <3>1, GoneIs DEF Keeps
  <2> QED
    BY <1>11, <2>1, <2>2 DEF Tidy
<1>13. PasswordIsSound(gone, remembered') /\ Agrees(s, gone)
    BY <1>12, KeepingAgrees DEF PasswordIsSound
<1>14. Untouched(s, m.pending)
    BY <1>3 DEF Untouched
<1>15. session' = [session EXCEPT ![s] = gone] /\ UNCHANGED <<agent, remembered>>
    BY <1>6, <1>11 DEF Unmount
<1> HIDE DEF m
<1> QED
    BY <1>1, <1>4, <1>5, <1>12, <1>13, <1>14, <1>15, SessionMoves

(* A mount over some promises is one over more. *)
LEMMA MountGrows ==
    ASSUME NEW j \in Nat, NEW k \in Nat, j <= k, NEW m \in MountState(j)
    PROVE  m \in MountState(k)
<1>1. 0..j \subseteq 0..k /\ 1..j \subseteq 1..k
    OBVIOUS
<1> QED
    BY <1>1 DEF MountState

\* A mount whose loop l dials the promise q.
Dialled(m, l, q) == Looping([m EXCEPT !.pending = q], l, [pc |-> "connect", on |-> q])

(* A loop that has dialled waits on its promise, and the mount names it as pending. *)
LEMMA DialledIs ==
    ASSUME NEW k \in Nat, NEW m \in MountState(k), NEW l \in Loops, NEW q \in 0..k,
           NEW n, n = Dialled(m, l, q)
    PROVE  /\ n \in MountState(k) /\ n.pending = q /\ n.loop[l] = [pc |-> "connect", on |-> q]
           /\ n.phase = m.phase /\ n.aborted = m.aborted /\ n.password = m.password
           /\ n.retiring = m.retiring /\ \A j \in Loops \ {l} : n.loop[j] = m.loop[j]
<1>1. PICK x : x = [m EXCEPT !.pending = q]
    OBVIOUS
<1>2. PICK new : new = [pc |-> "connect", on |-> q]
    OBVIOUS
<1>3. /\ x \in MountState(k) /\ x.pending = q
      /\ x.phase = m.phase /\ x.aborted = m.aborted /\ x.password = m.password
      /\ x.retiring = m.retiring /\ x.loop = m.loop
    BY <1>1 DEF MountState
<1>4. new \in LoopState(k)
    BY <1>2 DEF LoopState
<1>5. n = Looping(x, l, new)
    BY <1>1, <1>2 DEF Dialled
<1>6. /\ n \in MountState(k)
      /\ n.phase = x.phase /\ n.aborted = x.aborted /\ n.pending = x.pending
      /\ n.password = x.password /\ n.retiring = x.retiring
      /\ n.loop[l] = new /\ \A j \in Loops \ {l} : n.loop[j] = x.loop[j]
    BY <1>3, <1>4, <1>5, LoopSet
<1> QED
    BY <1>2, <1>3, <1>6

(* A mount dials at once, with what the session remembers.                   *)
LEMMA MountStep ==
    ASSUME SessionInv, Idle, NEW s \in Sessions, Mount(s)
    PROVE  SessionInv'
<1> DEFINE m == session[s]
<1>1. /\ clients \in Clients /\ CacheIsGood(clients) /\ Len(clients.promise) \in Nat
      /\ m \in MountState(Len(clients.promise)) /\ MountIsSound(clients, m)
      /\ remembered \in Entered \cup {0}
    BY MountOf DEF SessionInv, Types
<1>2. m.phase = "none" /\ m = Unmounted
    BY <1>1 DEF Mount, MountIsSound
<1>3. Moved(clients, clients', 0) /\ CacheIsGood(clients') /\ clients'.cache # 0
    BY <1>1, ConnectMoves DEF Mount
<1>4. PICK k \in Nat : k = Len(clients'.promise)
    BY <1>3 DEF Moved, Aged
<1>5. m \in MountState(k) /\ clients'.cache \in 0..k
    BY <1>1, <1>3, <1>4, MountGrows DEF Moved, Aged, CacheIsGood
<1>6. PICK q : q = clients'.cache
    OBVIOUS
<1>7. PICK x : x = [m EXCEPT !.phase = "connecting"]
    OBVIOUS
<1>8. PICK y : y = [[x EXCEPT !.pending = q] EXCEPT !.password = remembered]
    OBVIOUS
<1>9. /\ y \in MountState(k) /\ y.phase = "connecting" /\ y.aborted = m.aborted
      /\ y.password = remembered /\ y.loop = m.loop /\ y.retiring = m.retiring /\ y.pending = q
  <2>1. x \in MountState(k) /\ x.phase = "connecting"
        /\ x.aborted = m.aborted /\ x.loop = m.loop /\ x.retiring = m.retiring
    BY <1>5, <1>7 DEF MountState
  <2>2. PICK z : z = [x EXCEPT !.pending = q]
    OBVIOUS
  <2>3. z \in MountState(k) /\ z.phase = "connecting" /\ z.pending = q
        /\ z.aborted = m.aborted /\ z.loop = m.loop /\ z.retiring = m.retiring
    BY <1>5, <1>6, <2>1, <2>2 DEF MountState
  <2>4. y = [z EXCEPT !.password = remembered]
    BY <1>8, <2>2
  <2> QED
    BY <1>1, <2>3, <2>4 DEF MountState
<1>10. PICK n : n = Looping(y, "dial", [pc |-> "connect", on |-> q])
    OBVIOUS
<1>11. /\ n \in MountState(k)
       /\ n.phase = y.phase /\ n.aborted = y.aborted /\ n.pending = y.pending
       /\ n.password = y.password /\ n.retiring = y.retiring
       /\ n.loop["dial"] = [pc |-> "connect", on |-> q]
       /\ \A j \in Loops \ {"dial"} : n.loop[j] = y.loop[j]
  <2>1. PICK new : new = [pc |-> "connect", on |-> q]
    OBVIOUS
  <2>2. new \in LoopState(k) /\ "dial" \in Loops
    BY <1>5, <1>6, <2>1 DEF LoopState, Loops
  <2>3. n = Looping(y, "dial", new)
    BY <1>10, <2>1
  <2> QED
    BY <1>9, <2>1, <2>2, <2>3, LoopSet
<1>12. ~m.aborted /\ ~Reviving(m)
    BY <1>2 DEF Unmounted, Reviving, Off, Loops
<1>13. ~n.aborted /\ ~Reviving(n)
    BY <1>9, <1>11, <1>12 DEF Reviving, Loops
<1>14. session' = [session EXCEPT ![s] = n]
    BY <1>6, <1>7, <1>8, <1>10 DEF Mount, Looping
<1>15. /\ \A t \in Sessions \ {s} : ~IsLive(session[t])
       /\ \A t \in Sessions : FreshIsIdle(clients, clients', session[t])
    BY IdleRests DEF Mount, Live, IsLive
<1>16. PasswordIsSound(n, remembered') /\ UNCHANGED <<agent, remembered>>
    BY <1>9, <1>11 DEF Mount, PasswordIsSound
<1>17. "dial" \in Loops /\ n.phase \notin {"none", "gone"} /\ Aged(clients, clients', 0)
    BY <1>3, <1>9, <1>11 DEF Loops, Moved
<1> QED
  <2>1. Dialling(s, n, "dial")
    BY <1>4, <1>6, <1>9, <1>11, <1>13, <1>14, <1>17 DEF Dialling
  <2>2. remembered' \in Entered \cup {0}
    BY <1>1, <1>16
  <2> HIDE DEF m
  <2> QED
    BY <1>3, <1>13, <1>15, <1>16, <1>17, <2>1, <2>2, Dials

(* A password that is entered keeps the invariant. *)
LEMMA SubmitStep ==
    ASSUME SessionAssumption, SessionInv, Idle, NEW s \in Sessions, NEW entered \in Entered,
           submitPassword(s, entered)
    PROVE  SessionInv'
<1> DEFINE m == session[s]
<1>1. /\ clients \in Clients /\ CacheIsGood(clients) /\ Len(clients.promise) \in Nat
      /\ m \in MountState(Len(clients.promise)) /\ MountIsSound(clients, m)
      /\ entered \in Entered \cup {0} /\ entered # 0
    BY MountOf DEF SessionAssumption
<1>2. IsLive(m) /\ \A t \in Sessions \ {s} : ~IsLive(session[t])
    BY MountOf DEF submitPassword, Live, IsLive
<1>3. Moved(clients, clients', 0) /\ CacheIsGood(clients') /\ clients'.cache # 0
    BY <1>1, ConnectMoves DEF submitPassword
<1>4. PICK k \in Nat : k = Len(clients'.promise)
    BY <1>3 DEF Moved, Aged
<1>5. m \in MountState(k) /\ clients'.cache \in 0..k
    BY <1>1, <1>3, <1>4, MountGrows DEF Moved, Aged, CacheIsGood
<1>6. PICK q : q = clients'.cache
    OBVIOUS
<1>7. PICK x : x = [m EXCEPT !.password = entered]
    OBVIOUS
<1>8. PICK y : y = [x EXCEPT !.phase = "connecting"]
    OBVIOUS
<1>9. /\ y \in MountState(k) /\ y.phase = "connecting" /\ y.aborted = m.aborted
      /\ y.password = entered /\ y.loop = m.loop /\ y.retiring = m.retiring
  <2>1. /\ x \in MountState(k) /\ x.aborted = m.aborted
        /\ x.password = entered /\ x.loop = m.loop /\ x.retiring = m.retiring
    BY <1>1, <1>5, <1>7 DEF MountState
  <2> QED
    BY <1>8, <2>1 DEF MountState
<1>10. PICK n : n = Dialled(y, "dial", q)
    OBVIOUS
<1>11. /\ n \in MountState(k) /\ n.pending = q /\ n.loop["dial"] = [pc |-> "connect", on |-> q]
       /\ n.phase = y.phase /\ n.aborted = y.aborted /\ n.password = y.password
       /\ n.retiring = y.retiring /\ \A j \in Loops \ {"dial"} : n.loop[j] = y.loop[j]
       /\ "dial" \in Loops
    BY <1>5, <1>6, <1>9, <1>10, DialledIs DEF Loops
<1>12. Reviving(n) =>
        /\ n.retiring = m.retiring /\ m.retiring \in 1..Len(clients.promise)
        /\ Serving(clients, m.retiring) /\ clients.cache # m.retiring
        /\ \A t \in Sessions \ {s} : Reviving(session[t]) => m.retiring # session[t].retiring
  <2>1. Reviving(n) => Reviving(m)
    BY <1>9, <1>11 DEF Reviving, Loops
  <2>2. m.retiring \in 0..Len(clients.promise)
    BY <1>1 DEF MountState
  <2> QED
    BY <1>1, <1>2, <1>9, <1>11, <2>1, <2>2 DEF MountIsSound, SessionInv, SparedRetiring
<1>13. Reviving(n) => RetiresWell(s, n, 0)
    BY <1>1, <1>3, <1>12 DEF Moved, Aged, RetiresWell
<1>14. session' = [session EXCEPT ![s] = n]
    BY <1>6, <1>7, <1>8, <1>10 DEF submitPassword, Dialled, Looping
<1>15. \A t \in Sessions : FreshIsIdle(clients, clients', session[t])
    BY IdleRests
<1>16. PasswordIsSound(n, remembered') /\ remembered' = entered /\ UNCHANGED agent
    BY <1>9, <1>11 DEF submitPassword, PasswordIsSound
<1>17. ~n.aborted /\ n.phase \notin {"none", "gone"} /\ Aged(clients, clients', 0)
    BY <1>2, <1>3, <1>9, <1>11 DEF Moved, IsLive
<1> HIDE DEF m
<1> QED
  <2>1. Dialling(s, n, "dial")
    BY <1>4, <1>6, <1>9, <1>11, <1>14, <1>17 DEF Dialling, m
  <2>2. remembered' \in Entered \cup {0}
    BY <1>1, <1>16
  <2> QED
    BY <1>2, <1>3, <1>11, <1>13, <1>15, <1>16, <1>17, <2>1, <2>2, Dials

(* The dial loop's backoff is over.                                          *)
LEMMA DialAgainStep ==
    ASSUME SessionInv, Idle, NEW s \in Sessions, DialAgain(s), UNCHANGED agent
    PROVE  SessionInv'
<1> DEFINE m == session[s]
<1>1. /\ clients \in Clients /\ CacheIsGood(clients) /\ Len(clients.promise) \in Nat
      /\ m \in MountState(Len(clients.promise)) /\ MountIsSound(clients, m)
      /\ PasswordIsSound(m, remembered) /\ remembered \in Entered \cup {0}
    BY MountOf DEF SessionInv, Types
<1>2. m.loop["dial"].pc # "off" /\ "dial" \in Loops
    BY DEF DialAgain, Loops
<1>3. m.phase \notin {"none", "gone"} /\ m.pending # 0
    BY <1>1, <1>2 DEF MountIsSound
<1>4. m.pending \in 1..Len(clients.promise) /\ m.password \in Entered \cup {0}
  <2>1. m.pending \in 0..Len(clients.promise)
    BY <1>1 DEF MountState
  <2> QED
    BY <1>1, <1>3, <2>1 DEF MountState
<1>5. \A t \in Sessions : FreshIsIdle(clients, clients', session[t])
    BY IdleRests
<1>6. clients' = Redial(clients, m.pending, m.password) /\ remembered' = remembered
    BY DEF DialAgain
<1>7. CASE m.aborted
  <2>1. clients.cache # m.pending
    BY <1>1, <1>3, <1>7 DEF MountIsSound
  <2>2. clients' = Connect(clients, m.password)
    BY <1>6, <2>1 DEF Redial, Release
  <2>3. Aged(clients, clients', 0) /\ CacheIsGood(clients')
    BY <1>1, <1>4, <2>2, ConnectMoves DEF Moved
  <2>4. PICK n : n = Ended(m, "dial")
    OBVIOUS
  <2>5. /\ n \in MountState(Len(clients.promise)) /\ MountIsSound(clients, n) /\ Keeps(n, m)
        /\ Resting(clients, m) => Resting(clients, n)
    BY <1>1, <1>2, <1>3, <2>4, EndedKeeps
  <2>6. ~IsLive(n) /\ FreshIsIdle(clients, clients', n)
    BY <1>5, <1>7, <2>5 DEF Keeps, IsLive, FreshIsIdle
  <2>7. Untouched(s, 0)
    <3>1. \A t \in Sessions : IsLive(session[t]) =>
            session[t].pending # 0 /\ (Reviving(session[t]) => session[t].retiring # 0)
        BY MountOf DEF MountIsSound
    <3> QED
        BY <1>6, <3>1 DEF Untouched
  <2>8. session' = [session EXCEPT ![s] = n]
    BY <1>7, <2>4 DEF DialAgain
  <2>9. PasswordIsSound(n, remembered')
    BY <2>6 DEF PasswordIsSound
  <2> QED
    BY <1>1, <1>5, <1>6, <2>3, <2>5, <2>6, <2>7, <2>8, <2>9, Continues
<1>8. CASE ~m.aborted
  <2>1. IsLive(m) /\ \A t \in Sessions \ {s} : ~IsLive(session[t])
    BY <1>3, <1>8, MountOf DEF IsLive
  <2>2. Moved(clients, clients', m.pending) /\ CacheIsGood(clients') /\ clients'.cache # 0
    BY <1>1, <1>4, <1>6, RedialMoves
  <2>3. PICK k \in Nat : k = Len(clients'.promise)
    BY <2>2 DEF Moved, Aged
  <2>4. PICK q : q = clients'.cache
    OBVIOUS
  <2>5. m \in MountState(k) /\ q \in 0..k
    BY <1>1, <2>2, <2>3, <2>4, MountGrows DEF Moved, Aged, CacheIsGood
  <2>6. PICK n : n = Dialled(m, "dial", q)
    OBVIOUS
  <2>7. /\ n \in MountState(k) /\ n.pending = q /\ n.loop["dial"] = [pc |-> "connect", on |-> q]
        /\ n.phase = m.phase /\ n.aborted = m.aborted /\ n.password = m.password
        /\ n.retiring = m.retiring /\ \A j \in Loops \ {"dial"} : n.loop[j] = m.loop[j]
    BY <1>2, <2>5, <2>6, DialledIs
  <2>8. session' = [session EXCEPT ![s] = n]
    BY <1>8, <2>4, <2>6 DEF DialAgain, Dialled, Looping
  <2>9. Dialling(s, n, "dial")
    BY <1>3, <1>8, <2>3, <2>4, <2>7, <2>8 DEF Dialling
  <2>10. ASSUME Reviving(n) PROVE RetiresWell(s, n, m.pending)
    <3>1. Reviving(m)
        BY <2>7, <2>10 DEF Reviving, Loops
    <3>2. m.retiring \in 0..Len(clients.promise) /\ m.retiring # 0 /\ clients.cache # m.retiring
          /\ Serving(clients, m.retiring)
        BY <1>1, <2>1, <3>1 DEF MountState, MountIsSound
    <3>3. m.pending # m.retiring
        BY <2>1, <3>1 DEF SessionInv, Spared
    <3>4. \A t \in Sessions \ {s} : Reviving(session[t]) => m.retiring # session[t].retiring
        BY <2>1, <3>1 DEF SessionInv, SparedRetiring
    <3>5. clients'.cache # m.retiring
        BY <1>1, <2>2, <3>2 DEF Moved, Aged
    <3> QED
        BY <1>1, <2>7, <3>2, <3>3, <3>4, <3>5 DEF RetiresWell
  <2>11. PasswordIsSound(n, remembered')
    BY <1>1, <1>6, <2>1, <2>7 DEF PasswordIsSound
  <2>12. Aged(clients, clients', m.pending) /\ remembered' \in Entered \cup {0}
    BY <1>1, <1>6, <2>2 DEF Moved
  <2> HIDE DEF m
  <2> QED
    BY <1>2, <1>5, <2>1, <2>2, <2>9, <2>10, <2>11, <2>12, Dials
<1> QED
    BY <1>7, <1>8

(* The revival's backoff is over.  Its own client is not the cached one.     *)
LEMMA ReviveAgainStep ==
    ASSUME SessionInv, Idle, NEW s \in Sessions, ReviveAgain(s), UNCHANGED agent
    PROVE  SessionInv'
<1> DEFINE m == session[s]
<1>1. /\ clients \in Clients /\ CacheIsGood(clients) /\ Len(clients.promise) \in Nat
      /\ m \in MountState(Len(clients.promise)) /\ MountIsSound(clients, m)
      /\ PasswordIsSound(m, remembered) /\ remembered \in Entered \cup {0}
    BY MountOf DEF SessionInv, Types
<1>2. m.loop["revival"].pc # "off" /\ "revival" \in Loops /\ Reviving(m)
    BY DEF ReviveAgain, Loops, Reviving
<1>3. m.phase \notin {"none", "gone"} /\ m.pending # 0 /\ clients.cache # m.retiring
    BY <1>1, <1>2 DEF MountIsSound
<1>4. remembered' = remembered
    BY DEF ReviveAgain
<1>5. CASE m.aborted
  <2>1. PICK n : n = Ended(m, "revival")
    OBVIOUS
  <2>2. n \in MountState(Len(clients.promise)) /\ MountIsSound(clients, n) /\ Keeps(n, m)
    BY <1>1, <1>2, <1>3, <2>1, EndedKeeps
  <2>3. clients' = clients /\ session' = [session EXCEPT ![s] = n]
    BY <1>5, <2>1 DEF ReviveAgain
  <2>4. PasswordIsSound(n, remembered')
    BY <1>5, <2>2 DEF PasswordIsSound, Keeps, IsLive
  <2> QED
    BY <1>1, <1>4, <2>2, <2>3, <2>4, StaysInPlace
<1>6. CASE ~m.aborted
  <2>1. IsLive(m) /\ \A t \in Sessions \ {s} : ~IsLive(session[t])
    BY <1>3, <1>6, MountOf DEF IsLive
  <2>2. m.pending \in 1..Len(clients.promise) /\ m.password \in Entered \cup {0}
    <3>1. m.pending \in 0..Len(clients.promise)
        BY <1>1 DEF MountState
    <3> QED
        BY <1>1, <1>3, <3>1 DEF MountState
  <2>3. /\ clients' = Redial(clients, m.pending, m.password)
        /\ session' = [session EXCEPT ![s] =
                [m EXCEPT !.evicted = m.evicted \/ clients.cache = m.retiring,
                          !.pending = clients'.cache,
                          !.loop["revival"] = [pc |-> "connect", on |-> clients'.cache]]]
    BY <1>3, <1>6 DEF ReviveAgain, Attempt, Evict
  <2>4. Moved(clients, clients', m.pending) /\ CacheIsGood(clients') /\ clients'.cache # 0
    BY <1>1, <2>2, <2>3, RedialMoves
  <2>5. PICK k \in Nat : k = Len(clients'.promise)
    BY <2>4 DEF Moved, Aged
  <2>6. PICK q : q = clients'.cache
    OBVIOUS
  <2>7. m \in MountState(k) /\ q \in 0..k
    BY <1>1, <2>4, <2>5, <2>6, MountGrows DEF Moved, Aged, CacheIsGood
  <2>8. PICK evicted \in BOOLEAN : evicted = (m.evicted \/ clients.cache = m.retiring)
    OBVIOUS
  <2>9. PICK x : x = [m EXCEPT !.evicted = evicted]
    OBVIOUS
  <2>10. /\ x \in MountState(k) /\ x.phase = m.phase /\ x.aborted = m.aborted
         /\ x.password = m.password /\ x.retiring = m.retiring /\ x.loop = m.loop
    BY <2>7, <2>9 DEF MountState
  <2>11. PICK n : n = Dialled(x, "revival", q)
    OBVIOUS
  <2>12. /\ n \in MountState(k) /\ n.pending = q
         /\ n.loop["revival"] = [pc |-> "connect", on |-> q]
         /\ n.phase = x.phase /\ n.aborted = x.aborted /\ n.password = x.password
         /\ n.retiring = x.retiring /\ \A j \in Loops \ {"revival"} : n.loop[j] = x.loop[j]
    BY <1>2, <2>7, <2>10, <2>11, DialledIs
  <2>13. session' = [session EXCEPT ![s] = n]
    BY <2>3, <2>6, <2>8, <2>9, <2>11 DEF Dialled, Looping
  <2>14. Dialling(s, n, "revival")
    BY <1>3, <1>6, <2>5, <2>6, <2>10, <2>12, <2>13 DEF Dialling
  <2>15. RetiresWell(s, n, m.pending)
    <3>1. m.retiring \in 0..Len(clients.promise) /\ m.retiring # 0 /\ clients.cache # m.retiring
          /\ Serving(clients, m.retiring)
        BY <1>1, <1>2, <2>1 DEF MountState, MountIsSound
    <3>2. m.pending # m.retiring
        BY <1>2, <2>1 DEF SessionInv, Spared
    <3>3. \A t \in Sessions \ {s} : Reviving(session[t]) => m.retiring # session[t].retiring
        BY <1>2, <2>1 DEF SessionInv, SparedRetiring
    <3>4. clients'.cache # m.retiring
        BY <1>1, <2>4, <3>1 DEF Moved, Aged
    <3> QED
        BY <1>1, <2>10, <2>12, <3>1, <3>2, <3>3, <3>4 DEF RetiresWell
  <2>16. PasswordIsSound(n, remembered')
    BY <1>1, <1>4, <2>1, <2>10, <2>12 DEF PasswordIsSound
  <2>17. Aged(clients, clients', m.pending) /\ remembered' \in Entered \cup {0}
    BY <1>1, <1>4, <2>4 DEF Moved
  <2> HIDE DEF m
  <2> QED
    BY <1>2, <2>1, <2>4, <2>14, <2>15, <2>16, <2>17, IdleRests, Dials
<1> QED
    BY <1>5, <1>6

(* A dead connection: what served is set aside, and a new client dialled.    *)
LEMMA EnsureLiveStep ==
    ASSUME SessionInv, Idle, NEW s \in Sessions, EnsureLive(s), UNCHANGED agent
    PROVE  SessionInv'
<1> DEFINE m == session[s]
<1>1. /\ clients \in Clients /\ CacheIsGood(clients) /\ Len(clients.promise) \in Nat
      /\ m \in MountState(Len(clients.promise)) /\ MountIsSound(clients, m)
      /\ PasswordIsSound(m, remembered) /\ remembered \in Entered \cup {0}
    BY MountOf DEF SessionInv, Types
<1>2. IsLive(m) /\ remembered' = remembered
    BY DEF EnsureLive, Live, IsLive
<1>3. /\ m.phase \notin {"none", "gone"} /\ m.pending # 0
      /\ \A t \in Sessions \ {s} : ~IsLive(session[t])
    BY <1>2, MountOf
<1>4. m.pending \in 1..Len(clients.promise) /\ m.password \in Entered \cup {0}
  <2>1. m.pending \in 0..Len(clients.promise)
    BY <1>1 DEF MountState
  <2> QED
    BY <1>1, <1>3, <2>1 DEF MountState
<1>5. PICK kept : kept = Evict(clients, m.pending)
    OBVIOUS
<1>6. /\ Moved(clients, kept, 0) /\ CacheIsGood(kept) /\ kept.promise = clients.promise
      /\ kept.cache = IF clients.cache = m.pending THEN 0 ELSE clients.cache
    BY <1>1, <1>5, EvictMoves
<1>7. kept \in Clients /\ kept.cache # m.pending
    BY <1>3, <1>6 DEF Moved, Aged
<1>8. PICK r : r = [m EXCEPT !.retiring = m.pending, !.evicted = FALSE]
    OBVIOUS
<1>9. PICK k \in Nat : k = Len(clients.promise)
    BY <1>1
<1>10. /\ r \in MountState(k) /\ r.phase = m.phase /\ r.aborted = m.aborted
       /\ r.password = m.password /\ r.retiring = m.pending /\ r.loop = m.loop
       /\ r.pending = m.pending /\ r.evicted = FALSE
  <2>1. PICK x : x = [m EXCEPT !.retiring = m.pending]
    OBVIOUS
  <2>2. /\ x \in MountState(k) /\ x.phase = m.phase /\ x.aborted = m.aborted
        /\ x.password = m.password /\ x.retiring = m.pending /\ x.loop = m.loop
        /\ x.pending = m.pending
    BY <1>1, <1>4, <1>9, <2>1 DEF MountState
  <2>3. r = [x EXCEPT !.evicted = FALSE]
    BY <1>8, <2>1
  <2> QED
    BY <2>2, <2>3 DEF MountState
<1>11. /\ clients' = Redial(kept, m.pending, m.password)
       /\ session' = [session EXCEPT ![s] =
                [r EXCEPT !.evicted = r.evicted \/ clients.cache = r.retiring,
                          !.pending = clients'.cache,
                          !.loop["revival"] = [pc |-> "connect", on |-> clients'.cache]]]
    BY <1>5, <1>8, <1>10 DEF EnsureLive, Attempt
<1>12. clients' = Connect(kept, m.password)
    BY <1>7, <1>11 DEF Redial, Release
<1>13. Moved(kept, clients', 0) /\ CacheIsGood(clients') /\ clients'.cache # 0
    BY <1>4, <1>6, <1>7, <1>12, ConnectMoves
<1>14. /\ Aged(clients, clients', 0) /\ clients'.cache # m.pending
       /\ Len(clients.promise) <= Len(clients'.promise)
    BY <1>1, <1>4, <1>6, <1>7, <1>13 DEF Moved, Aged, Serving
<1>15. PICK j \in Nat : j = Len(clients'.promise)
    BY <1>13 DEF Moved, Aged
<1>16. PICK q : q = clients'.cache
    OBVIOUS
<1>17. r \in MountState(j) /\ q \in 0..j
    BY <1>9, <1>10, <1>13, <1>14, <1>15, <1>16, MountGrows DEF CacheIsGood
<1>18. PICK evicted \in BOOLEAN : evicted = (r.evicted \/ clients.cache = r.retiring)
    OBVIOUS
<1>19. PICK x : x = [r EXCEPT !.evicted = evicted]
    OBVIOUS
<1>20. /\ x \in MountState(j) /\ x.phase = r.phase /\ x.aborted = r.aborted
       /\ x.password = r.password /\ x.retiring = r.retiring /\ x.loop = r.loop
    BY <1>17, <1>19 DEF MountState
<1>21. PICK n : n = Dialled(x, "revival", q)
    OBVIOUS
<1>22. /\ n \in MountState(j) /\ n.pending = q
       /\ n.loop["revival"] = [pc |-> "connect", on |-> q]
       /\ n.phase = x.phase /\ n.aborted = x.aborted /\ n.password = x.password
       /\ n.retiring = x.retiring /\ \A i \in Loops \ {"revival"} : n.loop[i] = x.loop[i]
       /\ "revival" \in Loops
    BY <1>17, <1>20, <1>21, DialledIs DEF Loops
<1>23. session' = [session EXCEPT ![s] = n]
    BY <1>11, <1>16, <1>18, <1>19, <1>21 DEF Dialled, Looping
<1>24. ~m.aborted
    BY <1>2 DEF IsLive
<1>25. Dialling(s, n, "revival")
    BY <1>3, <1>10, <1>15, <1>16, <1>20, <1>22, <1>23, <1>24 DEF Dialling
<1>26. RetiresWell(s, n, 0)
  <2>1. Serving(clients, m.pending)
    BY <1>1, <1>2 DEF MountIsSound
  <2>2. \A t \in Sessions \ {s} : Reviving(session[t]) => m.pending # session[t].retiring
    BY <1>2 DEF SessionInv, Spared
  <2>3. n.retiring = m.pending
    BY <1>10, <1>20, <1>22
  <2> QED
    BY <1>3, <1>4, <1>14, <2>1, <2>2, <2>3 DEF RetiresWell
<1>27. PasswordIsSound(n, remembered')
    BY <1>1, <1>2, <1>10, <1>20, <1>22 DEF PasswordIsSound
<1>28. remembered' \in Entered \cup {0}
    BY <1>1, <1>2
<1> HIDE DEF m
<1> QED
    BY <1>3, <1>13, <1>14, <1>22, <1>25, <1>26, <1>27, <1>28, IdleRests, Dials

-----------------------------------------------------------------------------
(* The theorems.                                                             *)

(* The invariant holds of the page as it loads. *)
LEMMA InitHolds ==
    ASSUME SessionAssumption, Init
    PROVE  SessionInv
<1>1. clients.cache = 0 /\ clients.promise = << >> /\ clients \in Clients /\ Len(clients.promise) = 0
    BY DEF Init
<1>2. Unmounted \in MountState(0)
  <2>1. [l \in Loops |-> Off] \in [Loops -> LoopState(0)]
    BY DEF Off, LoopState
  <2> QED
    BY <2>1 DEF Unmounted, MountState, LoopState
<1>3. Types
    BY <1>1, <1>2 DEF Init, Types, SessionAssumption, NoCall
<1>4. /\ Unmounted.phase = "none" /\ ~Unmounted.aborted /\ ~IsLive(Unmounted)
      /\ ~Reviving(Unmounted) /\ \A l \in Loops : Unmounted.loop[l].pc = "off"
    BY DEF Unmounted, Off, IsLive, Reviving, Loops
<1>5. MountIsSound(clients, Unmounted) /\ PasswordIsSound(Unmounted, remembered)
    BY <1>4 DEF MountIsSound, PasswordIsSound, LoopIsSound
<1>6. CacheIsGood(clients)
    BY <1>1 DEF CacheIsGood
<1>7. \A s \in Sessions : session[s] = Unmounted
    BY DEF Init
<1> QED
    BY <1>3, <1>4, <1>5, <1>6, <1>7 DEF SessionInv, Spared, SparedRetiring, Live, IsLive

(* Every step keeps the invariant. *)
LEMMA NextKeeps ==
    ASSUME SessionAssumption, SessionInv, [Next]_vars
    PROVE  SessionInv'
<1>1. CASE UNCHANGED vars
    BY <1>1 DEF vars, SessionInv, Types, Live
<1>2. CASE Microtask
  <2>1. CASE /\ \E s \in Sessions, l \in Loops : Awaited(s, l)
             /\ UNCHANGED <<usable, agent, deaths, submits, calls>>
    BY <2>1, AwaitedStep
  <2>2. CASE CallDialled /\ UNCHANGED <<session, remembered, usable, deaths, submits, calls>>
    BY <2>2, CallDialledStep
  <2> QED
    BY <1>2, <2>1, <2>2 DEF Microtask
<1>3. CASE Idle /\ Answered
  <2>1. CASE \E p \in DOMAIN clients.promise : Resolve(p) \/ Reject(p)
    BY <2>1, ResolveStep, RejectStep
  <2>2. CASE /\ \E s \in Sessions, l \in Loops : ManifestCame(s, l) \/ WatchOpened(s, l)
             /\ UNCHANGED <<usable, agent, deaths, submits, calls>>
    BY <2>2, ManifestStep, WatchOpenedStep
  <2> QED
    BY <1>3, <2>1, <2>2 DEF Answered
<1>4. CASE Idle /\ Timer
    BY <1>4, DialAgainStep, ReviveAgainStep, EnsureLiveStep DEF Timer
<1>5. CASE Idle /\ Event
  <2>1. CASE \E p \in DOMAIN clients.promise : ConnectionDies(p)
    BY <2>1, DiesStep
  <2>2. CASE \E s \in Sessions :
                Mount(s) \/ Unmount(s) \/ \E p \in session[s].watched : WatchFrame(s, p)
    BY <1>5, <2>2, MountStep, UnmountStep, WatchFrameStep
  <2>3. CASE \E s \in Sessions, e \in Entered : submitPassword(s, e)
    BY <1>5, <2>3, SubmitStep
  <2>4. CASE \E e \in Passed : Call(e)
    BY <1>5, <2>4, CallStep
  <2> QED
    BY <1>5, <2>1, <2>2, <2>3, <2>4 DEF Event
<1> QED
    BY <1>1, <1>2, <1>3, <1>4, <1>5 DEF Next, Progress

(* Through mounts, unmounts, refusals, revivals and the agent's calls, what  *)
(* the cache holds serves, every mounted session serves with clients nobody  *)
(* told to leave, and nobody retires the client of another.                  *)
THEOREM SessionInvariant == Spec => []SessionInv
<1>1. Init => SessionInv
    BY SessionAssumption, InitHolds
<1>2. SessionInv /\ [Next]_vars => SessionInv'
    BY SessionAssumption, NextKeeps
<1> QED
    BY <1>1, <1>2, PTL DEF Spec

(* The cache holds no client that left, a revival keeps the dying client     *)
(* serving until its replacement is up, and a session at the password gate   *)
(* has nothing left to dial with.  lib/client and lib/session.               *)
THEOREM SessionsStayOrderly == Spec => []SessionsAreOrderly
<1>1. SessionInv => SessionsAreOrderly
  <2> SUFFICES ASSUME SessionInv PROVE SessionsAreOrderly
    OBVIOUS
  <2>1. /\ clients \in Clients /\ CacheIsGood(clients) /\ Types
        /\ \A s \in Sessions :
            /\ session[s] \in MountState(Len(clients.promise))
            /\ MountIsSound(clients, session[s]) /\ PasswordIsSound(session[s], remembered)
    <3>1. CacheIsGood(clients) /\ Types
        BY DEF SessionInv
    <3>2. clients \in Clients
        BY <3>1 DEF Types
    <3> QED
        BY <3>1, <3>2, MountOf
  <2>2. SessionTypeOK
    <3>1. \A p \in DOMAIN clients.promise : Promise(p) \in PromiseState
        BY <2>1, ElementOfSeq DEF Promise
    <3>2. \A s \in Sessions :
            /\ session[s].phase \in
                   {"none", "connecting", "ready", "needs-password", "failed", "gone"}
            /\ {session[s].pending, session[s].client, session[s].retiring}
                   \subseteq 0 .. Len(clients.promise)
            /\ \A l \in Loops : session[s].loop[l].pc # "off" => session[s].loop[l].on # 0
        BY <2>1 DEF MountState, MountIsSound, LoopIsSound
    <3>3. clients.cache \in 0 .. Len(clients.promise)
        BY <2>1 DEF CacheIsGood
    <3>4. remembered \in Entered \cup {0} /\ {agent.entry, agent.on} \subseteq 0..Len(clients.promise)
        BY <2>1 DEF Types
    <3>5. \A p \in DOMAIN clients.promise :
            /\ Promise(p).state \in {"pending", "ok", "failed", "refused", "unusable"}
            /\ Promise(p).slot \in {"none", "Joined", "Left"}
            /\ Promise(p).password \in Entered \cup {0}
        BY <3>1 DEF PromiseState
    <3> QED
        BY <3>2, <3>3, <3>4, <3>5 DEF SessionTypeOK
  <2>3. CacheHoldsNoLeftClient
    BY <2>1 DEF CacheHoldsNoLeftClient, CacheIsGood, Serving, Promise
  <2>4. RevivalKeepsServing
    BY <2>1 DEF RevivalKeepsServing, MountIsSound, Serving, Promise, Live, IsLive, Reviving
  <2>5. GateForgetsThePassword
    BY <2>1 DEF GateForgetsThePassword, PasswordIsSound, Live, IsLive
  <2> QED
    BY <2>2, <2>3, <2>4, <2>5 DEF SessionsAreOrderly
<1> QED
    BY <1>1, SessionInvariant, PTL
===============================================================================
