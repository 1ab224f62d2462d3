-------------------------------- MODULE Session --------------------------------
(***************************************************************************)
(* The web page's sessions on one share: the client cache of lib/client    *)
(* (connect, release, evict, retire), the session component that dials at  *)
(* construction, asks for a password and revives a dead connection, and    *)
(* the agent tools of lib/webmcp that use the same cache.                  *)
(*                                                                         *)
(* A session is one mount of the component; the next one is mounted only   *)
(* after the last was unmounted, but what it left running goes on.  A      *)
(* promise of connect is a number, 0 for none.  A password is a number, 0  *)
(* when none is held.                                                      *)
(***************************************************************************)
EXTENDS Naturals, Sequences, FiniteSets

CONSTANTS
    Sessions,     \* the mounts of the component, one after the other
    Password,     \* the share's password
    Entered,      \* what a person may type
    Passed,       \* what an agent may pass, 0 for no password
    MaxFaults,    \* bound: dials and fetches that fail
    MaxDeaths,    \* bound: connections that die
    MaxSubmits,   \* bound: passwords typed
    MaxCalls,     \* bound: agent tool calls
    MaxDials      \* bound: promises after which no revival tries again

ASSUME SessionAssumption ==
    /\ Sessions \subseteq Nat
    /\ Entered \subseteq Nat \ {0} /\ Password \in Entered /\ Passed \subseteq Entered \cup {0}
    /\ {MaxFaults, MaxDeaths, MaxSubmits, MaxCalls, MaxDials} \subseteq Nat

VARIABLES
    clients,     \* the cache's one entry and every promise ever made
    session,     \* session[s]: a mount's variables
    remembered,  \* the password sessionStorage holds
    usable,      \* whether the ticket can be dialled at all
    agent,       \* the agent tools' entry and the call under way
    faults, deaths, submits, calls

vars == <<clients, session, remembered, usable, agent, faults, deaths, submits, calls>>

Loops == {"dial", "revival"}
Off == [pc |-> "off", on |-> 0]
Unmounted == [phase |-> "none", aborted |-> FALSE, pending |-> 0, password |-> 0, client |-> 0,
              watched |-> {}, loop |-> [l \in Loops |-> Off], retiring |-> 0, evicted |-> FALSE]
Gone == [Unmounted EXCEPT !.phase = "gone", !.aborted = TRUE]
NoCall == [entry |-> 0, on |-> 0]

Live(s) == session[s].phase # "none" /\ ~session[s].aborted
Promise(p) == clients.promise[p]
Settled(p) == Promise(p).state # "pending"
Resolved(p) == Promise(p).state = "ok"

-----------------------------------------------------------------------------
(* The cache, as functions of its state.                                    *)

New(c, password) ==
    [cache |-> Len(c.promise) + 1,
     promise |-> Append(c.promise, [state |-> "pending", password |-> password,
                                    slot |-> "none", leaving |-> FALSE, closed |-> FALSE])]

Connect(c, password) == IF c.cache # 0 THEN c ELSE New(c, password)

Evict(c, owned) == IF c.cache = owned THEN [c EXCEPT !.cache = 0] ELSE c

Retire(c, owned) ==
    CASE c.promise[owned].state = "ok" -> [c EXCEPT !.promise[owned].slot = "Left"]
      [] c.promise[owned].state = "pending" -> [c EXCEPT !.promise[owned].leaving = TRUE]
      [] OTHER -> c

\* Mutant: the entry stays behind for the next mount to find.
ReleaseKeeping(c, owned) == IF c.cache = owned THEN Retire(c, owned) ELSE c

Release(c, owned) == IF c.cache = owned THEN Retire(Evict(c, owned), owned) ELSE c

Redial(c, owned, password) == Connect(Release(c, owned), password)

-----------------------------------------------------------------------------
(* What happens to a promise and to its client.                             *)

Fault == faults < MaxFaults /\ faults' = faults + 1

\* A settled promise is its outcome; whoever released it meanwhile is answered.
Outcome(state, slot) ==
    [state |-> state, password |-> 0, slot |-> slot, leaving |-> FALSE, closed |-> FALSE]

Resolve(p) ==
    /\ ~Settled(p) /\ usable /\ Promise(p).password = Password
    /\ clients' = [clients EXCEPT !.promise[p] =
                        Outcome("ok", IF Promise(p).leaving THEN "Left" ELSE "Joined")]
    /\ UNCHANGED <<session, remembered, usable, agent, faults, deaths, submits, calls>>

Reject(p) ==
    /\ ~Settled(p)
    /\ \E state \in {"failed", "refused", "unusable"} :
        /\ state = "refused" => usable /\ Promise(p).password # Password
        /\ state = "unusable" => ~usable
        /\ IF state = "failed" THEN usable /\ Fault ELSE UNCHANGED faults
        /\ clients' = [clients EXCEPT !.cache = 0, !.promise[p] = Outcome(state, "none")]
    /\ UNCHANGED <<session, remembered, usable, agent, deaths, submits, calls>>

\* The mount connection dies, as a tab in the background loses it.
ConnectionDies(p) ==
    /\ Resolved(p) /\ ~Promise(p).closed /\ deaths < MaxDeaths /\ deaths' = deaths + 1
    /\ clients' = [clients EXCEPT !.promise[p].closed = TRUE]
    /\ UNCHANGED <<session, remembered, usable, agent, faults, submits, calls>>

-----------------------------------------------------------------------------
(* A mount.                                                                 *)

Mount(s) ==
    /\ session[s].phase = "none" /\ \A t \in Sessions : ~Live(t)
    /\ \A t \in Sessions : session[t].phase = "none" => s <= t
    /\ clients' = Connect(clients, remembered)
    /\ session' = [session EXCEPT ![s] =
            [@ EXCEPT !.phase = "connecting", !.pending = clients'.cache, !.password = remembered,
                      !.loop["dial"] = [pc |-> "connect", on |-> clients'.cache]]]
    /\ UNCHANGED <<remembered, usable, agent, faults, deaths, submits, calls>>

\* A mount that was unmounted and whose loops have ended is gone.
Tidy(record) ==
    IF record.aborted /\ \A l \in Loops : record.loop[l] = Off THEN Gone ELSE record

Unmount(s) ==
    /\ Live(s)
    /\ clients' = Release(clients, session[s].pending)
    /\ session' = [session EXCEPT ![s] = Tidy([@ EXCEPT !.aborted = TRUE, !.watched = {}])]
    /\ UNCHANGED <<remembered, usable, agent, faults, deaths, submits, calls>>

Show(record, p) == [record EXCEPT !.phase = "ready", !.client = p]

Ended(record, l) ==
    Tidy(IF l = "dial" THEN [record EXCEPT !.loop[l] = Off]
         ELSE [record EXCEPT !.loop[l] = Off, !.retiring = 0, !.evicted = FALSE])
At(record, l, pc) == [record EXCEPT !.loop[l].pc = pc]

\* Mutant: one failure is the end of it.
RetryingNever(record, l) == Ended(record, l)

Retrying(record, l) == At(record, l, "sleep")

\* forgetPassword, when a password was refused rather than missing.
Forgotten(stale) == IF stale # 0 THEN 0 ELSE remembered

(* bringUp threw.  The dial loop asks for a password or gives up where that  *)
(* is all there is to do; the revival only ever tries again.                 *)
Caught(s, l) ==
    LET on == session[s].loop[l].on
        refused == l = "dial" /\ Promise(on).state = "refused"
    IN  \/ /\ session[s].aborted
           /\ session' = [session EXCEPT ![s] = Ended(@, l)]
           /\ UNCHANGED <<clients, remembered>>
        \/ /\ ~session[s].aborted /\ refused
           /\ remembered' = Forgotten(session[s].password)
           /\ clients' = Release(clients, session[s].pending)
           /\ session' = [session EXCEPT ![s] =
                    [Ended(@, l) EXCEPT !.password = 0, !.phase = "needs-password"]]
        \/ /\ ~session[s].aborted /\ l = "dial" /\ Promise(on).state = "unusable"
           /\ session' = [session EXCEPT ![s] = [Ended(@, l) EXCEPT !.phase = "failed"]]
           /\ UNCHANGED <<clients, remembered>>
        \/ /\ ~session[s].aborted /\ ~refused
           /\ l = "dial" => Promise(on).state # "unusable"
           /\ session' = [session EXCEPT ![s] = Retrying(@, l)]
           /\ UNCHANGED <<clients, remembered>>

\* The retiring client goes once its replacement is up.
BroughtUp(s, l, record) ==
    /\ session' = [session EXCEPT ![s] = Ended(record, l)]
    /\ clients' = IF l = "revival" THEN Retire(clients, record.retiring) ELSE clients
    /\ UNCHANGED remembered

(* The three awaits of bringUp, each with its check of the abort.            *)
Awaited(s, l) ==
    LET on == session[s].loop[l].on
    IN  /\ session[s].loop[l].pc = "connect" /\ Settled(on)
        /\ \/ Resolved(on) /\ session[s].aborted /\ BroughtUp(s, l, session[s])
           \/ /\ Resolved(on) /\ ~session[s].aborted
              /\ session' = [session EXCEPT ![s] = At(@, l, "manifest")]
              /\ UNCHANGED <<clients, remembered>>
           \/ ~Resolved(on) /\ Caught(s, l)
        /\ UNCHANGED faults

ManifestCame(s, l) ==
    LET on == session[s].loop[l].on
    IN  /\ session[s].loop[l].pc = "manifest"
        /\ \/ /\ ~Promise(on).closed /\ UNCHANGED faults
              /\ \/ session[s].aborted /\ BroughtUp(s, l, session[s])
                 \/ /\ ~session[s].aborted
                    /\ session' = [session EXCEPT ![s] = At(Show(@, on), l, "watch")]
                    /\ UNCHANGED <<clients, remembered>>
           \/ Promise(on).closed /\ UNCHANGED faults /\ Caught(s, l)
           \/ ~Promise(on).closed /\ Fault /\ Caught(s, l)

WatchOpened(s, l) ==
    LET on == session[s].loop[l].on
    IN  /\ session[s].loop[l].pc = "watch" /\ UNCHANGED faults
        /\ \/ /\ ~Promise(on).closed
              /\ BroughtUp(s, l, [session[s] EXCEPT !.watched =
                                     IF session[s].aborted THEN @ ELSE @ \cup {on}])
           \/ Promise(on).closed /\ Caught(s, l)

\* A changed tree, from the watch of whichever client it came in on.
WatchFrame(s, p) ==
    /\ Live(s) /\ p \in session[s].watched /\ ~Promise(p).closed /\ session[s].client # p
    /\ session' = [session EXCEPT ![s] = Show(@, p)]
    /\ UNCHANGED <<clients, remembered, usable, agent, faults, deaths, submits, calls>>

(* The backoff is over.  The dial loop redials and only then looks at the    *)
(* abort; the revival looks first.                                           *)
DialAgain(s) ==
    /\ session[s].loop["dial"].pc = "sleep"
    /\ clients' = Redial(clients, session[s].pending, session[s].password)
    /\ session' = [session EXCEPT ![s] =
            IF session[s].aborted THEN Ended(@, "dial")
            ELSE [@ EXCEPT !.pending = clients'.cache,
                           !.loop["dial"] = [pc |-> "connect", on |-> clients'.cache]]]
    /\ UNCHANGED remembered

Attempt(c, record) ==
    LET evicted == record.evicted \/ c.cache = record.retiring
        kept == IF record.evicted THEN c ELSE Evict(c, record.retiring)
        dialled == Redial(kept, record.pending, record.password)
    IN  [clients |-> dialled,
         session |-> [record EXCEPT !.evicted = evicted, !.pending = dialled.cache,
                                    !.loop["revival"] = [pc |-> "connect", on |-> dialled.cache]]]

ReviveAgain(s) ==
    /\ session[s].loop["revival"].pc = "sleep" /\ Len(clients.promise) < MaxDials
    /\ LET next == Attempt(clients, session[s])
       IN  IF session[s].aborted
           THEN session' = [session EXCEPT ![s] = Ended(@, "revival")] /\ UNCHANGED clients
           ELSE session' = [session EXCEPT ![s] = next.session] /\ clients' = next.clients
    /\ UNCHANGED remembered

\* The poll, the tab coming back into view, the network coming back.
EnsureLive(s) ==
    /\ Live(s) /\ session[s].phase = "ready" /\ Promise(session[s].client).closed
    /\ session[s].loop["revival"].pc = "off"
    /\ LET next == Attempt(clients, [session[s] EXCEPT !.retiring = session[s].pending,
                                                       !.evicted = FALSE])
       IN  session' = [session EXCEPT ![s] = next.session] /\ clients' = next.clients
    /\ UNCHANGED remembered

submitPassword(s, entered) ==
    /\ Live(s) /\ session[s].phase = "needs-password"
    /\ submits < MaxSubmits /\ submits' = submits + 1
    /\ remembered' = entered
    /\ clients' = Connect(clients, entered)
    /\ session' = [session EXCEPT ![s] =
            [@ EXCEPT !.password = entered, !.phase = "connecting", !.pending = clients'.cache,
                      !.loop["dial"] = [pc |-> "connect", on |-> clients'.cache]]]
    /\ UNCHANGED <<usable, agent, faults, deaths, calls>>

-----------------------------------------------------------------------------
(* The agent tools: openSession keeps an entry of its own over the cache.    *)
(* A call that finds it alive, and what a call fetches, change nothing here. *)

Call(password) ==
    /\ agent.on = 0 /\ calls < MaxCalls /\ calls' = calls + 1
    /\ agent.entry # 0 => Promise(agent.entry).closed
    /\ clients' = Connect(clients, password)
    /\ agent' = [entry |-> 0, on |-> clients'.cache]
    /\ UNCHANGED <<session, remembered, usable, faults, deaths, submits>>

CallDialled ==
    /\ agent.on # 0 /\ Settled(agent.on)
    /\ agent' = [NoCall EXCEPT !.entry = IF Resolved(agent.on) THEN agent.on ELSE 0]
    /\ UNCHANGED <<clients, faults>>

-----------------------------------------------------------------------------

Init ==
    /\ clients = [cache |-> 0, promise |-> << >>]
    /\ session = [s \in Sessions |-> Unmounted]
    /\ remembered \in {0, Password}
    /\ usable \in BOOLEAN
    /\ agent = NoCall
    /\ faults = 0 /\ deaths = 0 /\ submits = 0 /\ calls = 0

(* What awaits a settled promise goes on at once: microtasks run before the   *)
(* next timer, event or answer does.                                         *)
Microtask ==
    \/ /\ \E s \in Sessions, l \in Loops : Awaited(s, l)
       /\ UNCHANGED <<usable, agent, deaths, submits, calls>>
    \/ CallDialled /\ UNCHANGED <<session, remembered, usable, deaths, submits, calls>>

Idle ==
    /\ \A s \in Sessions, l \in Loops :
        session[s].loop[l].pc = "connect" => ~Settled(session[s].loop[l].on)
    /\ agent.on # 0 => ~Settled(agent.on)

Answered ==
    \/ \E p \in DOMAIN clients.promise : Resolve(p) \/ Reject(p)
    \/ /\ \E s \in Sessions, l \in Loops : ManifestCame(s, l) \/ WatchOpened(s, l)
       /\ UNCHANGED <<usable, agent, deaths, submits, calls>>

Timer ==
    /\ \E s \in Sessions : DialAgain(s) \/ ReviveAgain(s) \/ EnsureLive(s)
    /\ UNCHANGED <<usable, agent, faults, deaths, submits, calls>>

Event ==
    \/ \E p \in DOMAIN clients.promise : ConnectionDies(p)
    \/ \E s \in Sessions : Mount(s) \/ Unmount(s) \/ \E p \in session[s].watched : WatchFrame(s, p)
    \/ \E s \in Sessions, e \in Entered : submitPassword(s, e)
    \/ \E e \in Passed : Call(e)

Progress == Microtask \/ (Idle /\ (Answered \/ Timer))

Next == Progress \/ (Idle /\ Event)

Spec == Init /\ [][Next]_vars

-----------------------------------------------------------------------------

SessionTypeOK ==
    /\ clients.cache \in 0 .. Len(clients.promise)
    /\ \A p \in DOMAIN clients.promise :
        /\ Promise(p).state \in {"pending", "ok", "failed", "refused", "unusable"}
        /\ Promise(p).slot \in {"none", "Joined", "Left"}
        /\ Promise(p).password \in Entered \cup {0}
    /\ \A s \in Sessions :
        /\ session[s].phase \in {"none", "connecting", "ready", "needs-password", "failed", "gone"}
        /\ {session[s].pending, session[s].client, session[s].retiring}
               \subseteq 0 .. Len(clients.promise)
        /\ \A l \in Loops : session[s].loop[l].pc # "off" => session[s].loop[l].on # 0
    /\ remembered \in Entered \cup {0}
    /\ {agent.entry, agent.on} \subseteq 0 .. Len(clients.promise)

(* A client that left the mesh, or that will leave as soon as it is up, is   *)
(* never handed out again: it could not rejoin.  lib/client, release.        *)
CacheHoldsNoLeftClient ==
    clients.cache # 0 =>
        Promise(clients.cache).slot # "Left" /\ ~Promise(clients.cache).leaving

(* While a mounted session revives, the dying client goes on serving the     *)
(* others: it is told to leave only once its replacement is up.              *)
RevivalKeepsServing ==
    \A s \in Sessions :
        Live(s) /\ session[s].loop["revival"].pc # "off" =>
            LET retiring == Promise(session[s].retiring)
            IN  retiring.slot # "Left" /\ ~retiring.leaving

(* A session at the password gate has nothing left to dial with: a reload    *)
(* would ask again and not retry what was refused.                           *)
GateForgetsThePassword ==
    \A s \in Sessions :
        Live(s) /\ session[s].phase = "needs-password" =>
            session[s].password = 0 /\ remembered = 0

(* What sessions share through the cache of clients is kept in order.        *)
SessionsAreOrderly ==
    SessionTypeOK /\ CacheHoldsNoLeftClient /\ RevivalKeepsServing /\ GateForgetsThePassword

Waiting(s) ==
    Live(s) /\ session[s].password = Password
            /\ session[s].phase \notin {"needs-password", "failed"}
Shown(s) == session[s].phase = "ready" /\ ~Promise(session[s].client).closed

(* An open tab keeps trying: once nothing fails any more, a mounted session  *)
(* that holds the password shows a client whose connection is alive, unless  *)
(* the ticket is no good or it has asked for a password again.               *)
OpenSessionsComeUp ==
    \A s \in Sessions : <>[]Waiting(s) => <>[]Shown(s)

===============================================================================
