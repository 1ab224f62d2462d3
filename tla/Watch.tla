-------------------------------- MODULE Watch --------------------------------
(***************************************************************************)
(* Mounts following a producer's tree: OP_WATCH from the producer's        *)
(* broadcast (agent-share/src/mount/source.rs, agent-share-mount's serve   *)
(* loop) to the tree each mount shows (consume.rs, `watch_tree`).          *)
(*                                                                         *)
(* The producer's half of a stream is a cursor into the broadcast ring and *)
(* a `feed` phase; the ring keeps the last Backlog frames.  The frames in  *)
(* `wire` are in flight on one ordered QUIC stream.                        *)
(***************************************************************************)
EXTENDS LiveTree

CONSTANTS
    Mounts,    \* the mounts following the share
    Backlog,   \* UPDATE_BACKLOG, the broadcast ring's capacity
    WireCap,   \* bound: frames a stream buffers before the writer waits
    MaxLosses  \* bound: connections lost

ASSUME WatchAssumption ==
    Backlog \in Nat \ {0} /\ WireCap \in Nat \ {0} /\ MaxLosses \in Nat

VARIABLES
    feed,    \* feed[m]: "none", "opening" (subscribed, opening not written), "live"
    cursor,  \* cursor[m]: frames the stream's receiver has taken or skipped
    wire,    \* wire[m]: frames written and not yet read by the mount
    link,    \* link[m]: "detached", "retrying", "following", "ended"
    held,    \* held[m]: the signed manifest the mount last accepted
    losses

watchVars == <<feed, cursor, wire, link, held, losses>>
allVars == <<vars, watchVars>>

Nothing == [version |-> 0, signature |-> NoSignature,
            manifest |-> [dirs |-> << >>, files |-> << >>]]

WatchInit ==
    /\ Init
    /\ feed = [m \in Mounts |-> "none"]
    /\ cursor = [m \in Mounts |-> 0]
    /\ wire = [m \in Mounts |-> << >>]
    /\ link = [m \in Mounts |-> "detached"]
    /\ held = [m \in Mounts |-> Nothing]
    /\ losses = 0

\* attach: OP_MANIFEST is fetched, capped and verified before anything is mounted.
Attach(m) ==
    /\ link[m] = "detached"
    /\ ManifestSize(tree) <= MaxManifest /\ Acceptable(Envelope, 0)
    /\ held' = [held EXCEPT ![m] = Envelope]
    /\ link' = [link EXCEPT ![m] = "retrying"]
    /\ UNCHANGED <<vars, feed, cursor, wire, losses>>

\* follow_watch_stream opens a stream and the producer subscribes to the
\* broadcast: the receiver starts after the newest frame sent.
Subscribe(m) ==
    /\ link[m] = "retrying"
    /\ link' = [link EXCEPT ![m] = "following"]
    /\ feed' = [feed EXCEPT ![m] = "opening"]
    /\ cursor' = [cursor EXCEPT ![m] = sent]
    /\ UNCHANGED <<vars, wire, held, losses>>

\* opening_frame(): the whole signed manifest as it is now, on a new stream and
\* again after a lag.
WriteOpening(m) ==
    /\ feed[m] = "opening" /\ Len(wire[m]) < WireCap
    /\ wire' = [wire EXCEPT ![m] = Append(@, ManifestFrame(Envelope))]
    /\ feed' = [feed EXCEPT ![m] = "live"]
    /\ UNCHANGED <<vars, cursor, link, held, losses>>

Oldest == IF sent > Backlog THEN sent - Backlog ELSE 0

\* Mutant: a lagging receiver goes on with the frames still retained, with no
\* whole manifest in between.
WriteFrameIgnoringLag(m) ==
    /\ feed[m] = "live" /\ Len(wire[m]) < WireCap /\ cursor[m] < sent
    /\ LET from == IF cursor[m] < Oldest THEN Oldest ELSE cursor[m]
       IN  /\ wire' = [wire EXCEPT ![m] = Append(@, frames[from + 1])]
           /\ cursor' = [cursor EXCEPT ![m] = from + 1]
    /\ UNCHANGED <<vars, feed, link, held, losses>>

\* TreeWatcher::recv yields the next retained frame.
WriteFrame(m) ==
    /\ feed[m] = "live" /\ Len(wire[m]) < WireCap
    /\ cursor[m] >= Oldest /\ cursor[m] < sent
    /\ wire' = [wire EXCEPT ![m] = Append(@, frames[cursor[m] + 1])]
    /\ cursor' = [cursor EXCEPT ![m] = @ + 1]
    /\ UNCHANGED <<vars, feed, link, held, losses>>

\* Mutant: a lag ends the stream, as a closed broadcast does.
LagEnds(m) ==
    /\ feed[m] = "live" /\ cursor[m] < Oldest
    /\ feed' = [feed EXCEPT ![m] = "none"]
    /\ UNCHANGED <<vars, cursor, wire, link, held, losses>>

\* The receiver fell out of the ring: it resumes at the oldest frame retained
\* and the whole manifest is resent first.
Lag(m) ==
    /\ feed[m] = "live" /\ cursor[m] < Oldest
    /\ cursor' = [cursor EXCEPT ![m] = Oldest]
    /\ feed' = [feed EXCEPT ![m] = "opening"]
    /\ UNCHANGED <<vars, wire, link, held, losses>>

\* A watch frame's length against MAX_MANIFEST_BYTES: a whole manifest travels
\* behind its kind byte, version and signature, counted here as one entry.  A
\* delta is far below the cap.
FrameFits(frame) ==
    frame.kind = "manifest" => ManifestSize(frame.signed.manifest) + 1 <= MaxManifest

\* Mutant: a delta is applied unconditionally, with no version or signature
\* check.
ReceiveUnchecked(m) ==
    /\ wire[m] # << >> /\ FrameFits(Head(wire[m]))
    /\ held' = [held EXCEPT ![m] = Offered(@, Head(wire[m]))]
    /\ wire' = [wire EXCEPT ![m] = Tail(@)]
    /\ UNCHANGED <<vars, feed, cursor, link, losses>>

\* One frame is read, verified and applied; a refused frame is skipped.  The
\* mounted tree is rebuilt from what is then held.
Receive(m) ==
    /\ wire[m] # << >> /\ FrameFits(Head(wire[m]))
    /\ held' = [held EXCEPT ![m] = ApplyWatchFrame(@, Head(wire[m]))]
    /\ wire' = [wire EXCEPT ![m] = Tail(@)]
    /\ UNCHANGED <<vars, feed, cursor, link, losses>>

\* The header names a length past the cap: the stream is abandoned and asked
\* for again.
RefuseLength(m) ==
    /\ wire[m] # << >> /\ ~FrameFits(Head(wire[m]))
    /\ link' = [link EXCEPT ![m] = "retrying"]
    /\ wire' = [wire EXCEPT ![m] = << >>]
    /\ feed' = [feed EXCEPT ![m] = "none"]
    /\ UNCHANGED <<vars, cursor, held, losses>>

\* The connection drops: frames in flight are lost.  Inside a frame the read
\* is an error and the stream is asked for again; between two frames it reads
\* as a clean end, and watch_tree returns.
Lose(m) ==
    /\ link[m] = "following" /\ losses < MaxLosses
    /\ losses' = losses + 1
    /\ wire' = [wire EXCEPT ![m] = << >>]
    /\ feed' = [feed EXCEPT ![m] = "none"]
    /\ \E after \in {"retrying", "ended"} : link' = [link EXCEPT ![m] = after]
    /\ UNCHANGED <<vars, cursor, held>>

Follow(m) ==
    Attach(m) \/ Subscribe(m) \/ WriteOpening(m) \/ WriteFrame(m) \/ Lag(m)
        \/ Receive(m) \/ RefuseLength(m)

WatchNext ==
    \/ Next /\ UNCHANGED watchVars
    \/ \E m \in Mounts : Follow(m) \/ Lose(m)

WatchSpec == WatchInit /\ [][WatchNext]_allVars

\* Both ends run one task per stream on a multi-threaded runtime, and a live
\* connection delivers what is written to it.  Losses are not owed.
WatchFairness ==
    /\ WF_allVars((StartWatcher \/ Settle \/ Scan \/ Apply \/ Send) /\ UNCHANGED watchVars)
    /\ \A m \in Mounts :
        /\ WF_allVars(Attach(m) \/ Subscribe(m))
        /\ WF_allVars(WriteOpening(m) \/ WriteFrame(m) \/ Lag(m))
        /\ WF_allVars(Receive(m) \/ RefuseLength(m))

FairWatchSpec == WatchSpec /\ WatchFairness

-----------------------------------------------------------------------------

\* The watch state is well formed, and no stream reads past what was sent.
WatchTypeOK ==
    /\ feed \in [Mounts -> {"none", "opening", "live"}]
    /\ cursor \in [Mounts -> 0..sent]
    /\ link \in [Mounts -> {"detached", "retrying", "following", "ended"}]
    /\ \A m \in Mounts : Len(wire[m]) <= WireCap /\ held[m].version \in 0..version
    /\ losses \in Nat

\* Whatever was lost, resent, or delivered twice, the tree a mount shows is the
\* one the producer published under that version: same slots, same entries.
MountShowsAPublishedTree ==
    \A m \in Mounts : held[m].version > 0 =>
        SameContent(held[m].manifest, log[held[m].version])

\* The part of it that READ addresses: slot by slot, the files a mount lists are
\* those of the version it holds.
MountSlotsArePublished ==
    \A m \in Mounts : held[m].version > 0 =>
        held[m].manifest.files = log[held[m].version].files

\* A delta is applied only where it belongs: the next frame in flight is a
\* whole manifest, or extends or repeats what the mount will hold by then.
NoFrameIsSkipped ==
    \A m \in Mounts : wire[m] # << >> /\ Head(wire[m]).kind = "delta" =>
        Head(wire[m]).version <= held[m].version + 1

\* What a watch owes its mount: live.rs and consume.rs keep the tree it shows one
\* that was published, whatever frames were lost, repeated or cut off.
MountsStayPublished ==
    WatchTypeOK /\ MountShowsAPublishedTree /\ MountSlotsArePublished /\ NoFrameIsSkipped

Content(m) == [files |-> m.files, dirs |-> EntriesOf(m.dirs)]

Promise == INSTANCE PublishedTree WITH
    Readers <- Mounts,
    trees <- [v \in DOMAIN log |-> Content(log[v])],
    shown <- [m \in Mounts |-> held[m].version],
    view  <- [m \in Mounts |-> Content(held[m].manifest)]

\* Following by differences implements the promise of PublishedTree: what a mount
\* shows is a published tree, whole, and moves forward only.
ImplementsPublishedTree == Promise!Spec

InStep(m) == SameContent(held[m].manifest, tree)

\* Once the tree rests, every mount whose watch task still runs shows it.
FollowersConverge == \A m \in Mounts : <>[](link[m] = "ended" \/ InStep(m))
=============================================================================
