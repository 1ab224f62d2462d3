------------------------------- MODULE Mirror -------------------------------
(***************************************************************************)
(* `agent-share mirror`: copying a share to disk so that it can be served  *)
(* again (agent-share/src/mount/mirror.rs), run more than once into the    *)
(* same folder, interrupted anywhere, while the producer's tree moves and  *)
(* its process restarts.                                                   *)
(*                                                                         *)
(* A life is one run of the producer: it mints a secret, a creator's key   *)
(* and versions of its own, and a ticket names one life.  What a life owns *)
(* is stood for by its number.                                             *)
(***************************************************************************)
EXTENDS LiveTree

CONSTANTS
    SizeOf,             \* SizeOf[stamp]: the length a stamp records
    Selections,         \* the sets of paths a run may be asked for (--only)
    PasswordMayChange,  \* whether a restarted share may gain or lose a password
    MaxRestarts,        \* bound: restarts of the producer
    MaxCrashes,         \* bound: runs interrupted
    MaxRuns             \* bound: runs begun

ASSUME MirrorAssumption ==
    /\ SizeOf \in [Stamps -> Nat \ {0}]
    /\ Selections \subseteq SUBSET FilePaths
    /\ PasswordMayChange \in BOOLEAN
    /\ MaxRestarts \in Nat /\ MaxCrashes \in Nat /\ MaxRuns \in Nat

VARIABLES
    life,       \* which run of the producer this is
    protected,  \* this life asks for a password
    side,       \* the sidecar's files, each as the life that wrote it, 0 for none
    copy,       \* copy[p]: the file under the destination, and how much of it
    run,        \* the mirror process
    crashes,
    runs,
    settled     \* history variable: the origin has rested since the run began

lifeVars == <<life, protected>>
mirrorVars == <<side, copy, run, crashes, runs, settled>>
copyingVars == <<vars, lifeVars, mirrorVars>>

NoEnvelope == [version |-> 0]
Torn == [version |-> 0, torn |-> TRUE]  \* origin.manifest, opened and not yet written
NoFile == [stamp |-> 0, size |-> 0]

NotRunning == [pc |-> "idle", life |-> 0, protected |-> FALSE, wanted |-> {},
               held |-> NoEnvelope, slot |-> 0, row |-> 0]

MirrorInit ==
    /\ Init
    /\ life = 1 /\ protected = TRUE  \* a later life may have no password
    /\ side = [manifest |-> NoEnvelope, secret |-> 0, author |-> 0, auth |-> 0]
    /\ copy = [p \in FilePaths |-> NoFile]
    /\ run = NotRunning
    /\ crashes = 0 /\ runs = 0
    /\ settled = FALSE

\* The producer is stopped and served again: the secret, the creator's key and
\* the slots are minted anew (produce.rs, serve).
Restart ==
    /\ life <= MaxRestarts
    /\ life' = life + 1
    /\ protected' \in IF PasswordMayChange THEN BOOLEAN ELSE {protected}
    /\ watching' = FALSE /\ pending' = FALSE
    /\ task' = "waiting" /\ scanned' = NoScan
    /\ \E ds \in Listings(PresentDirs(disk)), fs \in Listings(PresentFiles(disk)) :
        /\ tree' = [dirs |-> Entries(disk.dirs, ds), files |-> Entries(disk.files, fs)]
        /\ served' = fs
        /\ index_of' = [p \in FilePaths |->
                          IF p \in PresentFiles(disk)
                          THEN CHOOSE i \in DOMAIN fs : fs[i] = p ELSE 0]
    /\ ManifestSize(tree') <= MaxManifest
    /\ version' = 1 /\ log' = <<tree'>>
    /\ history' = << >> /\ frames' = << >> /\ sent' = 0
    /\ settled' = FALSE
    /\ UNCHANGED <<diskVars, failures, side, copy, run, crashes, runs>>

\* The producer goes on: what it does while a run is under way unsettles it.
OriginStep ==
    /\ Next
    /\ settled' = (settled /\ UNCHANGED <<diskVars, treeVars>>)
    /\ UNCHANGED <<lifeVars, side, copy, run, crashes, runs>>

-----------------------------------------------------------------------------

Go(change) == run' = change
Fail == Go([run EXCEPT !.pc = "failed"])

\* The endpoint the ticket names answers: it died with its life.
Reachable == run.life = life

\* fetch_manifest_for: a sidecar that decodes is caught up, none or a torn one
\* is not.
Begin(wanted) ==
    /\ run.pc \in {"idle", "done", "failed"} /\ runs < MaxRuns
    /\ runs' = runs + 1
    /\ settled' = Published
    /\ Go([NotRunning EXCEPT
             !.pc = IF side.manifest.version > 0 THEN "since" ELSE "whole",
             !.life = life, !.protected = protected, !.wanted = wanted,
             !.held = IF side.manifest.version > 0 THEN side.manifest ELSE NoEnvelope])
    /\ UNCHANGED <<vars, lifeVars, side, copy, crashes>>

\* What apply_since rebuilds from what the sidecar holds.
CaughtUp ==
    [version   |-> version,
     signature |-> DeltasSince(run.held.version).signature,
     manifest  |-> ApplyChain(run.held.manifest, DeltasSince(run.held.version).deltas)]

\* Mutant: an answer that does not verify is asked for again.
SinceAgain ==
    /\ run.pc = "since"
    /\ IF Reachable /\ CanAnswer(run.held.version)
       THEN IF Acceptable(CaughtUp, run.held.version)
            THEN Go([run EXCEPT !.pc = "record", !.held = CaughtUp])
            ELSE UNCHANGED run
       ELSE Go([run EXCEPT !.pc = "whole", !.held = NoEnvelope])
    /\ UNCHANGED <<vars, lifeVars, side, copy, crashes, runs, settled>>

\* OP_MANIFEST_SINCE: no answer, or one that does not rebuild what the creator
\* signed, falls back to the whole manifest.
Since ==
    /\ run.pc = "since"
    /\ IF Reachable /\ CanAnswer(run.held.version)
             /\ Acceptable(CaughtUp, run.held.version)
             /\ ManifestSize(CaughtUp.manifest) <= MaxManifest
       THEN Go([run EXCEPT !.pc = "record", !.held = CaughtUp])
       ELSE Go([run EXCEPT !.pc = "whole", !.held = NoEnvelope])
    /\ UNCHANGED <<vars, lifeVars, side, copy, crashes, runs, settled>>

\* OP_MANIFEST: native readers accept any version, from a floor of 0.
Whole ==
    /\ run.pc = "whole"
    /\ IF Reachable /\ Acceptable(Envelope, 0) /\ ManifestSize(tree) <= MaxManifest
       THEN Go([run EXCEPT !.pc = "record", !.held = Envelope])
       ELSE Fail
    /\ UNCHANGED <<vars, lifeVars, side, copy, crashes, runs, settled>>

-----------------------------------------------------------------------------

\* The sidecar is written before a byte of content, one file after another, and
\* each is emptied before it is written.
OpenSidecar ==
    /\ run.pc = "record"
    /\ side' = [side EXCEPT !.manifest = Torn]
    /\ Go([run EXCEPT !.pc = "manifest"])
    /\ UNCHANGED <<vars, lifeVars, copy, crashes, runs, settled>>

WriteManifest ==
    /\ run.pc = "manifest"
    /\ side' = [side EXCEPT !.manifest = run.held]
    /\ Go([run EXCEPT !.pc = "secret"])
    /\ UNCHANGED <<vars, lifeVars, copy, crashes, runs, settled>>

WriteSecret ==
    /\ run.pc = "secret"
    /\ side' = [side EXCEPT !.secret = run.life]
    /\ Go([run EXCEPT !.pc = "author"])
    /\ UNCHANGED <<vars, lifeVars, copy, crashes, runs, settled>>

\* Only what the ticket has: a creator's key, a password's token and mesh id.
\* What an earlier share left there stays.
WriteAuthor ==
    /\ run.pc = "author"
    /\ side' = [side EXCEPT !.author = IF Signed THEN run.life ELSE @,
                            !.auth = IF run.protected THEN run.life ELSE @]
    /\ Go([run EXCEPT !.pc = "next"])
    /\ UNCHANGED <<vars, lifeVars, copy, crashes, runs, settled>>

-----------------------------------------------------------------------------

Listed(m) == {i \in DOMAIN m.files : m.files[i] # Tombstone}
PathAt(m, i) == m.files[i].path

\* Mutant: a file that is already there at its size is not fetched again.
SkippingWanted(i) ==
    PathAt(run.held.manifest, i) \in run.wanted
        /\ copy[PathAt(run.held.manifest, i)].size
              # SizeOf[run.held.manifest.files[i].stamp]

Wanted(i) == PathAt(run.held.manifest, i) \in run.wanted

\* The slots in order, tombstones and what was not asked for passed over.
NextFile ==
    /\ run.pc = "next"
    /\ LET left == {i \in Listed(run.held.manifest) : i > run.slot /\ Wanted(i)}
       IN  IF left = {} THEN Go([run EXCEPT !.pc = "done"])
           ELSE Go([run EXCEPT !.pc = "row",
                               !.slot = CHOOSE i \in left : \A j \in left : i <= j])
    /\ UNCHANGED <<vars, lifeVars, side, copy, crashes, runs, settled>>

\* What the producer addresses at a slot now: the file it opens, as it is on
\* disk, scanned or not.
OriginRow(i) ==
    IF Reachable /\ i \in DOMAIN served /\ served[i] # 0 THEN disk.files[served[i]] ELSE 0

\* fetch_whole, first half: the row.  A slot without one cannot be read either.
AskRow ==
    /\ run.pc = "row"
    /\ IF OriginRow(run.slot) = 0 THEN Fail
       ELSE Go([run EXCEPT !.pc = "bytes", !.row = OriginRow(run.slot)])
    /\ UNCHANGED <<vars, lifeVars, side, copy, crashes, runs, settled>>

\* Second half: every chunk is checked against the row, so the last of them
\* arrives only while the file still has that content.
FetchBytes ==
    /\ run.pc = "bytes"
    /\ IF OriginRow(run.slot) = run.row THEN Go([run EXCEPT !.pc = "open"]) ELSE Fail
    /\ UNCHANGED <<vars, lifeVars, side, copy, crashes, runs, settled>>

Path == PathAt(run.held.manifest, run.slot)

\* write_file empties the file, then writes it: an interrupted run leaves any
\* prefix of it.
OpenFile ==
    /\ run.pc = "open"
    /\ \E n \in 0..SizeOf[run.row] - 1 :
          copy' = [copy EXCEPT ![Path] = [stamp |-> run.row, size |-> n]]
    /\ Go([run EXCEPT !.pc = "write"])
    /\ UNCHANGED <<vars, lifeVars, side, crashes, runs, settled>>

WriteFile ==
    /\ run.pc = "write"
    /\ copy' = [copy EXCEPT ![Path] = [stamp |-> run.row, size |-> SizeOf[run.row]]]
    /\ Go([run EXCEPT !.pc = "check"])
    /\ UNCHANGED <<vars, lifeVars, side, crashes, runs, settled>>

\* record: the origin's row is asked for once more.  A peer that has none now
\* leaves the file unverified; another row ends the run, the file written.
\* Losing the connection ends it too.
Record ==
    /\ run.pc = "check"
    /\ IF Reachable /\ OriginRow(run.slot) \in {0, run.row}
       THEN Go([run EXCEPT !.pc = "next"]) ELSE Fail
    /\ UNCHANGED <<vars, lifeVars, side, copy, crashes, runs, settled>>

\* The process is killed: what is on disk stays as it is.
Crash ==
    /\ run.pc \notin {"idle", "done", "failed"} /\ crashes < MaxCrashes
    /\ crashes' = crashes + 1
    /\ Go(NotRunning)
    /\ UNCHANGED <<vars, lifeVars, side, copy, runs, settled>>

-----------------------------------------------------------------------------

RunStep ==
    \/ Since \/ Whole \/ OpenSidecar \/ WriteManifest \/ WriteSecret \/ WriteAuthor
    \/ NextFile \/ AskRow \/ FetchBytes \/ OpenFile \/ WriteFile \/ Record

MirrorNext ==
    \/ OriginStep \/ Restart
    \/ \E wanted \in Selections : Begin(wanted)
    \/ RunStep \/ Crash

MirrorSpec == MirrorInit /\ [][MirrorNext]_copyingVars

\* A run is one sequential task whose calls are answered or time out.
FairMirrorSpec == MirrorSpec /\ WF_copyingVars(RunStep)

-----------------------------------------------------------------------------

\* LiveTree::mirrored: what `serve` on the copy would answer READ with, the
\* slots whose file is there at the size the manifest lists.
CopyServes ==
    LET m == side.manifest.manifest
    IN  {i \in Listed(m) : copy[PathAt(m, i)].size = SizeOf[m.files[i].stamp]}

Exact(m, i) == copy[PathAt(m, i)] =
    [stamp |-> m.files[i].stamp, size |-> SizeOf[m.files[i].stamp]]

\* A difference is applied to a manifest that may come from another life of the
\* share, whose versions mean something else: what a run goes on with is what
\* this life published under that version, to the byte.
RunsHoldAPublishedManifest ==
    run.pc = "record" /\ run.life = life =>
        /\ run.held.version \in DOMAIN log
        /\ run.held.manifest = log[run.held.version]

\* Whatever earlier runs left behind, a run that ends well, with the producer at
\* rest since it began, leaves a sidecar that speaks for that one share and
\* every file it was asked for, whole and current, ready to be served.
CompletedCopiesAreExact ==
    run.pc = "done" /\ settled =>
        /\ side.manifest = Envelope
        /\ side.secret = life
        /\ side.author = (IF Signed THEN life ELSE 0)
        /\ side.auth = (IF protected THEN life ELSE 0)
        /\ \A i \in Listed(tree) : PathAt(tree, i) \in run.wanted =>
               Exact(tree, i) /\ i \in CopyServes

\* "A copy left half-written by an interrupted run must not be able to stop a
\* later one from working" (mirror.rs, fetch_manifest_for): with the producer at
\* rest no run fails over the sidecar and the files an earlier one left.  A path is
\* here a file for ever: one that turns into a directory is not among its cases.
RestingSharesAreMirrored == run.pc = "failed" => ~settled

\* Every run ends.
RunsEnd == run.pc \notin {"idle", "done", "failed"} ~> run.pc \in {"idle", "done", "failed"}

\* Runs, one after another over what the last one left, through restarts of the
\* share, hold what was published, and end with an exact copy or for a reason.
CopiesAreExact ==
    RunsHoldAPublishedManifest /\ CompletedCopiesAreExact /\ RestingSharesAreMirrored
=============================================================================
