-------------------------- MODULE BootEnvironment ---------------------------
(***************************************************************************)
(* The boot environment manager: src/internal/bootenv.  A boot environment *)
(* is fetched and verified into a directory named after the second it was  *)
(* begun in, then published: the links the PXE server hands out are moved  *)
(* one by one, then the link "current".  Requests start a fetch in the     *)
(* background (StartEnsure, StartRebuild) or wait for one (Ensure).        *)
(*                                                                         *)
(* Steps under the manager's mutex and single file operations are atomic;  *)
(* every operation may fail, and the process may die between any two.      *)
(***************************************************************************)
EXTENDS Naturals, FiniteSets

CONSTANTS
    Workers,      \* concurrent requests, each with the fetch it may run
    MaxSeconds,   \* bound on the clock
    MaxFetches,   \* bound on fetches
    MaxLosses     \* bound on failed operations and crashes

ASSUME BEAssumption == MaxSeconds \in Nat \ {0}

VARIABLES
    second,       \* the clock
    phase,        \* statuses: "none", "building", "error" or "ready"
    running,      \* the entries in running and done (set and deleted together)
    worker,       \* what each request does
    dirs,         \* the files in the artifact directories, by second
    links,        \* where the three PXE links point (0: nowhere)
    current,      \* where "current" points (0: nowhere)
    fetches, losses,
    botched       \* a failure undid what had been published already (history)

beVars == <<second, phase, running, worker, dirs, links, current, fetches, losses, botched>>
disk_ == <<dirs, links, current>>
clocks == <<second, fetches, losses>>

Files == 1..3      \* boot-kernel, boot-initrd, rootfs.squashfs
Empty_ == [f \in Files |-> "none"]
(* A request: where it is, its directory, whether it waits, the artifacts   *)
(* it has still to fetch.                                                   *)
Resting == [at |-> "idle", id |-> 0, waits |-> FALSE, left |-> Files]

BEInit ==
    /\ second = 1
    /\ phase = "none" /\ running = FALSE
    /\ worker = [w \in Workers |-> Resting]
    /\ dirs = [s \in 1..MaxSeconds |-> Empty_]
    /\ links = [f \in Files |-> 0] /\ current = 0
    /\ fetches = 0 /\ losses = 0 /\ botched = FALSE

Moves(w, at) == worker' = [worker EXCEPT ![w].at = at]
Published(id) == id = current \/ \E f \in Files : links[f] = id
Loss == losses < MaxLosses /\ losses' = losses + 1

(* currentArtifactDir: the link resolves and all files are there. *)
OnDisk == current # 0 /\ \A f \in Files : dirs[current][f] # "none"
(* Status *)
StatusNow == IF phase # "none" /\ (running \/ phase = "error") THEN phase
             ELSE IF OnDisk THEN "ready" ELSE "missing"

-----------------------------------------------------------------------------
Fetching(w) == worker[w].at \notin {"idle", "checked", "waiting", "woken"}

(* StartEnsure and Ensure look at the status first, without holding on to   *)
(* the mutex; StartRebuild does not.                                        *)
CheckStatus_(w, waits) ==
    /\ worker[w].at = "idle"
    /\ StatusNow # "ready"
    /\ worker' = [worker EXCEPT ![w] = [Resting EXCEPT !.at = "checked", !.waits = waits]]
    /\ UNCHANGED <<phase, running, disk_, clocks, botched>>
(* Bug: a request does not look whether a fetch is running. *)
AlwaysFree == TRUE
NoneRunning == ~running
Begin_(w, waits) ==
    /\ NoneRunning
    /\ fetches < MaxFetches
    /\ fetches' = fetches + 1
    /\ phase' = "building" /\ running' = TRUE
    /\ worker' = [worker EXCEPT ![w] = [Resting EXCEPT !.at = "manifest", !.id = second, !.waits = waits]]
    /\ UNCHANGED <<second, disk_, losses, botched>>
StartBuild(w) == worker[w].at = "checked" /\ Begin_(w, worker[w].waits)
StartRebuild(w) == worker[w].at = "idle" /\ Begin_(w, FALSE)
(* Somebody else's fetch is running: Ensure waits for it, a start returns.  *)
Joins(w) ==
    /\ worker[w].at = "checked" /\ running
    /\ Moves(w, IF worker[w].waits THEN "waiting" ELSE "idle")
    /\ UNCHANGED <<phase, running, disk_, clocks, botched>>
(* The fetch waited for has ended: its channel is closed. *)
Wakes(w) ==
    /\ worker[w].at = "woken"
    /\ Moves(w, IF StatusNow \in {"ready", "error"} THEN "idle" ELSE "checked")
    /\ UNCHANGED <<phase, running, disk_, clocks, botched>>
GivesUp(w) ==
    /\ worker[w].at = "waiting"
    /\ Loss
    /\ Moves(w, "idle")
    /\ UNCHANGED <<second, phase, running, disk_, fetches, botched>>

-----------------------------------------------------------------------------
(* fetchPrebuilt: manifest, then each artifact and its checksum and size.   *)
ReadManifest(w) ==
    /\ worker[w].at = "manifest"
    /\ Moves(w, "download")
    /\ UNCHANGED <<phase, running, disk_, clocks, botched>>
(* An artifact is written aside and renamed; the file it replaces is there  *)
(* only when a fetch of the same second made one.                           *)
Download(w) ==
    LET id == worker[w].id IN
    /\ worker[w].at = "download"
    /\ \E f \in worker[w].left, content \in {"good", "bad"} :
          /\ dirs' = [dirs EXCEPT ![id][f] = content]
          /\ botched' = (botched \/ (content = "bad" /\ Published(id)))
          /\ worker' = [worker EXCEPT ![w].at = "verify", ![w].left = @ \ {f}]
    /\ UNCHANGED <<phase, running, links, current, clocks>>
(* Bug: the checksums are not compared. *)
Unverified(d, fetched) == TRUE
(* verifySHA256 and the size: "bad" is a content that the manifest does not *)
(* allow.  A checksum that is only the prefix "sha256:" allows any content. *)
VerifySHA256(d, fetched) == \A f \in fetched : d[f] # "bad"
Verify(w) ==
    /\ worker[w].at = "verify"
    /\ Moves(w, IF ~VerifySHA256(dirs[worker[w].id], Files \ worker[w].left) THEN "failed"
                ELSE IF worker[w].left # {} THEN "download" ELSE "link")
    /\ UNCHANGED <<phase, running, disk_, clocks, botched>>
(* publishPXECompatibilityFiles moves one link after the other... *)
PublishLink(w) ==
    LET f == CHOOSE g \in Files : links[g] # worker[w].id /\ \A h \in Files : h < g => links[h] = worker[w].id IN
    /\ worker[w].at = "link"
    /\ IF \A g \in Files : links[g] = worker[w].id
       THEN Moves(w, "current") /\ UNCHANGED links
       ELSE links' = [links EXCEPT ![f] = worker[w].id] /\ UNCHANGED worker
    /\ UNCHANGED <<phase, running, dirs, current, clocks, botched>>
(* ...and publishCurrent moves "current" and writes a status file.          *)
PublishCurrent(w) ==
    /\ worker[w].at = "current"
    /\ current' = worker[w].id
    /\ Moves(w, "status")
    /\ UNCHANGED <<phase, running, dirs, links, clocks, botched>>
WriteStatusFile(w) ==
    /\ worker[w].at = "status"
    /\ Moves(w, "published")
    /\ UNCHANGED <<phase, running, disk_, clocks, botched>>
(* Any of these operations fails, the validation of the manifest included;  *)
(* before there is a directory the fetch has nothing to clean up.           *)
OperationFails(w) ==
    /\ worker[w].at \in {"manifest", "download", "verify", "link", "current", "status"}
    /\ Loss
    /\ Moves(w, IF worker[w].at = "manifest" THEN "error" ELSE "failed")
    /\ UNCHANGED <<second, phase, running, disk_, fetches, botched>>
(* A fetch that failed removes its directory, also when links point to it.  *)
CleanUp(w) ==
    LET id == worker[w].id IN
    /\ worker[w].at = "failed"
    /\ dirs' = [dirs EXCEPT ![id] = Empty_]
    /\ botched' = (botched \/ Published(id))
    /\ Moves(w, "error")
    /\ UNCHANGED <<phase, running, links, current, clocks>>
(* finishBuild: the entries go, and closing the channel wakes who waits.    *)
FinishBuild(w) ==
    /\ worker[w].at \in {"published", "error"}
    /\ phase' = IF worker[w].at = "error" THEN "error" ELSE "ready"
    /\ running' = FALSE
    /\ worker' = [v \in Workers |-> IF v = w THEN Resting
                                    ELSE IF worker[v].at = "waiting" THEN [worker[v] EXCEPT !.at = "woken"]
                                    ELSE worker[v]]
    /\ UNCHANGED <<disk_, clocks, botched>>

(* The process dies and starts again; the directories and links remain.     *)
Crash ==
    /\ Loss
    /\ phase' = "none" /\ running' = FALSE
    /\ worker' = [w \in Workers |-> Resting]
    /\ UNCHANGED <<second, disk_, fetches, botched>>
NextSecond ==
    /\ second < MaxSeconds
    /\ second' = second + 1
    /\ UNCHANGED <<phase, running, worker, disk_, fetches, losses, botched>>

FetchStep(w) == ReadManifest(w) \/ Download(w) \/ Verify(w) \/ PublishLink(w) \/ PublishCurrent(w)
                    \/ WriteStatusFile(w) \/ CleanUp(w) \/ FinishBuild(w)
BENext ==
    \/ \E w \in Workers : \/ \E waits \in BOOLEAN : CheckStatus_(w, waits)
                          \/ StartBuild(w) \/ StartRebuild(w) \/ Joins(w) \/ Wakes(w) \/ GivesUp(w)
                          \/ FetchStep(w) \/ OperationFails(w)
    \/ Crash \/ NextSecond
BESpec == BEInit /\ [][BENext]_beVars

-----------------------------------------------------------------------------
(* One fetch runs at a time: two would write the same directory and move    *)
(* the same links.                                                          *)
OneFetch == Cardinality({w \in Workers : Fetching(w)}) <= 1

(* What "current" and the PXE links point to is there and verified, while a *)
(* rebuild runs, when it fails and after a crash.  The exceptions are a     *)
(* fetch that fails after it moved a link, or was begun in the same second  *)
(* as the one published: it removes or spoils the files under the links.    *)
PublishedIsWhole ==
    botched \/ (/\ current # 0 => \A f \in Files : dirs[current][f] = "good"
                /\ \A f \in Files : links[f] # 0 => dirs[links[f]][f] = "good")
=============================================================================
