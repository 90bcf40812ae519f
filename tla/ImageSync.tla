----------------------------- MODULE ImageSync ------------------------------
(***************************************************************************)
(* OS images and the agent that copies them to a hypervisor:               *)
(* src/internal/infra/api/osimage.go, src/internal/osimage and             *)
(* src/cmd/gomi-hypervisor.  An image is a row and a payload on the        *)
(* server's disk; operators create, upload, declare ready and delete       *)
(* images.  The agent lists the images page by page, downloads those that  *)
(* are ready and differ from the file it has, verifies them, marks its     *)
(* files and removes marked files of images that are no longer listed.     *)
(*                                                                         *)
(* Statements on a row and single file operations are atomic; the agent    *)
(* and the server may be interrupted between any two.                      *)
(***************************************************************************)
EXTENDS Naturals, FiniteSets

CONSTANTS
    NImages,      \* image names, in the order in which they are listed
    PageSize,     \* of a listing
    Contents,     \* what a payload may be; a checksum names one of them
    Forms,        \* how a checksum may be written: "plain", "upper", "padded"
    MaxEdits,     \* bound on operations of operators
    MaxBreaks     \* bound on interruptions

ASSUME ISAssumption ==
    NImages \in Nat \ {0} /\ PageSize \in Nat \ {0} /\ "plain" \in Forms

Images == 1..NImages

VARIABLES
    artifact,     \* the image has a manifest: the agent goes by the checksum of its
                  \* root and records it beside the file
    row,          \* the rows of os_images
    payload,      \* the images on the server's disk
    edit,         \* the operation on an image under way
    files,        \* the agent's directory: an image's file, recorded checksum, marker
    agent,        \* the sync under way
    edits, breaks,
    kept,         \* images that were ready all the time since the sync began (history)
    shifted,      \* a row was deleted during the listing                     (history)
    cut,          \* a file was replaced, and what is recorded of it was not  (history)
    spoiled       \* the cleanup removed the file of an image in kept         (history)

isVars == <<artifact, row, payload, edit, files, agent, edits, breaks, kept, shifted, cut, spoiled>>
images == <<row, payload, edit, edits>>
agents == <<files, agent, cut, spoiled>>
since == <<kept, shifted>>

(* A checksum names a content: in the lower-case digits that the agent      *)
(* compares, in upper case, or with blanks around it.                       *)
Sum_(c, form) == [of |-> c, form |-> form]
NoSum == Sum_("none", "plain")
Sums == [of : Contents, form : Forms] \cup {NoSum}
(* strings.TrimSpace, which artifactSourceChecksum calls *)
Trimmed(sum) == IF sum.form = "padded" THEN [sum EXCEPT !.form = "plain"] ELSE sum
Paths == {"none", "own", "other"}
(* A row: whether a local path is set and is the one the server writes to,  *)
(* the checksum of the image and that of its manifest's root.               *)
Row(ready, path, sum, root) == [exists |-> TRUE, ready |-> ready, path |-> path, sum |-> sum, root |-> root]
Created(sum, root) == Row(FALSE, "none", sum, root)
NoRow == [Row(FALSE, "none", NoSum, NoSum) EXCEPT !.exists = FALSE]
(* The checksum that the agent goes by. *)
AgentSum(i, r) == IF artifact[i] THEN Trimmed(r.root) ELSE r.sum
NoEdit == [at |-> "idle", img |-> 1, ready |-> FALSE, path |-> "none", read |-> NoRow]
NoFile_ == [content |-> "none", record |-> NoSum, marked |-> FALSE]
(* What the agent keeps of a listed image; page is the offset of its page.  *)
Item(page, i, sum) == [page |-> page, img |-> i, sum |-> sum]
NoItem == Item(0, 1, NoSum)
(* ready: the images listed; todo: the ones not yet looked at; cur: the one *)
(* being worked on; done: the ones found or brought up to date.             *)
NoSync == [at |-> "idle", offset |-> 0, ready |-> {}, todo |-> {}, cur |-> NoItem, done |-> {}]

ISInit ==
    /\ \E manifest \in BOOLEAN : artifact = [i \in Images |-> manifest]
    /\ \E c \in Contents, sum, root \in Sums :
          /\ sum.of \in {c, "none"}
          /\ row = [i \in Images |-> Row(TRUE, "own", sum, IF artifact[i] THEN root ELSE NoSum)]
          /\ payload = [i \in Images |-> c]
    /\ edit = NoEdit
    /\ files = [i \in Images |-> NoFile_]
    /\ agent = NoSync
    /\ edits = 0 /\ breaks = 0
    /\ kept = {} /\ shifted = FALSE /\ cut = FALSE /\ spoiled = FALSE

Break == breaks < MaxBreaks /\ breaks' = breaks + 1
Edit == edits < MaxEdits /\ edits' = edits + 1
(* Writing a row; what the sync under way can still rely on. *)
Sets(i, r) ==
    /\ row' = [row EXCEPT ![i] = r]
    /\ kept' = IF r.exists /\ r.ready THEN kept ELSE kept \ {i}
    /\ shifted' = (shifted \/ (row[i].exists /\ ~r.exists /\ agent.at = "list"))

-----------------------------------------------------------------------------
(* CreateOSImage writes over a row of that name.  A URL image is downloaded *)
(* by the same request.                                                     *)
CreateOSImage(i, sum, root, url) ==
    /\ edit.at = "idle" /\ Edit
    /\ artifact[i] \/ root = NoSum
    /\ Sets(i, Created(sum, root))
    /\ edit' = IF url THEN [NoEdit EXCEPT !.at = "download", !.img = i, !.read = row'[i]] ELSE NoEdit
    /\ UNCHANGED <<artifact, payload, agents, breaks>>
ToStatus(ready, path) == edit' = [edit EXCEPT !.at = "status", !.ready = ready, !.path = path]
(* Blanks and case do not matter to the server; a manifest's root does not. *)
ChecksumAccepts(sum, c) == sum.of \in {"none", c}
(* downloadURLImageFile: written aside, compared with the checksum of the   *)
(* request, and renamed; downloadURLImage then sets the status either way.  *)
DownloadURLImage(c) ==
    LET sum == edit.read.sum IN
    /\ edit.at = "download"
    /\ IF ChecksumAccepts(sum, c)
       THEN payload' = [payload EXCEPT ![edit.img] = c] /\ ToStatus(TRUE, "own")
       ELSE UNCHANGED payload /\ ToStatus(FALSE, "none")
    /\ UNCHANGED <<artifact, row, edits, agents, breaks, since>>
(* UploadOSImage truncates the payload and writes it in place; the row may  *)
(* be ready all the while, and no checksum is compared.                     *)
UploadOSImage(i) ==
    /\ edit.at = "idle" /\ Edit
    /\ row[i].exists
    /\ payload' = [payload EXCEPT ![i] = "partial"]
    /\ edit' = [NoEdit EXCEPT !.at = "upload", !.img = i]
    /\ UNCHANGED <<artifact, row, agents, breaks, since>>
UploadEnds(c) ==
    /\ edit.at = "upload"
    /\ payload' = [payload EXCEPT ![edit.img] = c]
    /\ ToStatus(TRUE, "own")
    /\ UNCHANGED <<artifact, row, edits, agents, breaks, since>>
(* The body may name another file of the server as the image's. *)
UpdateOSImageStatus(i, ready, path) ==
    /\ edit.at = "idle" /\ Edit
    /\ row[i].exists
    /\ path \in {row[i].path, "own", "other"}
    /\ edit' = [NoEdit EXCEPT !.at = "status", !.img = i, !.ready = ready, !.path = path]
    /\ UNCHANGED <<artifact, row, payload, agents, breaks, since>>
(* UpdateStatus: the row is read, and then written whole. *)
StatusRead ==
    /\ edit.at = "status"
    /\ edit' = IF row[edit.img].exists THEN [edit EXCEPT !.at = "upsert", !.read = row[edit.img]] ELSE NoEdit
    /\ UNCHANGED <<artifact, row, payload, edits, agents, breaks, since>>
StatusWrite ==
    /\ edit.at = "upsert"
    /\ Sets(edit.img, [edit.read EXCEPT !.ready = edit.ready, !.path = edit.path])
    /\ edit' = NoEdit
    /\ UNCHANGED <<artifact, payload, edits, agents, breaks>>
EditFails ==
    /\ edit.at # "idle" /\ Break
    /\ edit' = NoEdit
    /\ UNCHANGED <<artifact, row, payload, edits, agents, since>>
(* DeleteOSImage: the payload stays. *)
DeleteOSImage(i) ==
    /\ Edit
    /\ row[i].exists
    /\ Sets(i, NoRow)
    /\ UNCHANGED <<artifact, payload, edit, agents, breaks>>

-----------------------------------------------------------------------------
(* Run: the ticker starts the next sync. *)
SyncOnce ==
    /\ agent.at = "idle"
    /\ agent' = [NoSync EXCEPT !.at = "list"]
    /\ kept' = {i \in Images : row[i].exists /\ row[i].ready}
    /\ shifted' = FALSE
    /\ UNCHANGED <<artifact, images, files, breaks, cut, spoiled>>

(* The rows are listed by name. *)
Listed == {i \in Images : row[i].exists}
Position(i) == Cardinality({k \in Listed : k < i})
(* Bug: the last page is left out when it holds one image. *)
HasOneMore(start, total) == start + PageSize + 1 < total
(* parsePagination: an offset into the rows as they are now. *)
HasNext(start, total) == start + PageSize < total
FetchImages ==
    LET page == {i \in Listed : agent.offset <= Position(i) /\ Position(i) < agent.offset + PageSize}
        all == agent.ready \cup {Item(agent.offset, i, AgentSum(i, row[i])) : i \in {k \in page : row[k].ready}}
    IN /\ agent.at = "list"
       /\ agent' = IF HasNext(agent.offset, Cardinality(Listed))
                   THEN [agent EXCEPT !.ready = all, !.offset = @ + PageSize]
                   ELSE [agent EXCEPT !.ready = all, !.todo = all, !.at = "image"]
       /\ UNCHANGED <<artifact, images, files, breaks, since, cut, spoiled>>

Img == agent.cur
At_(step) == agent' = [agent EXCEPT !.at = step]
NextImage == agent' = [agent EXCEPT !.at = "image", !.cur = NoItem]
File(i, f) == files' = [files EXCEPT ![i] = f]
AgentOnly == UNCHANGED <<artifact, images, breaks, since, spoiled>>

(* Bug: what was downloaded is not compared with the checksum. *)
AnyContent(content, sum) == TRUE
(* The digits are compared as they are. *)
VerifyChecksum(content, sum) == sum.form = "plain" /\ content = sum.of
(* Bug: a file that is there is taken as it is. *)
OnlyMissing(i, sum) == files[i].content = "none"
(* needsDownload hashes the file, needsArtifactDownload believes the record. *)
NeedsDownload(i, sum) ==
    \/ files[i].content = "none"
    \/ sum # NoSum /\ ~(IF artifact[i] THEN files[i].record = sum ELSE VerifyChecksum(files[i].content, sum))
(* In the order of the list: page after page, and by name in a page. *)
NotAfter(d, e) == d.page < e.page \/ (d.page = e.page /\ d.img <= e.img)
LookAtImage ==
    /\ agent.at = "image"
    /\ \E d \in agent.todo :
          /\ \A e \in agent.todo : NotAfter(d, e)
          /\ agent' = [agent EXCEPT !.at = IF NeedsDownload(d.img, d.sum) THEN "download" ELSE "mark",
                                    !.todo = @ \ {d}, !.cur = d,
                                    !.done = {x \in @ : x.img # d.img}]
    /\ UNCHANGED <<files, cut>> /\ AgentOnly
(* DownloadOSImage refuses images that are not ready or have no path,       *)
(* PXEArtifact those without one; both send the payload as it is.           *)
Serves(i) == row[i].path # "none" /\ (row[i].ready \/ artifact[i])
Sent(i) == IF row[i].path = "own" THEN {payload[i]} ELSE Contents
(* Written aside and renamed.  Without a checksum to compare, the one       *)
(* recorded beside an earlier file stays.                                   *)
Download_ ==
    LET i == Img.img IN
    /\ agent.at = "download"
    /\ \/ /\ Serves(i)
          /\ \E c \in Sent(i) : File(i, [files[i] EXCEPT !.content = c])
          /\ At_(IF Img.sum = NoSum THEN "mark" ELSE "verify")
          /\ cut' = (cut \/ (artifact[i] /\ Img.sum = NoSum /\ files[i].record # NoSum))
       \/ /\ ~Serves(i) \/ row[i].path = "other"   \* a file that may not be there
          /\ NextImage /\ UNCHANGED <<files, cut>>
    /\ AgentOnly
Verify_ ==
    LET i == Img.img IN
    /\ agent.at = "verify"
    /\ IF VerifyChecksum(files[i].content, Img.sum)
       THEN At_(IF artifact[i] THEN "record" ELSE "mark") /\ UNCHANGED files
       ELSE NextImage /\ File(i, [files[i] EXCEPT !.content = "none"])
    /\ UNCHANGED cut /\ AgentOnly
WriteSourceChecksum ==
    /\ agent.at = "record"
    /\ File(Img.img, [files[Img.img] EXCEPT !.record = Img.sum])
    /\ At_("mark")
    /\ UNCHANGED cut /\ AgentOnly
WriteManagedMarker ==
    /\ agent.at = "mark"
    /\ File(Img.img, [files[Img.img] EXCEPT !.marked = TRUE])
    /\ agent' = [agent EXCEPT !.at = "image", !.cur = NoItem, !.done = @ \cup {Img}]
    /\ UNCHANGED cut /\ AgentOnly
(* A step for one image fails: the sync goes on with the next one. *)
ImageFails ==
    /\ agent.at \in {"download", "verify", "record", "mark"} /\ Break
    /\ IF agent.at = "verify" THEN File(Img.img, [files[Img.img] EXCEPT !.content = "none"]) ELSE UNCHANGED files
    /\ cut' = (cut \/ agent.at = "record")
    /\ NextImage
    /\ UNCHANGED <<artifact, images, since, spoiled>>
(* The listing fails, or the agent dies and is started again. *)
AgentDies ==
    /\ agent.at # "idle" /\ Break
    /\ agent' = NoSync
    /\ cut' = (cut \/ (agent.at \in {"verify", "record"} /\ artifact[Img.img]))
    /\ UNCHANGED <<artifact, images, files, since, spoiled>>
(* A request to the server is never answered: it has no timeout, and the    *)
(* agent waits until it is started again.                                   *)
RequestHangs ==
    /\ agent.at \in {"list", "download"} /\ Break
    /\ At_("hung")
    /\ UNCHANGED <<artifact, images, files, since, cut, spoiled>>
Expected(i) == \E d \in agent.ready : d.img = i
(* cleanupStaleFiles *)
CleanupStaleFiles ==
    LET stale == {i \in Images : files[i].content # "none" /\ files[i].marked /\ ~Expected(i)} IN
    /\ agent.at = "image" /\ agent.todo = {}
    /\ files' = [i \in Images |-> IF i \in stale THEN NoFile_ ELSE files[i]]
    /\ agent' = NoSync
    /\ spoiled' = (spoiled \/ (stale \cap kept # {} /\ ~shifted))
    /\ UNCHANGED <<artifact, images, breaks, since, cut>>

AgentStep ==
    \/ SyncOnce \/ FetchImages \/ LookAtImage \/ Download_ \/ Verify_ \/ WriteSourceChecksum
    \/ WriteManagedMarker \/ CleanupStaleFiles
ISNext ==
    \/ \E i \in Images : \/ \E sum, root \in Sums, url \in BOOLEAN : CreateOSImage(i, sum, root, url)
                         \/ UploadOSImage(i) \/ DeleteOSImage(i)
                         \/ \E ready \in BOOLEAN, path \in Paths : UpdateOSImageStatus(i, ready, path)
    \/ \E c \in Contents : DownloadURLImage(c) \/ UploadEnds(c)
    \/ StatusRead \/ StatusWrite \/ EditFails
    \/ AgentStep \/ ImageFails \/ AgentDies \/ RequestHangs
ISSpec == ISInit /\ [][ISNext]_isVars

-----------------------------------------------------------------------------
(* An image that a sync found or brought up to date has the content its     *)
(* listed checksum names, however the image was created, uploaded to and    *)
(* replaced meanwhile.  The file of an image with a manifest is trusted for *)
(* its record, which an interrupted download, and one without a checksum,   *)
(* leave behind.                                                            *)
SyncedIsListed ==
    \A d \in agent.done : d.sum # NoSum => files[d.img].content = d.sum.of \/ (artifact[d.img] /\ cut)

(* The cleanup leaves the files of images that were ready from the first    *)
(* page on, whatever else is created or uploaded; only the deletion of      *)
(* another image during the listing moves an image off the next page.       *)
CleanupSparesReady == ~spoiled

(* An image that stays ready at its own path, with the payload that the     *)
(* checksum the agent goes by names in its own form, gets to the hypervisor *)
(* and stays there, through interrupted syncs, uploads and replacements.    *)
(* The exceptions are a stale record beside the file and a request that is  *)
(* never answered.  A checksum in upper case, which the server accepts, is  *)
(* refused by the agent at every sync.                                      *)
InOrder(i) ==
    /\ row[i].ready /\ row[i].path = "own"
    /\ AgentSum(i, row[i]) = Sum_(payload[i], "plain")
EventuallySynced ==
    \A i \in Images :
       <>[]InOrder(i) => <>[](files[i].content = payload[i] \/ (artifact[i] /\ cut) \/ agent.at = "hung")
=============================================================================
