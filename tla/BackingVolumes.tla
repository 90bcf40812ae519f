--------------------------- MODULE BackingVolumes ---------------------------
(***************************************************************************)
(* Backing volumes of cloud-image virtual machines:                        *)
(* src/internal/vm/cloud_image.go and cloud_image_download.go with the     *)
(* volume calls of src/internal/libvirt/storage.go.  A deployment of a URL *)
(* image looks for a volume named after the image's URL, checksum and time *)
(* of creation; when there is none it creates one, uploads the download    *)
(* into it and deletes it again when the checksum is not right.            *)
(* Deployments run concurrently; a lock per volume keeps them apart.       *)
(***************************************************************************)
EXTENDS Naturals

CONSTANTS
    Deployments,  \* concurrent deployments
    MaxIdentities, \* bound on how often the image is replaced by another
    MaxTroubles   \* bound on failed calls and crashes

(* 0 is the holder of a lock that is free. *)
ASSUME BVAssumption == MaxIdentities \in Nat \ {0} /\ 0 \notin Deployments

VARIABLES
    image,        \* the row: what the volume name is a hash of, whether it has a checksum
    volume,       \* the volumes of the pool, by name
    lock,         \* cloudImageBackingLocks: who holds the lock of a name
    deploy,       \* the deployments
    troubles,
    abandoned     \* a volume was left behind by a crash, a creation whose answer
                  \* was lost or a failed deletion (history)

bvVars == <<image, volume, lock, deploy, troubles, abandoned>>

Names == 1..MaxIdentities
NoVolume == [content |-> "none", id |-> 0]
Nobody == [at |-> "idle", id |-> 0, checked |-> FALSE]

BVInit ==
    /\ image \in [id : {1}, checked : BOOLEAN]
    /\ volume = [n \in Names |-> NoVolume]
    /\ lock = [n \in Names |-> 0]
    /\ deploy = [d \in Deployments |-> Nobody]
    /\ troubles = 0 /\ abandoned = FALSE

Goes(d, at) == deploy' = [deploy EXCEPT ![d].at = at]
Trouble == troubles < MaxTroubles /\ troubles' = troubles + 1
(* cloudImageURLVolumeBaseName *)
VolumeName(id) == id
Vol(d) == VolumeName(deploy[d].id)
Becomes(d, v) == volume' = [volume EXCEPT ![Vol(d)] = v]
Unlock(d) == lock' = [lock EXCEPT ![Vol(d)] = 0]

(* The image gets another URL, checksum or size, or is deleted and created  *)
(* anew.  One created over its row, with the same URL, keeps its identity:  *)
(* the time of creation is not updated.                                     *)
ReplaceImage ==
    /\ image.id < MaxIdentities
    /\ \E c \in BOOLEAN : image' = [id |-> image.id + 1, checked |-> c]
    /\ UNCHANGED <<volume, lock, deploy, troubles, abandoned>>

(* resolveCloudImageBackingImage *)
Resolve(d) ==
    /\ deploy[d].at \in {"idle", "backed", "failed"}
    /\ deploy' = [deploy EXCEPT ![d] = [at |-> "lock", id |-> image.id, checked |-> image.checked]]
    /\ UNCHANGED <<image, volume, lock, troubles, abandoned>>
(* Bug: deployments do not wait for one another. *)
NoLock(d) == TRUE
LockFree(d) == lock[Vol(d)] = 0
LockBacking(d) ==
    /\ deploy[d].at = "lock"
    /\ LockFree(d)
    /\ lock' = [lock EXCEPT ![Vol(d)] = d]
    /\ Goes(d, "exists")
    /\ UNCHANGED <<image, volume, troubles, abandoned>>
(* A volume that is there is used as it is. *)
VolumeExists(d) ==
    /\ deploy[d].at = "exists"
    /\ IF volume[Vol(d)] # NoVolume THEN Goes(d, "backed") /\ Unlock(d)
                                    ELSE Goes(d, "create") /\ UNCHANGED lock
    /\ UNCHANGED <<image, volume, troubles, abandoned>>
(* CreateVolumeFromReader: the volume first, its content afterwards; libvirt *)
(* refuses a second volume of a name.                                       *)
CreateVolume(d) ==
    /\ deploy[d].at = "create"
    /\ IF volume[Vol(d)] = NoVolume
       THEN Becomes(d, [content |-> "partial", id |-> deploy[d].id]) /\ Goes(d, "upload") /\ UNCHANGED lock
       ELSE UNCHANGED volume /\ Goes(d, "failed") /\ Unlock(d)
    /\ UNCHANGED <<image, troubles, abandoned>>
UploadVolume(d) ==
    /\ deploy[d].at = "upload"
    /\ \E content \in {"right", "wrong"} :
          Becomes(d, [content |-> content, id |-> deploy[d].id])
    /\ Goes(d, "verify")
    /\ UNCHANGED <<image, lock, troubles, abandoned>>
(* The checksum of what was uploaded, if the image has one. *)
VerifyVolume(d) ==
    LET ok == ~deploy[d].checked \/ volume[Vol(d)].content = "right" IN
    /\ deploy[d].at = "verify"
    /\ IF ok THEN UNCHANGED volume ELSE Becomes(d, NoVolume)
    /\ Goes(d, IF ok THEN "backed" ELSE "failed")
    /\ Unlock(d)
    /\ UNCHANGED <<image, troubles, abandoned>>

(* A lookup, the download or the creation fails and leaves nothing behind.  *)
CallFails(d) ==
    /\ deploy[d].at \in {"exists", "create"} /\ Trouble
    /\ Goes(d, "failed") /\ Unlock(d)
    /\ UNCHANGED <<image, volume, abandoned>>
(* StorageVolCreateXML fails here although libvirt made the volume: its     *)
(* answer was lost.  CreateVolumeFromReader returns without deleting it.    *)
CreateAnswerLost(d) ==
    /\ deploy[d].at = "create" /\ volume[Vol(d)] = NoVolume /\ Trouble
    /\ Becomes(d, [content |-> "partial", id |-> deploy[d].id])
    /\ abandoned' = TRUE
    /\ Goes(d, "failed") /\ Unlock(d)
    /\ UNCHANGED image
(* An upload that fails, and one that does not match, delete the volume, if *)
(* that succeeds.                                                           *)
UploadFails(d) ==
    /\ deploy[d].at = "upload" /\ Trouble
    /\ \E deleted \in BOOLEAN :
          /\ IF deleted THEN Becomes(d, NoVolume) ELSE UNCHANGED volume
          /\ abandoned' = (abandoned \/ ~deleted)
    /\ Goes(d, "failed") /\ Unlock(d)
    /\ UNCHANGED image
DeleteFails(d) ==
    /\ deploy[d].at = "verify" /\ deploy[d].checked /\ volume[Vol(d)].content = "wrong" /\ Trouble
    /\ abandoned' = TRUE
    /\ Goes(d, "failed") /\ Unlock(d)
    /\ UNCHANGED <<image, volume>>
(* The server dies: its locks and deployments are gone, the volumes remain. *)
ServerDies ==
    /\ Trouble
    /\ abandoned' = (abandoned \/ \E d \in Deployments : deploy[d].at \in {"upload", "verify"})
    /\ lock' = [n \in Names |-> 0]
    /\ deploy' = [d \in Deployments |-> IF deploy[d].at \in {"idle", "backed", "failed"} THEN deploy[d] ELSE Nobody]
    /\ UNCHANGED <<image, volume>>

DeployStep(d) == LockBacking(d) \/ VolumeExists(d) \/ CreateVolume(d) \/ UploadVolume(d) \/ VerifyVolume(d)
BVNext ==
    \/ ReplaceImage \/ ServerDies
    \/ \E d \in Deployments : Resolve(d) \/ DeployStep(d) \/ CallFails(d) \/ CreateAnswerLost(d)
                                   \/ UploadFails(d) \/ DeleteFails(d)
BVSpec == BVInit /\ [][BVNext]_bvVars

-----------------------------------------------------------------------------
(* A deployment that was given a backing volume finds in it a whole         *)
(* download of the image it resolved, not of an earlier one of that name,   *)
(* and the right one when the image names a checksum, also when another     *)
(* deployment made the volume or the image is being replaced.  A volume     *)
(* left by a crash, by a creation whose answer was lost or by a deletion    *)
(* that failed is taken for a good one.                                     *)
BackingIsWhole ==
    \A d \in Deployments : deploy[d].at = "backed" =>
       /\ volume[Vol(d)].id = deploy[d].id
       /\ \/ volume[Vol(d)].content \in (IF deploy[d].checked THEN {"right"} ELSE {"right", "wrong"})
          \/ abandoned
=============================================================================
