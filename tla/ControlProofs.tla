--------------------------- MODULE ControlProofs ----------------------------
(***************************************************************************)
(* Theorems about the components that bring images about, for every number *)
(* of concurrent requests, deployments and images: backing volumes, boot   *)
(* environments and the agent that copies images to a hypervisor.          *)
(***************************************************************************)
EXTENDS BackingVolumes, BootEnvironment, ImageSync, FiniteSetTheorems, TLAPS

-----------------------------------------------------------------------------
(* Backing volumes                                                         *)

Contents_ == {"none", "partial", "right", "wrong"}
DeploySteps == {"idle", "lock", "exists", "create", "upload", "verify", "backed", "failed"}

BVTypes ==
    /\ image \in [id : Names, checked : BOOLEAN]
    /\ volume \in [Names -> [content : Contents_, id : Nat]]
    /\ lock \in [Names -> Deployments \cup {0}]
    /\ deploy \in [Deployments -> [at : DeploySteps, id : Nat, checked : BOOLEAN]]
    /\ abandoned \in BOOLEAN

\* The deployments that hold the lock of a volume, and those that are filling it.
Holding(d) == deploy[d].at \in {"exists", "create", "upload", "verify"}
Filling(d) == deploy[d].at \in {"upload", "verify"}
Named(d) == deploy[d].at # "idle"

\* A deployment names an identity the image has or had, and has read its checksum:
\* two of one identity have read the same.
Identities ==
    /\ \A d \in Deployments : Named(d) => deploy[d].id \in Names /\ deploy[d].id <= image.id
    /\ \A d \in Deployments :
          Named(d) /\ deploy[d].id = image.id => deploy[d].checked = image.checked
    /\ \A d, e \in Deployments :
          Named(d) /\ Named(e) /\ deploy[d].id = deploy[e].id => deploy[d].checked = deploy[e].checked

\* The lock keeps deployments of one volume apart.
Locks == \A d \in Deployments : Holding(d) => lock[deploy[d].id] = d

\* What a deployment knows of its volume at each step.
Progress ==
    \A d \in Deployments :
        /\ deploy[d].at = "create" => volume[deploy[d].id] = NoVolume
        /\ deploy[d].at = "upload" => volume[deploy[d].id].content = "partial"
        /\ deploy[d].at = "verify" => volume[deploy[d].id].content \in {"right", "wrong"}
        /\ deploy[d].at = "backed" => volume[deploy[d].id].content # "none"
        /\ Filling(d) => \A e \in Deployments :
                            deploy[e].at = "backed" => deploy[e].id # deploy[d].id

\* A volume is of the identity it is named after, and there is none of one to come.
Volumes ==
    \A n \in Names :
        /\ volume[n].content = "none" => volume[n] = NoVolume
        /\ volume[n].content # "none" => volume[n].id = n /\ n <= image.id

\* A volume nobody is filling is a good one, unless one was left behind; a wrong
\* download is kept only of an image without a checksum.
Settled ==
    \A n \in Names :
        (/\ ~abandoned
         /\ volume[n].content # "none"
         /\ \A d \in Deployments : Filling(d) => deploy[d].id # n)
        => /\ volume[n].content \in {"right", "wrong"}
           /\ volume[n].content = "wrong" =>
                 /\ \A d \in Deployments : Named(d) /\ deploy[d].id = n => ~deploy[d].checked
                 /\ image.id = n => ~image.checked

\* The inductive invariant.
BackingInv == BVTypes /\ Identities /\ Locks /\ Progress /\ Volumes /\ Settled

LEMMA BackingStart == BVInit => BackingInv
<1> SUFFICES ASSUME BVInit PROVE BackingInv
  OBVIOUS
<1> USE BVAssumption DEF BVInit, NoVolume, Nobody, Names
<1>1. BVTypes
  <2>1. image \in [id : Names, checked : BOOLEAN]
    OBVIOUS
  <2>2. volume \in [Names -> [content : Contents_, id : Nat]] /\ lock \in [Names -> Deployments \cup {0}]
    BY DEF Contents_
  <2>3. deploy \in [Deployments -> [at : DeploySteps, id : Nat, checked : BOOLEAN]]
    BY DEF DeploySteps
  <2>4. QED BY <2>1, <2>2, <2>3 DEF BVTypes
<1>2. Identities /\ Locks /\ Progress
  BY DEF Identities, Locks, Progress, Named, Holding, Filling
<1>3. Volumes /\ Settled
  BY DEF Volumes, Settled
<1>4. QED BY <1>1, <1>2, <1>3 DEF BackingInv
LEMMA BackingReplace == BackingInv /\ ReplaceImage => BackingInv'
<1> SUFFICES ASSUME BackingInv, ReplaceImage PROVE BackingInv'
  OBVIOUS
<1> USE BVAssumption DEF BackingInv, ReplaceImage, Names
<1>1. image.id \in Names /\ image'.id = image.id + 1 /\ image' \in [id : Names, checked : BOOLEAN]
  BY DEF BVTypes
<1>2. BVTypes'
  BY <1>1 DEF BVTypes
<1>3. Identities'
  BY <1>1 DEF Identities, Named, BVTypes
<1>4. Locks' /\ Progress'
  BY DEF Locks, Progress, Holding, Filling
<1>5. Volumes'
  BY <1>1 DEF Volumes, BVTypes
<1>6. Settled'
  BY <1>1 DEF Settled, Volumes, Named, Filling, BVTypes
<1>7. QED BY <1>2, <1>3, <1>4, <1>5, <1>6

LEMMA BackingResolve ==
  ASSUME NEW d \in Deployments, BackingInv, Resolve(d)
  PROVE  BackingInv'
<1> USE BVAssumption DEF BackingInv, Resolve, Names
<1>1. deploy' = [deploy EXCEPT ![d] = [at |-> "lock", id |-> image.id, checked |-> image.checked]]
  OBVIOUS
<1>2. BVTypes'
  BY DEF BVTypes, DeploySteps
<1>3. Identities'
  BY DEF Identities, Named, BVTypes
<1>4. Locks' /\ Progress'
  BY DEF Locks, Progress, Holding, Filling, BVTypes
<1>5. Volumes'
  BY DEF Volumes
<1>6. Settled'
  BY DEF Settled, Named, Filling, BVTypes
<1>7. QED BY <1>2, <1>3, <1>4, <1>5, <1>6
\* Goes moves one deployment and leaves what it has read alone.
LEMMA Moved ==
  ASSUME NEW d \in Deployments, NEW a \in DeploySteps, BVTypes, Goes(d, a)
  PROVE  /\ deploy' \in [Deployments -> [at : DeploySteps, id : Nat, checked : BOOLEAN]]
         /\ deploy'[d].at = a
         /\ \A e \in Deployments : /\ deploy'[e].id = deploy[e].id
                                   /\ deploy'[e].checked = deploy[e].checked
                                   /\ e # d => deploy'[e].at = deploy[e].at
BY DEF BVTypes, Goes

LEMMA MovedIdentities ==
  ASSUME NEW d \in Deployments, NEW a \in DeploySteps, BVTypes, Identities, Goes(d, a), Named(d),
         UNCHANGED image
  PROVE  Identities'
BY Moved DEF Identities, Named

\* The lock after it was taken or given back.
LEMMA LockMoved ==
  ASSUME NEW n \in Names, NEW x \in Deployments \cup {0}, BVTypes, lock' = [lock EXCEPT ![n] = x]
  PROVE  /\ lock' \in [Names -> Deployments \cup {0}]
         /\ lock'[n] = x
         /\ \A m \in Names : m # n => lock'[m] = lock[m]
BY DEF BVTypes

\* One volume after it was written.
LEMMA VolumeMoved ==
  ASSUME NEW n \in Names, NEW c \in Contents_, NEW i \in Nat, BVTypes,
         volume' = [volume EXCEPT ![n] = [content |-> c, id |-> i]]
  PROVE  /\ volume' \in [Names -> [content : Contents_, id : Nat]]
         /\ volume'[n] = [content |-> c, id |-> i]
         /\ volume'[n].content = c /\ volume'[n].id = i
         /\ \A m \in Names : m # n => volume'[m] = volume[m]
BY DEF BVTypes

\* Two deployments that hold the lock of one volume are one.
LEMMA OneHolder ==
  ASSUME BackingInv, NEW d \in Deployments, NEW e \in Deployments, Holding(d), Holding(e),
         deploy[d].id = deploy[e].id
  PROVE  d = e
BY DEF BackingInv, Locks

LEMMA BackingLockBacking ==
  ASSUME NEW d \in Deployments, BackingInv, LockBacking(d)
  PROVE  BackingInv'
<1> DEFINE n == deploy[d].id
<1>1. n \in Names /\ Named(d) /\ BVTypes /\ Identities /\ deploy[d].at = "lock" /\ lock[n] = 0
  BY DEF BackingInv, Identities, Named, LockBacking, LockFree, Vol, VolumeName
<1>2. Goes(d, "exists") /\ lock' = [lock EXCEPT ![n] = d] /\ UNCHANGED <<image, volume, abandoned>>
  BY DEF LockBacking, Vol, VolumeName
<1>3. /\ deploy' \in [Deployments -> [at : DeploySteps, id : Nat, checked : BOOLEAN]]
      /\ deploy'[d].at = "exists"
      /\ \A e \in Deployments : /\ deploy'[e].id = deploy[e].id
                                /\ deploy'[e].checked = deploy[e].checked
                                /\ e # d => deploy'[e].at = deploy[e].at
  BY <1>1, <1>2, Moved DEF DeploySteps
<1>4. /\ lock' \in [Names -> Deployments \cup {0}] /\ lock'[n] = d
      /\ \A m \in Names : m # n => lock'[m] = lock[m]
  BY <1>1, <1>2, LockMoved
<1>5. BVTypes' /\ Identities'
  BY <1>1, <1>2, <1>3, <1>4, MovedIdentities DEF BVTypes, DeploySteps
<1>6. Locks'
  BY <1>1, <1>3, <1>4, BVAssumption DEF BackingInv, Locks, Holding, Identities, Named
<1>7. Progress' /\ Volumes' /\ Settled'
  BY <1>1, <1>2, <1>3 DEF BackingInv, Progress, Volumes, Settled, Filling, Named
<1>8. QED BY <1>5, <1>6, <1>7 DEF BackingInv

\* A deployment that ends gives back the lock, which no other one of the volume held.
LEMMA Released ==
  ASSUME NEW d \in Deployments, NEW a \in {"backed", "failed"}, BackingInv, Holding(d),
         Goes(d, a), Unlock(d), UNCHANGED image
  PROVE  /\ deploy[d].id \in Names
         /\ deploy' \in [Deployments -> [at : DeploySteps, id : Nat, checked : BOOLEAN]]
         /\ lock' \in [Names -> Deployments \cup {0}]
         /\ deploy'[d].at = a
         /\ \A e \in Deployments : /\ deploy'[e].id = deploy[e].id
                                   /\ deploy'[e].checked = deploy[e].checked
                                   /\ e # d => deploy'[e].at = deploy[e].at
         /\ \A e \in Deployments : Holding(e) /\ e # d => deploy[e].id # deploy[d].id
         /\ Identities' /\ Locks'
<1> DEFINE n == deploy[d].id
<1>1. n \in Names /\ Named(d) /\ BVTypes /\ Identities /\ a \in DeploySteps
  BY DEF BackingInv, Identities, Named, Holding, DeploySteps
<1>2. lock' = [lock EXCEPT ![n] = 0]
  BY DEF Unlock, Vol, VolumeName
<1>3. /\ deploy' \in [Deployments -> [at : DeploySteps, id : Nat, checked : BOOLEAN]]
      /\ deploy'[d].at = a
      /\ \A e \in Deployments : /\ deploy'[e].id = deploy[e].id
                                /\ deploy'[e].checked = deploy[e].checked
                                /\ e # d => deploy'[e].at = deploy[e].at
  BY <1>1, Moved
<1>4. /\ lock' \in [Names -> Deployments \cup {0}]
      /\ \A m \in Names : m # n => lock'[m] = lock[m]
  BY <1>1, <1>2, LockMoved
<1>5. \A e \in Deployments : Holding(e) /\ e # d => deploy[e].id # n
  BY OneHolder
<1>6. Identities'
  BY <1>1, MovedIdentities
<1>7. Locks'
  <2> SUFFICES ASSUME NEW e \in Deployments, Holding(e)' PROVE lock'[deploy'[e].id] = e
    BY DEF Locks
  <2>1. e # d /\ Holding(e)
    BY <1>3 DEF Holding
  <2>2. deploy[e].id \in Names /\ lock[deploy[e].id] = e
    BY <2>1 DEF BackingInv, Identities, Named, Locks, Holding
  <2>3. QED BY <2>1, <2>2, <1>3, <1>4, <1>5
<1>8. QED BY <1>1, <1>3, <1>4, <1>5, <1>6, <1>7

LEMMA BackingVolumeExists ==
  ASSUME NEW d \in Deployments, BackingInv, VolumeExists(d)
  PROVE  BackingInv'
<1> DEFINE n == deploy[d].id
<1>1. n \in Names /\ Named(d) /\ Holding(d) /\ BVTypes /\ Identities /\ deploy[d].at = "exists"
  BY DEF BackingInv, Identities, Named, Holding, VolumeExists
<1>2. UNCHANGED <<image, volume, abandoned>>
  BY DEF VolumeExists
<1>3. CASE volume[n] # NoVolume
  <2>1. Goes(d, "backed") /\ Unlock(d)
    BY <1>3 DEF VolumeExists, Vol, VolumeName
  <2>2. /\ deploy' \in [Deployments -> [at : DeploySteps, id : Nat, checked : BOOLEAN]]
        /\ lock' \in [Names -> Deployments \cup {0}]
        /\ deploy'[d].at = "backed"
        /\ \A e \in Deployments : /\ deploy'[e].id = deploy[e].id
                                  /\ deploy'[e].checked = deploy[e].checked
                                  /\ e # d => deploy'[e].at = deploy[e].at
        /\ \A e \in Deployments : Holding(e) /\ e # d => deploy[e].id # n
        /\ Identities' /\ Locks'
    BY <1>1, <1>2, <2>1, Released
  <2>3. volume[n].content # "none"
    BY <1>1, <1>3 DEF BackingInv, Volumes
  <2>4. BVTypes'
    BY <1>1, <1>2, <2>2 DEF BVTypes
  <2>5. Progress'
    BY <1>1, <1>2, <2>2, <2>3 DEF BackingInv, Progress, Filling, Holding
  <2>6. Volumes' /\ Settled'
    BY <1>1, <1>2, <2>2 DEF BackingInv, Volumes, Settled, Filling, Named
  <2>7. QED BY <2>2, <2>4, <2>5, <2>6 DEF BackingInv
<1>4. CASE volume[n] = NoVolume
  <2>1. Goes(d, "create") /\ lock' = lock
    BY <1>4 DEF VolumeExists, Vol, VolumeName
  <2>2. /\ deploy' \in [Deployments -> [at : DeploySteps, id : Nat, checked : BOOLEAN]]
        /\ deploy'[d].at = "create"
        /\ \A e \in Deployments : /\ deploy'[e].id = deploy[e].id
                                  /\ deploy'[e].checked = deploy[e].checked
                                  /\ e # d => deploy'[e].at = deploy[e].at
    BY <1>1, <2>1, Moved DEF DeploySteps
  <2>3. BVTypes' /\ Identities'
    BY <1>1, <1>2, <2>1, <2>2, MovedIdentities DEF BVTypes, DeploySteps
  <2>4. Locks'
    BY <1>1, <2>1, <2>2 DEF BackingInv, Locks, Holding
  <2>5. Progress' /\ Volumes' /\ Settled'
    BY <1>1, <1>2, <1>4, <2>2 DEF BackingInv, Progress, Volumes, Settled, Filling, Named
  <2>6. QED BY <2>3, <2>4, <2>5 DEF BackingInv
<1>5. QED BY <1>3, <1>4

\* A deployment writes the volume whose lock it holds and goes on.
LEMMA Written ==
  ASSUME NEW d \in Deployments, BackingInv, Holding(d), volume[deploy[d].id].content # "right",
         NEW c \in Contents_ \ {"none"}, NEW a \in {"upload", "verify"},
         Becomes(d, [content |-> c, id |-> deploy[d].id]), Goes(d, a),
         a = "upload" => c = "partial", a = "verify" => c \in {"right", "wrong"},
         \A e \in Deployments : deploy[e].at = "backed" => deploy[e].id # deploy[d].id,
         UNCHANGED <<image, lock, abandoned>>
  PROVE  BackingInv'
<1> DEFINE n == deploy[d].id
<1>1. n \in Names /\ n \in Nat /\ n <= image.id /\ Named(d) /\ BVTypes /\ Identities /\ c \in Contents_ /\ c # "none"
  BY BVAssumption DEF BackingInv, Identities, Named, Holding, Names
<1>2. /\ deploy' \in [Deployments -> [at : DeploySteps, id : Nat, checked : BOOLEAN]]
      /\ deploy'[d].at = a
      /\ \A e \in Deployments : /\ deploy'[e].id = deploy[e].id
                                /\ deploy'[e].checked = deploy[e].checked
                                /\ e # d => deploy'[e].at = deploy[e].at
  BY <1>1, Moved DEF DeploySteps
<1>3. /\ volume' \in [Names -> [content : Contents_, id : Nat]]
      /\ volume'[n].content = c /\ volume'[n].id = n
      /\ \A m \in Names : m # n => volume'[m] = volume[m]
  BY <1>1, VolumeMoved DEF Becomes, Vol, VolumeName
<1>4. \A e \in Deployments : Holding(e) /\ e # d => deploy[e].id # n
  BY OneHolder
<1>5. BVTypes'
  BY <1>1, <1>2, <1>3 DEF BVTypes
<1>6. Identities'
  BY <1>1, MovedIdentities DEF DeploySteps
<1>7. Locks'
  BY <1>1, <1>2 DEF BackingInv, Locks, Holding
<1>8. Progress'
  <2> SUFFICES ASSUME NEW e \in Deployments
               PROVE  /\ deploy'[e].at = "create" => volume'[deploy'[e].id] = NoVolume
                      /\ deploy'[e].at = "upload" => volume'[deploy'[e].id].content = "partial"
                      /\ deploy'[e].at = "verify" => volume'[deploy'[e].id].content \in {"right", "wrong"}
                      /\ deploy'[e].at = "backed" => volume'[deploy'[e].id].content # "none"
                      /\ Filling(e)' => \A b \in Deployments :
                                           deploy'[b].at = "backed" => deploy'[b].id # deploy'[e].id
    BY DEF Progress
  <2>1. CASE e = d
    BY <2>1, <1>2, <1>3
  <2>2. CASE e # d /\ deploy[e].at \in {"create", "upload", "verify", "backed"}
    <3>1. deploy[e].id \in Names /\ deploy[e].id # n
      BY <2>2, <1>1, <1>4 DEF Identities, Named, Holding
    <3>2. volume'[deploy'[e].id] = volume[deploy[e].id]
      BY <3>1, <1>2, <1>3
    <3>3. QED BY <2>2, <3>2, <1>2 DEF BackingInv, Progress, Filling
  <2>3. CASE e # d /\ deploy[e].at \notin {"create", "upload", "verify", "backed"}
    BY <2>3, <1>2 DEF Filling
  <2>4. QED BY <2>1, <2>2, <2>3
<1>9. Volumes'
  BY <1>1, <1>3 DEF BackingInv, Volumes
<1>10. Settled'
  <2> SUFFICES ASSUME NEW m \in Names, ~abandoned, volume'[m].content # "none",
                      \A e \in Deployments : Filling(e)' => deploy'[e].id # m
               PROVE  /\ volume'[m].content \in {"right", "wrong"}
                      /\ volume'[m].content = "wrong" =>
                            /\ \A e \in Deployments : Named(e)' /\ deploy'[e].id = m => ~deploy'[e].checked
                            /\ image'.id = m => ~image'.checked
    BY DEF Settled
  <2>1. m # n
    BY <1>2 DEF Filling
  <2>2. volume'[m] = volume[m] /\ \A e \in Deployments : Filling(e) => deploy[e].id # m
    BY <2>1, <1>2, <1>3 DEF Filling
  <2>3. QED BY <2>1, <2>2, <1>2 DEF BackingInv, Settled, Named
<1>11. QED BY <1>5, <1>6, <1>7, <1>8, <1>9, <1>10 DEF BackingInv

LEMMA BackingCreateVolume ==
  ASSUME NEW d \in Deployments, BackingInv, CreateVolume(d)
  PROVE  BackingInv'
<1>1. Holding(d) /\ volume[deploy[d].id] = NoVolume /\ volume[deploy[d].id].content = "none"
  BY DEF BackingInv, Progress, Holding, CreateVolume, NoVolume
<1>2. /\ Becomes(d, [content |-> "partial", id |-> deploy[d].id]) /\ Goes(d, "upload")
      /\ UNCHANGED <<image, lock, abandoned>>
  BY <1>1 DEF CreateVolume, Vol, VolumeName
<1>3. \A e \in Deployments : deploy[e].at = "backed" => deploy[e].id # deploy[d].id
  BY <1>1 DEF BackingInv, Progress
<1>4. QED BY <1>1, <1>2, <1>3, Written DEF Contents_

LEMMA BackingUploadVolume ==
  ASSUME NEW d \in Deployments, BackingInv, UploadVolume(d)
  PROVE  BackingInv'
<1>1. Holding(d) /\ Filling(d) /\ volume[deploy[d].id].content = "partial"
  BY DEF BackingInv, Progress, Holding, Filling, UploadVolume
<1>2. PICK c \in {"right", "wrong"} : Becomes(d, [content |-> c, id |-> deploy[d].id])
  BY DEF UploadVolume
<1>3. Goes(d, "verify") /\ UNCHANGED <<image, lock, abandoned>>
  BY DEF UploadVolume
<1>4. \A e \in Deployments : deploy[e].at = "backed" => deploy[e].id # deploy[d].id
  BY <1>1 DEF BackingInv, Progress
<1>5. QED BY <1>1, <1>2, <1>3, <1>4, Written DEF Contents_

\* A deployment deletes the volume it was filling and fails.
LEMMA Deleted ==
  ASSUME NEW d \in Deployments, BackingInv, Filling(d), Becomes(d, NoVolume), Goes(d, "failed"),
         Unlock(d), UNCHANGED <<image, abandoned>>
  PROVE  BackingInv'
<1> DEFINE n == deploy[d].id
<1>1. n \in Names /\ Holding(d) /\ BVTypes /\ Identities
  BY DEF BackingInv, Identities, Named, Holding, Filling
<1>2. /\ deploy' \in [Deployments -> [at : DeploySteps, id : Nat, checked : BOOLEAN]]
      /\ lock' \in [Names -> Deployments \cup {0}]
      /\ deploy'[d].at = "failed"
      /\ \A e \in Deployments : /\ deploy'[e].id = deploy[e].id
                                /\ deploy'[e].checked = deploy[e].checked
                                /\ e # d => deploy'[e].at = deploy[e].at
      /\ \A e \in Deployments : Holding(e) /\ e # d => deploy[e].id # n
      /\ Identities' /\ Locks'
  BY <1>1, Released
<1>3. /\ volume' \in [Names -> [content : Contents_, id : Nat]]
      /\ volume'[n] = NoVolume /\ volume'[n].content = "none"
      /\ \A m \in Names : m # n => volume'[m] = volume[m]
  BY <1>1, VolumeMoved DEF Becomes, Vol, VolumeName, NoVolume, Contents_
<1>4. BVTypes'
  BY <1>1, <1>2, <1>3 DEF BVTypes
<1>5. \A e \in Deployments : deploy[e].at = "backed" => deploy[e].id # n
  BY DEF BackingInv, Progress
<1>6. Progress'
  <2> SUFFICES ASSUME NEW e \in Deployments
               PROVE  /\ deploy'[e].at = "create" => volume'[deploy'[e].id] = NoVolume
                      /\ deploy'[e].at = "upload" => volume'[deploy'[e].id].content = "partial"
                      /\ deploy'[e].at = "verify" => volume'[deploy'[e].id].content \in {"right", "wrong"}
                      /\ deploy'[e].at = "backed" => volume'[deploy'[e].id].content # "none"
                      /\ Filling(e)' => \A b \in Deployments :
                                           deploy'[b].at = "backed" => deploy'[b].id # deploy'[e].id
    BY DEF Progress
  <2>1. CASE e # d /\ deploy[e].at \in {"create", "upload", "verify", "backed"}
    <3>1. deploy[e].id \in Names /\ deploy[e].id # n
      BY <2>1, <1>1, <1>2, <1>5 DEF Identities, Named, Holding
    <3>2. volume'[deploy'[e].id] = volume[deploy[e].id]
      BY <3>1, <1>2, <1>3
    <3>3. QED BY <2>1, <3>2, <1>2 DEF BackingInv, Progress, Filling
  <2>2. CASE e = d \/ deploy[e].at \notin {"create", "upload", "verify", "backed"}
    BY <2>2, <1>2 DEF Filling
  <2>3. QED BY <2>1, <2>2
<1>7. Volumes'
  BY <1>1, <1>3 DEF BackingInv, Volumes
<1>8. Settled'
  <2> SUFFICES ASSUME NEW m \in Names, ~abandoned, volume'[m].content # "none",
                      \A e \in Deployments : Filling(e)' => deploy'[e].id # m
               PROVE  /\ volume'[m].content \in {"right", "wrong"}
                      /\ volume'[m].content = "wrong" =>
                            /\ \A e \in Deployments : Named(e)' /\ deploy'[e].id = m => ~deploy'[e].checked
                            /\ image'.id = m => ~image'.checked
    BY DEF Settled
  <2>1. m # n
    BY <1>3
  <2>2. volume'[m] = volume[m] /\ \A e \in Deployments : Filling(e) => deploy[e].id # m
    BY <2>1, <1>2, <1>3 DEF Filling
  <2>3. QED BY <2>1, <2>2, <1>2 DEF BackingInv, Settled, Named
<1>9. QED BY <1>2, <1>4, <1>6, <1>7, <1>8 DEF BackingInv

\* A deployment fails and leaves the volumes as they are.
LEMMA LeftBehind ==
  ASSUME NEW d \in Deployments, BackingInv, Holding(d), Goes(d, "failed"), Unlock(d),
         abandoned' \in BOOLEAN, ~abandoned' => ~abandoned /\ ~Filling(d), UNCHANGED <<image, volume>>
  PROVE  BackingInv'
<1> DEFINE n == deploy[d].id
<1>1. n \in Names /\ Named(d) /\ BVTypes /\ Identities
  BY DEF BackingInv, Identities, Named, Holding
<1>2. /\ deploy' \in [Deployments -> [at : DeploySteps, id : Nat, checked : BOOLEAN]]
      /\ lock' \in [Names -> Deployments \cup {0}]
      /\ deploy'[d].at = "failed"
      /\ \A e \in Deployments : /\ deploy'[e].id = deploy[e].id
                                /\ deploy'[e].checked = deploy[e].checked
                                /\ e # d => deploy'[e].at = deploy[e].at
      /\ \A e \in Deployments : Holding(e) /\ e # d => deploy[e].id # n
      /\ Identities' /\ Locks'
  BY <1>1, Released
<1>3. BVTypes'
  BY <1>1, <1>2 DEF BVTypes
<1>4. Progress' /\ Volumes'
  <2>1. Volumes'
    BY DEF BackingInv, Volumes
  <2>2. Progress'
    BY <1>2 DEF BackingInv, Progress, Filling
  <2>3. QED BY <2>1, <2>2
<1>5. Settled'
  BY <1>1, <1>2 DEF BackingInv, Settled, Filling, Named
<1>6. QED BY <1>2, <1>3, <1>4, <1>5 DEF BackingInv

LEMMA BackingVerifyVolume ==
  ASSUME NEW d \in Deployments, BackingInv, VerifyVolume(d)
  PROVE  BackingInv'
<1> DEFINE n == deploy[d].id
           ok == ~deploy[d].checked \/ volume[n].content = "right"
<1>1. /\ n \in Names /\ Named(d) /\ Holding(d) /\ Filling(d) /\ BVTypes /\ Identities
      /\ volume[n].content \in {"right", "wrong"} /\ deploy[d].at = "verify"
  BY DEF BackingInv, Identities, Named, Holding, Filling, Progress, VerifyVolume
<1>2. Unlock(d) /\ UNCHANGED <<image, abandoned>>
  BY DEF VerifyVolume
<1>3. CASE ok
  <2>1. Goes(d, "backed") /\ volume' = volume
    BY <1>3 DEF VerifyVolume, Vol, VolumeName
  <2>2. /\ deploy' \in [Deployments -> [at : DeploySteps, id : Nat, checked : BOOLEAN]]
        /\ lock' \in [Names -> Deployments \cup {0}]
        /\ deploy'[d].at = "backed"
        /\ \A e \in Deployments : /\ deploy'[e].id = deploy[e].id
                                  /\ deploy'[e].checked = deploy[e].checked
                                  /\ e # d => deploy'[e].at = deploy[e].at
        /\ \A e \in Deployments : Holding(e) /\ e # d => deploy[e].id # n
        /\ Identities' /\ Locks'
    BY <1>1, <1>2, <2>1, Released
  <2>3. BVTypes'
    BY <1>1, <1>2, <2>1, <2>2 DEF BVTypes
  <2>4. Progress' /\ Volumes'
    BY <1>1, <1>2, <2>1, <2>2 DEF BackingInv, Progress, Volumes, Filling, Holding
  <2>5. Settled'
    <3> SUFFICES ASSUME NEW m \in Names, ~abandoned, volume[m].content # "none",
                        \A e \in Deployments : Filling(e)' => deploy'[e].id # m
                 PROVE  /\ volume[m].content \in {"right", "wrong"}
                        /\ volume[m].content = "wrong" =>
                              /\ \A e \in Deployments : Named(e)' /\ deploy'[e].id = m => ~deploy'[e].checked
                              /\ image.id = m => ~image.checked
      BY <1>2, <2>1 DEF Settled
    <3>1. CASE m = n
      <4>1. volume[n].content = "wrong" => ~deploy[d].checked
        BY <1>1, <1>3
      <4>2. \A e \in Deployments : Named(e)' => Named(e)
        BY <1>1, <2>2 DEF Named
      <4>3. QED BY <3>1, <4>1, <4>2, <1>1, <2>2 DEF Identities
    <3>2. CASE m # n
      <4>1. \A e \in Deployments : Filling(e) => deploy[e].id # m
        BY <3>2, <2>2 DEF Filling
      <4>2. \A e \in Deployments : Named(e)' => Named(e)
        BY <1>1, <2>2 DEF Named
      <4>3. QED BY <3>2, <4>1, <4>2, <2>2 DEF BackingInv, Settled
    <3>3. QED BY <3>1, <3>2
  <2>6. QED BY <2>2, <2>3, <2>4, <2>5 DEF BackingInv
<1>4. CASE ~ok
  <2>1. Goes(d, "failed") /\ Becomes(d, NoVolume)
    BY <1>4 DEF VerifyVolume, Vol, VolumeName
  <2>2. QED BY <1>1, <1>2, <2>1, Deleted
<1>5. QED BY <1>3, <1>4

LEMMA BackingFailures ==
  ASSUME NEW d \in Deployments, BackingInv, CallFails(d) \/ UploadFails(d) \/ DeleteFails(d)
  PROVE  BackingInv'
<1>1. abandoned \in BOOLEAN
  BY DEF BackingInv, BVTypes
<1>2. CASE CallFails(d)
  <2>1. Holding(d) /\ ~Filling(d)
    BY <1>2 DEF CallFails, Holding, Filling
  <2>2. Goes(d, "failed") /\ Unlock(d) /\ UNCHANGED <<image, volume, abandoned>>
    BY <1>2 DEF CallFails
  <2>3. QED BY <1>1, <2>1, <2>2, LeftBehind
<1>3. CASE UploadFails(d)
  <2>1. Holding(d) /\ Filling(d) /\ Goes(d, "failed") /\ Unlock(d) /\ UNCHANGED image
    BY <1>3 DEF UploadFails, Holding, Filling
  <2>2. PICK deleted \in BOOLEAN : /\ IF deleted THEN Becomes(d, NoVolume) ELSE UNCHANGED volume
                                   /\ abandoned' = (abandoned \/ ~deleted)
    BY <1>3 DEF UploadFails
  <2>3. CASE deleted
    BY <1>1, <2>1, <2>2, <2>3, Deleted
  <2>4. CASE ~deleted
    BY <1>1, <2>1, <2>2, <2>4, LeftBehind
  <2>5. QED BY <2>3, <2>4
<1>4. CASE DeleteFails(d)
  <2>1. Holding(d) /\ Goes(d, "failed") /\ Unlock(d) /\ abandoned' = TRUE /\ UNCHANGED <<image, volume>>
    BY <1>4 DEF DeleteFails, Holding
  <2>2. QED BY <2>1, LeftBehind
<1>5. QED BY <1>2, <1>3, <1>4

\* The answer to a creation is lost: a volume stays behind that nobody fills.
LEMMA BackingCreateAnswerLost ==
  ASSUME NEW d \in Deployments, BackingInv, CreateAnswerLost(d)
  PROVE  BackingInv'
<1> DEFINE n == deploy[d].id
<1>1. /\ n \in Names /\ n \in Nat /\ n <= image.id /\ Holding(d) /\ BVTypes /\ Identities
      /\ deploy[d].at = "create" /\ volume[n] = NoVolume /\ volume[n].content = "none"
  BY BVAssumption DEF BackingInv, Identities, Named, Holding, Names, CreateAnswerLost, Vol, VolumeName, NoVolume
<1>2. /\ deploy' \in [Deployments -> [at : DeploySteps, id : Nat, checked : BOOLEAN]]
      /\ lock' \in [Names -> Deployments \cup {0}]
      /\ deploy'[d].at = "failed"
      /\ \A e \in Deployments : /\ deploy'[e].id = deploy[e].id
                                /\ deploy'[e].checked = deploy[e].checked
                                /\ e # d => deploy'[e].at = deploy[e].at
      /\ \A e \in Deployments : Holding(e) /\ e # d => deploy[e].id # n
      /\ Identities' /\ Locks'
  <2>1. Goes(d, "failed") /\ Unlock(d) /\ UNCHANGED image
    BY DEF CreateAnswerLost
  <2>2. QED BY <1>1, <2>1, Released
<1>3. /\ volume' \in [Names -> [content : Contents_, id : Nat]]
      /\ volume'[n].content = "partial" /\ volume'[n].id = n
      /\ \A m \in Names : m # n => volume'[m] = volume[m]
  BY <1>1, VolumeMoved DEF CreateAnswerLost, Becomes, Vol, VolumeName, Contents_
<1>4. BVTypes'
  BY <1>1, <1>2, <1>3 DEF BVTypes, CreateAnswerLost
<1>5. \A e \in Deployments : deploy[e].at = "backed" => deploy[e].id # n
  BY <1>1 DEF BackingInv, Progress
<1>6. Progress'
  <2> SUFFICES ASSUME NEW e \in Deployments
               PROVE  /\ deploy'[e].at = "create" => volume'[deploy'[e].id] = NoVolume
                      /\ deploy'[e].at = "upload" => volume'[deploy'[e].id].content = "partial"
                      /\ deploy'[e].at = "verify" => volume'[deploy'[e].id].content \in {"right", "wrong"}
                      /\ deploy'[e].at = "backed" => volume'[deploy'[e].id].content # "none"
                      /\ Filling(e)' => \A b \in Deployments :
                                           deploy'[b].at = "backed" => deploy'[b].id # deploy'[e].id
    BY DEF Progress
  <2>1. CASE e # d /\ deploy[e].at \in {"create", "upload", "verify", "backed"}
    <3>1. deploy[e].id \in Names /\ deploy[e].id # n
      BY <2>1, <1>1, <1>2, <1>5 DEF Identities, Named, Holding
    <3>2. volume'[deploy'[e].id] = volume[deploy[e].id]
      BY <3>1, <1>2, <1>3
    <3>3. QED BY <2>1, <3>2, <1>2 DEF BackingInv, Progress, Filling
  <2>2. CASE e = d \/ deploy[e].at \notin {"create", "upload", "verify", "backed"}
    BY <2>2, <1>2 DEF Filling
  <2>3. QED BY <2>1, <2>2
<1>7. Volumes'
  BY <1>1, <1>3 DEF BackingInv, Volumes, CreateAnswerLost
<1>8. Settled'
  BY DEF Settled, CreateAnswerLost
<1>9. QED BY <1>2, <1>4, <1>6, <1>7, <1>8 DEF BackingInv

LEMMA BackingServerDies == BackingInv /\ ServerDies => BackingInv'
<1> SUFFICES ASSUME BackingInv, ServerDies PROVE BackingInv'
  OBVIOUS
<1>1. BVTypes /\ UNCHANGED <<image, volume>>
  BY DEF BackingInv, ServerDies
<1>2. \A e \in Deployments : /\ deploy'[e].at \in {"idle", "backed", "failed"}
                             /\ deploy'[e].at # "idle" => deploy'[e] = deploy[e]
  BY DEF ServerDies, Nobody
<1>3. deploy' \in [Deployments -> [at : DeploySteps, id : Nat, checked : BOOLEAN]]
  BY <1>1 DEF ServerDies, Nobody, BVTypes, DeploySteps
<1>4. lock' \in [Names -> Deployments \cup {0}] /\ abandoned' \in BOOLEAN
  BY <1>1 DEF ServerDies, BVTypes
<1>5. ~abandoned' => ~abandoned /\ \A e \in Deployments : ~Filling(e)
  BY DEF ServerDies, Filling
<1>6. BVTypes'
  BY <1>1, <1>3, <1>4 DEF BVTypes
<1>7. Identities'
  BY <1>1, <1>2 DEF BackingInv, Identities, Named
<1>8. Locks' /\ Volumes'
  BY <1>1, <1>2 DEF BackingInv, Locks, Volumes, Holding
<1>9. Progress'
  BY <1>1, <1>2 DEF BackingInv, Progress, Filling
<1>10. Settled'
  BY <1>1, <1>2, <1>5 DEF BackingInv, Settled, Named
<1>11. QED BY <1>6, <1>7, <1>8, <1>9, <1>10 DEF BackingInv

\* What the invariant says of a deployment that was given its volume.
LEMMA BackingWhole == BackingInv => BackingIsWhole
<1> SUFFICES ASSUME BackingInv, NEW d \in Deployments, deploy[d].at = "backed"
             PROVE  /\ volume[deploy[d].id].id = deploy[d].id
                    /\ \/ volume[deploy[d].id].content \in (IF deploy[d].checked THEN {"right"} ELSE {"right", "wrong"})
                       \/ abandoned
  BY DEF BackingIsWhole, Vol, VolumeName
<1>1. deploy[d].id \in Names /\ Named(d) /\ volume[deploy[d].id].content # "none"
  BY DEF BackingInv, Identities, Named, Progress
<1>2. \A e \in Deployments : Filling(e) => deploy[e].id # deploy[d].id
  BY DEF BackingInv, Progress
<1>3. QED BY <1>1, <1>2 DEF BackingInv, Volumes, Settled

(* A deployment that got a backing volume finds a whole download of the      *)
(* image it resolved in it, the right one when there is a checksum to        *)
(* compare, for any number of concurrent deployments and replacements        *)
(* (cloud_image.go, cloudImageBackingLocks); a volume left by a crash, by a  *)
(* creation whose answer was lost or by a failed deletion is the exception.  *)
THEOREM BackingVolumesAreWhole == BVSpec => []BackingIsWhole
<1>1. BackingInv /\ [BVNext]_bvVars => BackingInv'
  <2> SUFFICES ASSUME BackingInv, [BVNext]_bvVars PROVE BackingInv'
    OBVIOUS
  <2>1. CASE ReplaceImage \/ ServerDies
    BY <2>1, BackingReplace, BackingServerDies
  <2>2. CASE \E d \in Deployments : Resolve(d) \/ DeployStep(d) \/ CallFails(d)
                                  \/ CreateAnswerLost(d) \/ UploadFails(d) \/ DeleteFails(d)
    <3>1. PICK d \in Deployments : Resolve(d) \/ DeployStep(d) \/ CallFails(d)
                                  \/ CreateAnswerLost(d) \/ UploadFails(d) \/ DeleteFails(d)
      BY <2>2
    <3>2. CASE Resolve(d)
      BY <3>2, BackingResolve
    <3>3. CASE DeployStep(d)
      BY <3>3, BackingLockBacking, BackingVolumeExists, BackingCreateVolume, BackingUploadVolume,
         BackingVerifyVolume DEF DeployStep
    <3>4. CASE CallFails(d) \/ UploadFails(d) \/ DeleteFails(d)
      BY <3>4, BackingFailures
    <3>5. CASE CreateAnswerLost(d)
      BY <3>5, BackingCreateAnswerLost
    <3>6. QED BY <3>1, <3>2, <3>3, <3>4, <3>5
  <2>3. CASE UNCHANGED bvVars
    BY <2>3 DEF BackingInv, BVTypes, Identities, Locks, Progress, Volumes, Settled, Holding, Filling, Named, bvVars
  <2>4. QED BY <2>1, <2>2, <2>3 DEF BVNext
<1>2. QED BY BackingStart, <1>1, BackingWhole, PTL DEF BVSpec

-----------------------------------------------------------------------------
(* Boot environments                                                       *)

Seconds == 1..MaxSeconds
FetchSteps == {"idle", "checked", "waiting", "woken", "manifest", "download", "verify", "link",
               "current", "status", "published", "failed", "error"}
Requests == [at : FetchSteps, id : 0..MaxSeconds, waits : BOOLEAN, left : SUBSET Files]

BETypes ==
    /\ second \in Seconds /\ running \in BOOLEAN /\ botched \in BOOLEAN
    /\ worker \in [Workers -> Requests]
    /\ dirs \in [Seconds -> [Files -> {"none", "good", "bad"}]]
    /\ links \in [Files -> 0..MaxSeconds] /\ current \in 0..MaxSeconds

\* The fetch that runs is the one the entry in running stands for.
Exclusive ==
    /\ \A w \in Workers : Fetching(w) => running /\ worker[w].id \in Seconds
    /\ \A v, w \in Workers : Fetching(v) /\ Fetching(w) => v = w

\* What a fetch has brought into its directory at each step.
Fetched ==
    \A w \in Workers :
        /\ worker[w].at = "manifest" => worker[w].left = Files
        /\ worker[w].at = "download" => \A f \in Files \ worker[w].left : dirs[worker[w].id][f] = "good"
        /\ worker[w].at = "verify" => \A f \in Files \ worker[w].left : dirs[worker[w].id][f] \in {"good", "bad"}
        /\ worker[w].at \in {"link", "current", "status", "published"} =>
              \A f \in Files : dirs[worker[w].id][f] = "good"

\* The inductive invariant.
BootInv == BETypes /\ Exclusive /\ Fetched /\ PublishedIsWhole

LEMMA BootStart == BEInit => BootInv
<1> SUFFICES ASSUME BEInit PROVE BootInv
  OBVIOUS
<1> USE BEAssumption DEF BEInit, Resting
<1>1. worker \in [Workers -> Requests]
  BY DEF Requests, FetchSteps
<1>2. dirs \in [Seconds -> [Files -> {"none", "good", "bad"}]]
  BY DEF Seconds, Empty_
<1>3. second \in Seconds /\ links \in [Files -> 0..MaxSeconds] /\ current \in 0..MaxSeconds
  BY DEF Seconds
<1>4. BETypes
  BY <1>1, <1>2, <1>3 DEF BETypes
<1>5. Exclusive /\ Fetched /\ PublishedIsWhole
  BY DEF Exclusive, Fetched, PublishedIsWhole, Fetching
<1>6. QED BY <1>4, <1>5 DEF BootInv

\* Moves takes one request to another step and leaves the rest of it alone.
LEMMA RequestMoved ==
  ASSUME NEW w \in Workers, NEW a \in FetchSteps, BETypes, Moves(w, a)
  PROVE  /\ worker' \in [Workers -> Requests]
         /\ worker'[w].at = a
         /\ worker'[w].id = worker[w].id /\ worker'[w].left = worker[w].left
         /\ \A v \in Workers \ {w} : worker'[v] = worker[v]
BY DEF BETypes, Moves, Requests

\* A request that looks, waits, is woken or returns touches no fetch.
LEMMA BootAsks ==
  ASSUME NEW w \in Workers, BootInv,
         (\E waits \in BOOLEAN : CheckStatus_(w, waits)) \/ Joins(w) \/ Wakes(w) \/ GivesUp(w)
  PROVE  BootInv'
<1>1. /\ BETypes /\ worker[w].at \in {"idle", "checked", "waiting", "woken"}
      /\ UNCHANGED <<second, running, dirs, links, current, botched>>
  BY DEF BootInv, CheckStatus_, Joins, Wakes, GivesUp, disk_, clocks
<1>2. /\ worker' \in [Workers -> Requests]
      /\ worker'[w].at \in {"idle", "checked", "waiting", "woken"}
      /\ \A v \in Workers \ {w} : worker'[v] = worker[v]
  <2>1. CASE \E waits \in BOOLEAN : CheckStatus_(w, waits)
    <3>1. PICK waits \in BOOLEAN : CheckStatus_(w, waits)
      BY <2>1
    <3> DEFINE asks == [Resting EXCEPT !.at = "checked", !.waits = waits]
    <3>2. worker' = [worker EXCEPT ![w] = asks]
      BY <3>1 DEF CheckStatus_
    <3>3. asks \in [at : {"checked"}, id : {0}, waits : BOOLEAN, left : {Files}] /\ asks.at = "checked"
      BY DEF Resting
    <3> HIDE DEF asks
    <3>4. asks \in Requests
      BY <3>3, BEAssumption DEF Requests, FetchSteps
    <3>5. QED BY <1>1, <3>2, <3>3, <3>4 DEF BETypes
  <2>2. CASE Joins(w)
    <3>1. Moves(w, "waiting") \/ Moves(w, "idle")
      BY <2>2 DEF Joins
    <3>2. QED BY <1>1, <3>1, RequestMoved DEF FetchSteps
  <2>3. CASE Wakes(w)
    <3>1. Moves(w, "idle") \/ Moves(w, "checked")
      BY <2>3 DEF Wakes
    <3>2. QED BY <1>1, <3>1, RequestMoved DEF FetchSteps
  <2>4. CASE GivesUp(w)
    BY <1>1, <2>4, RequestMoved DEF GivesUp, FetchSteps
  <2>5. QED BY <2>1, <2>2, <2>3, <2>4
<1>3. BETypes'
  BY <1>1, <1>2 DEF BETypes
<1>4. Exclusive'
  BY <1>1, <1>2 DEF BootInv, Exclusive, Fetching
<1>5. Fetched'
  BY <1>1, <1>2 DEF BootInv, Fetched
<1>6. PublishedIsWhole'
  BY <1>1 DEF BootInv, PublishedIsWhole
<1>7. QED BY <1>3, <1>4, <1>5, <1>6 DEF BootInv

\* A fetch begins only when none is running.
LEMMA BootBegins ==
  ASSUME NEW w \in Workers, BootInv, StartBuild(w) \/ StartRebuild(w)
  PROVE  BootInv'
<1>1. PICK waits : Begin_(w, waits) /\ waits \in BOOLEAN
  BY DEF StartBuild, StartRebuild, BootInv, BETypes, Requests
<1> DEFINE begun == [Resting EXCEPT !.at = "manifest", !.id = second, !.waits = waits]
<1>2. /\ BETypes /\ ~running /\ running' = TRUE
      /\ worker' = [worker EXCEPT ![w] = begun]
      /\ UNCHANGED <<second, dirs, links, current, botched>>
  BY <1>1 DEF BootInv, Begin_, NoneRunning, disk_
<1>3. begun \in Requests /\ begun.at = "manifest" /\ begun.id = second /\ begun.left = Files
  <2>1. /\ begun \in [at : {"manifest"}, id : {second}, waits : BOOLEAN, left : {Files}]
        /\ begun.at = "manifest" /\ begun.id = second /\ begun.left = Files
    BY <1>1 DEF Resting
  <2> HIDE DEF begun
  <2>2. QED BY <1>2, <2>1, BEAssumption DEF Requests, FetchSteps, BETypes, Seconds
<1> HIDE DEF begun
<1>4. /\ worker' \in [Workers -> Requests]
      /\ worker'[w] = begun
      /\ \A v \in Workers \ {w} : worker'[v] = worker[v]
  BY <1>2, <1>3 DEF BETypes
<1>5. \A v \in Workers : ~Fetching(v)
  BY <1>2 DEF BootInv, Exclusive
<1>6. BETypes'
  BY <1>2, <1>4 DEF BETypes
<1>7. Exclusive'
  BY <1>2, <1>3, <1>4, <1>5 DEF Exclusive, Fetching, BETypes
<1>8. Fetched'
  BY <1>2, <1>3, <1>4 DEF BootInv, Fetched
<1>9. PublishedIsWhole'
  BY <1>2 DEF BootInv, PublishedIsWhole
<1>10. QED BY <1>6, <1>7, <1>8, <1>9 DEF BootInv

\* The fetch that runs goes a step on; what the others have is not fetched.
LEMMA FetchMoved ==
  ASSUME NEW w \in Workers, BootInv, Fetching(w), worker' \in [Workers -> Requests],
         worker'[w].id = worker[w].id, \A v \in Workers \ {w} : worker'[v] = worker[v],
         UNCHANGED running
  PROVE  Exclusive' /\ \A v \in Workers \ {w} : ~Fetching(v)'
BY DEF BootInv, Exclusive, Fetching

\* Only the fetch that runs has anything in Fetched to keep.
LEMMA FetchedBy ==
  ASSUME NEW w \in Workers, \A v \in Workers \ {w} : ~Fetching(v)',
         worker'[w].at = "manifest" => worker'[w].left = Files,
         worker'[w].at = "download" => \A f \in Files \ worker'[w].left : dirs'[worker'[w].id][f] = "good",
         worker'[w].at = "verify" => \A f \in Files \ worker'[w].left : dirs'[worker'[w].id][f] \in {"good", "bad"},
         worker'[w].at \in {"link", "current", "status", "published"} =>
            \A f \in Files : dirs'[worker'[w].id][f] = "good"
  PROVE  Fetched'
<1> SUFFICES ASSUME NEW v \in Workers
             PROVE  /\ worker'[v].at = "manifest" => worker'[v].left = Files
                    /\ worker'[v].at = "download" => \A f \in Files \ worker'[v].left : dirs'[worker'[v].id][f] = "good"
                    /\ worker'[v].at = "verify" => \A f \in Files \ worker'[v].left : dirs'[worker'[v].id][f] \in {"good", "bad"}
                    /\ worker'[v].at \in {"link", "current", "status", "published"} =>
                          \A f \in Files : dirs'[worker'[v].id][f] = "good"
  BY DEF Fetched
<1>1. CASE v = w
  BY <1>1
<1>2. CASE v # w
  BY <1>2 DEF Fetching
<1>3. QED BY <1>1, <1>2

\* A step of the fetch that leaves the disk alone.
LEMMA FetchOnly ==
  ASSUME NEW w \in Workers, BootInv, Fetching(w), NEW a \in FetchSteps, Moves(w, a),
         a # "manifest",
         a = "download" => \A f \in Files \ worker[w].left : dirs[worker[w].id][f] = "good",
         a = "verify" => FALSE,
         a \in {"link", "current", "status", "published"} =>
            \A f \in Files : dirs[worker[w].id][f] = "good",
         UNCHANGED <<second, running, dirs, links, current, botched>>
  PROVE  BootInv'
<1>1. /\ BETypes /\ worker' \in [Workers -> Requests] /\ worker'[w].at = a
      /\ worker'[w].id = worker[w].id /\ worker'[w].left = worker[w].left
      /\ \A v \in Workers \ {w} : worker'[v] = worker[v]
  BY RequestMoved DEF BootInv
<1>2. Exclusive' /\ \A v \in Workers \ {w} : ~Fetching(v)'
  BY <1>1, FetchMoved
<1>3. Fetched'
  BY <1>1, <1>2, FetchedBy
<1>4. BETypes'
  BY <1>1 DEF BETypes
<1>5. PublishedIsWhole'
  BY DEF BootInv, PublishedIsWhole
<1>6. QED BY <1>2, <1>3, <1>4, <1>5 DEF BootInv

LEMMA BootFetchSteps ==
  ASSUME NEW w \in Workers, BootInv,
         ReadManifest(w) \/ Verify(w) \/ WriteStatusFile(w) \/ OperationFails(w)
  PROVE  BootInv'
<1>1. UNCHANGED <<second, running, dirs, links, current, botched>>
  BY DEF ReadManifest, Verify, WriteStatusFile, OperationFails, disk_, clocks
<1>2. Fetching(w) /\ Fetched
  BY DEF ReadManifest, Verify, WriteStatusFile, OperationFails, Fetching, BootInv
<1>3. CASE ReadManifest(w)
  <2>1. Moves(w, "download") /\ worker[w].left = Files
    BY <1>2, <1>3 DEF ReadManifest, Fetched
  <2>2. QED BY <1>1, <1>2, <2>1, FetchOnly DEF FetchSteps
<1>4. CASE Verify(w)
  <2>1. \A f \in Files \ worker[w].left : dirs[worker[w].id][f] \in {"good", "bad"}
    BY <1>2, <1>4 DEF Verify, Fetched
  <2>2. CASE ~VerifySHA256(dirs[worker[w].id], Files \ worker[w].left)
    <3>1. Moves(w, "failed")
      BY <1>4, <2>2 DEF Verify
    <3>2. QED BY <1>1, <1>2, <3>1, FetchOnly DEF FetchSteps
  <2>3. CASE VerifySHA256(dirs[worker[w].id], Files \ worker[w].left)
    <3>1. \A f \in Files \ worker[w].left : dirs[worker[w].id][f] = "good"
      BY <2>1, <2>3 DEF VerifySHA256
    <3>2. CASE worker[w].left # {}
      <4>1. Moves(w, "download")
        BY <1>4, <2>3, <3>2 DEF Verify
      <4>2. QED BY <1>1, <1>2, <3>1, <4>1, FetchOnly DEF FetchSteps
    <3>3. CASE worker[w].left = {}
      <4>1. Moves(w, "link")
        BY <1>4, <2>3, <3>3 DEF Verify
      <4>2. QED BY <1>1, <1>2, <3>1, <3>3, <4>1, FetchOnly DEF FetchSteps
    <3>4. QED BY <3>2, <3>3
  <2>4. QED BY <2>2, <2>3
<1>5. CASE WriteStatusFile(w)
  <2>1. Moves(w, "published") /\ \A f \in Files : dirs[worker[w].id][f] = "good"
    BY <1>2, <1>5 DEF WriteStatusFile, Fetched
  <2>2. QED BY <1>1, <1>2, <2>1, FetchOnly DEF FetchSteps
<1>6. CASE OperationFails(w)
  <2>1. Moves(w, "error") \/ Moves(w, "failed")
    BY <1>6 DEF OperationFails
  <2>2. QED BY <1>1, <1>2, <2>1, FetchOnly DEF FetchSteps
<1>7. QED BY <1>3, <1>4, <1>5, <1>6

\* The links move to a directory all files of which are verified.
LEMMA BootPublishes ==
  ASSUME NEW w \in Workers, BootInv, PublishLink(w) \/ PublishCurrent(w)
  PROVE  BootInv'
<1> DEFINE id == worker[w].id
<1>1. /\ BETypes /\ Fetching(w) /\ id \in Seconds /\ id # 0
      /\ worker[w].at \in {"link", "current"}
      /\ \A f \in Files : dirs[id][f] = "good"
  BY BEAssumption DEF PublishLink, PublishCurrent, Fetching, BootInv, Fetched, Exclusive, Seconds
<1>2. UNCHANGED <<second, running, dirs, botched>>
  BY DEF PublishLink, PublishCurrent, clocks
<1>3. /\ worker' \in [Workers -> Requests]
      /\ worker'[w].at \in {"link", "current", "status"}
      /\ worker'[w].id = id
      /\ \A v \in Workers \ {w} : worker'[v] = worker[v]
  <2>1. CASE PublishLink(w)
    <3>1. Moves(w, "current") \/ worker' = worker
      BY <2>1 DEF PublishLink
    <3>2. QED BY <1>1, <3>1, RequestMoved DEF BETypes, FetchSteps
  <2>2. CASE PublishCurrent(w)
    BY <1>1, <2>2, RequestMoved DEF PublishCurrent, FetchSteps
  <2>3. QED BY <2>1, <2>2
<1>4. /\ links' \in [Files -> 0..MaxSeconds] /\ current' \in 0..MaxSeconds
      /\ \A f \in Files : links'[f] \in {links[f], id}
      /\ current' \in {current, id}
  <2>1. id \in 0..MaxSeconds
    BY <1>1, BEAssumption DEF Seconds
  <2>2. CASE PublishLink(w)
    <3>1. current' = current
      BY <2>2 DEF PublishLink
    <3>2. links' = links \/ \E f : links' = [links EXCEPT ![f] = id]
      BY <2>2 DEF PublishLink
    <3>3. QED BY <1>1, <2>1, <3>1, <3>2 DEF BETypes
  <2>3. CASE PublishCurrent(w)
    BY <1>1, <2>1, <2>3 DEF PublishCurrent, BETypes
  <2>4. QED BY <2>2, <2>3
<1>5. BETypes'
  BY <1>1, <1>2, <1>3, <1>4 DEF BETypes
<1>6. Exclusive' /\ \A v \in Workers \ {w} : ~Fetching(v)'
  BY <1>1, <1>2, <1>3, FetchMoved
<1>7. Fetched'
  BY <1>1, <1>2, <1>3, <1>6, FetchedBy
<1>8. PublishedIsWhole'
  BY <1>1, <1>2, <1>4 DEF BootInv, PublishedIsWhole
<1>9. QED BY <1>5, <1>6, <1>7, <1>8 DEF BootInv

\* Files of a directory change under the links only when that is noted.
LEMMA DirectoryChanged ==
  ASSUME BootInv, NEW id \in Seconds,
         \A s \in Seconds \ {id} : dirs'[s] = dirs[s],
         (\A f \in Files : dirs'[id][f] \in {"good", dirs[id][f]}) \/ (Published(id) => botched'),
         botched => botched', UNCHANGED <<links, current>>
  PROVE  PublishedIsWhole'
<1> SUFFICES ASSUME ~botched'
             PROVE  /\ current # 0 => \A f \in Files : dirs'[current][f] = "good"
                    /\ \A f \in Files : links[f] # 0 => dirs'[links[f]][f] = "good"
  BY DEF PublishedIsWhole
<1>1. /\ current # 0 => \A f \in Files : dirs[current][f] = "good"
      /\ \A f \in Files : links[f] # 0 => dirs[links[f]][f] = "good"
      /\ current \in 0..MaxSeconds /\ \A f \in Files : links[f] \in 0..MaxSeconds
  BY DEF BootInv, BETypes, PublishedIsWhole
<1>2. ASSUME NEW s \in 0..MaxSeconds, s # 0, NEW f \in Files, dirs[s][f] = "good",
             s = id => Published(id)
      PROVE  dirs'[s][f] = "good"
  <2>1. s \in Seconds
    BY <1>2, BEAssumption DEF Seconds
  <2>2. CASE s # id
    BY <1>2, <2>1, <2>2
  <2>3. CASE s = id
    BY <1>2, <2>3
  <2>4. QED BY <2>2, <2>3
<1>3. QED BY <1>1, <1>2 DEF Published

LEMMA BootDownloads ==
  ASSUME NEW w \in Workers, BootInv, Download(w)
  PROVE  BootInv'
<1> DEFINE id == worker[w].id
<1>1. /\ BETypes /\ Fetching(w) /\ id \in Seconds /\ worker[w].left \in SUBSET Files
      /\ \A f \in Files \ worker[w].left : dirs[id][f] = "good"
  BY DEF Download, Fetching, BootInv, Fetched, Exclusive, BETypes, Requests
<1>2. UNCHANGED <<second, running, links, current>>
  BY DEF Download, clocks
<1>3. PICK f \in worker[w].left, content \in {"good", "bad"} :
          /\ dirs' = [dirs EXCEPT ![id][f] = content]
          /\ botched' = (botched \/ (content = "bad" /\ Published(id)))
          /\ worker' = [worker EXCEPT ![w].at = "verify", ![w].left = @ \ {f}]
  BY DEF Download
<1>4. /\ dirs' \in [Seconds -> [Files -> {"none", "good", "bad"}]]
      /\ dirs'[id][f] = content
      /\ \A g \in Files \ {f} : dirs'[id][g] = dirs[id][g]
      /\ \A s \in Seconds \ {id} : dirs'[s] = dirs[s]
  BY <1>1, <1>3 DEF BETypes
<1>5. /\ worker' \in [Workers -> Requests]
      /\ worker'[w].at = "verify" /\ worker'[w].id = id /\ worker'[w].left = worker[w].left \ {f}
      /\ \A v \in Workers \ {w} : worker'[v] = worker[v]
  BY <1>1, <1>3 DEF BETypes, Requests, FetchSteps
<1>6. BETypes'
  BY <1>1, <1>2, <1>3, <1>4, <1>5 DEF BETypes
<1>7. Exclusive' /\ \A v \in Workers \ {w} : ~Fetching(v)'
  BY <1>1, <1>2, <1>5, FetchMoved
<1>8. Fetched'
  <2>1. \A g \in Files \ worker'[w].left : dirs'[worker'[w].id][g] \in {"good", "bad"}
    BY <1>1, <1>3, <1>4, <1>5
  <2>2. QED BY <1>5, <1>7, <2>1, FetchedBy
<1>9. PublishedIsWhole'
  <2>1. CASE content = "good"
    <3>1. \A g \in Files : dirs'[id][g] \in {"good", dirs[id][g]}
      BY <1>4, <2>1
    <3>2. QED BY <1>1, <1>2, <1>3, <1>4, <3>1, DirectoryChanged
  <2>2. CASE content = "bad"
    <3>1. Published(id) => botched'
      BY <1>3, <2>2
    <3>2. QED BY <1>1, <1>2, <1>3, <1>4, <3>1, DirectoryChanged
  <2>3. QED BY <1>3, <2>1, <2>2
<1>10. QED BY <1>6, <1>7, <1>8, <1>9 DEF BootInv

LEMMA BootCleansUp ==
  ASSUME NEW w \in Workers, BootInv, CleanUp(w)
  PROVE  BootInv'
<1> DEFINE id == worker[w].id
<1>1. BETypes /\ Fetching(w) /\ id \in Seconds
  BY DEF CleanUp, Fetching, BootInv, Exclusive
<1>2. /\ UNCHANGED <<second, running, links, current>> /\ Moves(w, "error")
      /\ botched' = (botched \/ Published(id)) /\ dirs' = [dirs EXCEPT ![id] = Empty_]
  BY DEF CleanUp, clocks
<1>3. /\ dirs' \in [Seconds -> [Files -> {"none", "good", "bad"}]]
      /\ \A s \in Seconds \ {id} : dirs'[s] = dirs[s]
  BY <1>1, <1>2 DEF BETypes, Empty_
<1>4. /\ worker' \in [Workers -> Requests]
      /\ worker'[w].at = "error" /\ worker'[w].id = id
      /\ \A v \in Workers \ {w} : worker'[v] = worker[v]
  BY <1>1, <1>2, RequestMoved DEF FetchSteps
<1>5. BETypes'
  BY <1>1, <1>2, <1>3, <1>4 DEF BETypes
<1>6. Exclusive' /\ \A v \in Workers \ {w} : ~Fetching(v)'
  BY <1>1, <1>2, <1>4, FetchMoved
<1>7. Fetched'
  BY <1>4, <1>6, FetchedBy
<1>8. PublishedIsWhole'
  <2>1. (botched => botched') /\ (Published(id) => botched')
    BY <1>2
  <2>2. QED BY <1>1, <1>2, <1>3, <2>1, DirectoryChanged
<1>9. QED BY <1>5, <1>6, <1>7, <1>8 DEF BootInv

\* The fetch ends and wakes who waits, or the process dies: none is left running.
LEMMA BootEnds ==
  ASSUME BootInv, (\E w \in Workers : FinishBuild(w)) \/ Crash
  PROVE  BootInv'
<1>1. BETypes /\ UNCHANGED <<second, dirs, links, current, botched>> /\ running' = FALSE
  BY DEF BootInv, FinishBuild, Crash, disk_, clocks
<1>2. Resting \in Requests /\ Resting.at = "idle"
  BY BEAssumption DEF Resting, Requests, FetchSteps
<1>3. worker' \in [Workers -> Requests] /\ \A v \in Workers : worker'[v].at \in {"idle", "checked", "waiting", "woken"}
  <2>1. CASE Crash
    BY <1>2, <2>1 DEF Crash
  <2>2. CASE \E w \in Workers : FinishBuild(w)
    <3>1. PICK w \in Workers : FinishBuild(w)
      BY <2>2
    <3>2. \A v \in Workers \ {w} : worker[v].at \in {"idle", "checked", "waiting", "woken"}
      BY <3>1 DEF BootInv, Exclusive, Fetching, FinishBuild
    <3>3. ASSUME NEW v \in Workers
          PROVE  worker'[v] \in Requests /\ worker'[v].at \in {"idle", "checked", "waiting", "woken"}
      <4>1. CASE v = w
        BY <1>2, <3>1, <4>1 DEF FinishBuild
      <4>2. CASE v # w /\ worker[v].at = "waiting"
        <5>1. worker'[v] = [worker[v] EXCEPT !.at = "woken"]
          BY <3>1, <4>2 DEF FinishBuild
        <5>2. QED BY <1>1, <5>1 DEF BETypes, Requests, FetchSteps
      <4>3. CASE v # w /\ ~(worker[v].at = "waiting")
        <5>1. worker'[v] = worker[v]
          BY <3>1, <4>3 DEF FinishBuild
        <5>2. QED BY <1>1, <3>2, <4>3, <5>1 DEF BETypes
      <4>4. QED BY <4>1, <4>2, <4>3
    <3>4. worker' = [v \in Workers |-> worker'[v]]
      BY <3>1 DEF FinishBuild
    <3>5. QED BY <3>3, <3>4
  <2>3. QED BY <2>1, <2>2
<1>4. BETypes'
  BY <1>1, <1>3 DEF BETypes
<1>5. Exclusive' /\ Fetched'
  BY <1>3 DEF Exclusive, Fetched, Fetching
<1>6. PublishedIsWhole'
  BY <1>1 DEF BootInv, PublishedIsWhole
<1>7. QED BY <1>4, <1>5, <1>6 DEF BootInv

LEMMA BootStep == BootInv /\ [BENext]_beVars => BootInv'
<1> SUFFICES ASSUME BootInv, [BENext]_beVars PROVE BootInv'
  OBVIOUS
<1>1. CASE \E w \in Workers : \/ \E waits \in BOOLEAN : CheckStatus_(w, waits)
                              \/ StartBuild(w) \/ StartRebuild(w) \/ Joins(w) \/ Wakes(w) \/ GivesUp(w)
                              \/ FetchStep(w) \/ OperationFails(w)
  <2>1. PICK w \in Workers : \/ \E waits \in BOOLEAN : CheckStatus_(w, waits)
                             \/ StartBuild(w) \/ StartRebuild(w) \/ Joins(w) \/ Wakes(w) \/ GivesUp(w)
                             \/ FetchStep(w) \/ OperationFails(w)
    BY <1>1
  <2>2. CASE (\E waits \in BOOLEAN : CheckStatus_(w, waits)) \/ Joins(w) \/ Wakes(w) \/ GivesUp(w)
    BY <2>2, BootAsks
  <2>3. CASE StartBuild(w) \/ StartRebuild(w)
    BY <2>3, BootBegins
  <2>4. CASE FetchStep(w) \/ OperationFails(w)
    BY <2>4, BootFetchSteps, BootPublishes, BootDownloads, BootCleansUp, BootEnds DEF FetchStep
  <2>5. QED BY <2>1, <2>2, <2>3, <2>4
<1>2. CASE Crash
  BY <1>2, BootEnds
<1>3. CASE NextSecond
  <2>1. second' \in Seconds /\ UNCHANGED <<running, worker, dirs, links, current, botched>>
    BY <1>3, BEAssumption DEF NextSecond, BootInv, BETypes, Seconds, disk_
  <2>2. QED BY <2>1 DEF BootInv, BETypes, Exclusive, Fetched, PublishedIsWhole, Fetching
<1>4. CASE UNCHANGED beVars
  BY <1>4 DEF BootInv, BETypes, Exclusive, Fetched, PublishedIsWhole, Fetching, beVars
<1>5. QED BY <1>1, <1>2, <1>3, <1>4 DEF BENext

LEMMA BootOneFetch == BootInv => OneFetch
<1> SUFFICES ASSUME BootInv PROVE Cardinality({w \in Workers : Fetching(w)}) <= 1
  BY DEF OneFetch
<1> DEFINE F == {w \in Workers : Fetching(w)}
<1>1. CASE F = {}
  BY <1>1, FS_EmptySet
<1>2. CASE F # {}
  <2>1. PICK w \in Workers : Fetching(w)
    BY <1>2
  <2>2. F = {w}
    BY <2>1 DEF BootInv, Exclusive
  <2>3. Cardinality(F) = 1
    BY <2>2, FS_Singleton
  <2>4. QED BY <2>3
<1>3. QED BY <1>1, <1>2

(* However many requests start, wait for or rebuild a boot environment, one   *)
(* fetch runs at a time (bootenv/manager.go: running and done).              *)
THEOREM FetchesAreExclusive == BESpec => []OneFetch
BY BootStart, BootStep, BootOneFetch, PTL DEF BESpec

(* The links the PXE server hands out, and current, point to verified files   *)
(* at every step of a rebuild, its failures and crashes included, unless a    *)
(* failure removed or spoiled a directory that was published already.         *)
THEOREM PublishedStaysWhole == BESpec => []PublishedIsWhole
<1>1. BootInv => PublishedIsWhole
  BY DEF BootInv
<1>2. QED BY BootStart, BootStep, <1>1, PTL DEF BESpec
-----------------------------------------------------------------------------
(* OS images: the listing                                                  *)

Working == {"download", "verify", "record", "mark"}
Payloads == Contents \cup {"none", "partial"}
Rows == [exists : BOOLEAN, ready : BOOLEAN, path : Paths, sum : Sums, root : Sums]
Edits == [at : {"idle", "download", "upload", "status", "upsert"}, img : Images,
          ready : BOOLEAN, path : Paths, read : Rows]
Files_ == [content : Payloads, record : Sums, marked : BOOLEAN]
Items == [page : Nat, img : Images, sum : Sums]

ISTypes ==
    /\ artifact \in [Images -> BOOLEAN]
    /\ row \in [Images -> Rows]
    /\ payload \in [Images -> Payloads]
    /\ edit \in Edits
    /\ files \in [Images -> Files_]
    /\ agent \in [at : {"idle", "list", "image", "hung"} \cup Working, offset : Nat,
                  ready : SUBSET Items, todo : SUBSET Items, cur : Items, done : SUBSET Items]
    /\ kept \subseteq Images
    /\ shifted \in BOOLEAN /\ cut \in BOOLEAN /\ spoiled \in BOOLEAN

(* An operation that writes a row back has read one that was there. *)
ReadRow == edit.at = "upsert" => edit.read.exists

LEMMA ISConstants ==
    /\ NoRow \in Rows /\ ~NoRow.exists
    /\ NoEdit \in Edits /\ NoEdit.at = "idle"
    /\ NoFile_ \in Files_
    /\ NoItem \in Items
    /\ \A page \in Nat, i \in Images, sum \in Sums : Item(page, i, sum) \in Items
    /\ \A ready \in BOOLEAN, path \in Paths, sum, root \in Sums : Row(ready, path, sum, root) \in Rows
    /\ NoSum \in Sums
    /\ \A i \in Images, r \in Rows : artifact[i] \in BOOLEAN => AgentSum(i, r) \in Sums
<1>1. 1 \in Images /\ NoSum \in Sums /\ "none" \in Payloads /\ "none" \in Paths
  BY ISAssumption DEF Images, Sums, Payloads, Paths
<1>2. \A ready \in BOOLEAN, path \in Paths, sum, root \in Sums : Row(ready, path, sum, root) \in Rows
  BY DEF Row, Rows
<1>3. NoRow \in Rows /\ ~NoRow.exists
  BY <1>1 DEF NoRow, Row, Rows
<1>4. NoEdit \in Edits /\ NoEdit.at = "idle"
  BY <1>1, <1>3 DEF NoEdit, Edits
<1>8. \A sum \in Sums : Trimmed(sum) \in Sums
  BY ISAssumption DEF Trimmed, Sums, NoSum, Sum_
<1>9. \A i \in Images, r \in Rows : artifact[i] \in BOOLEAN => AgentSum(i, r) \in Sums
  BY <1>8 DEF AgentSum, Rows
<1>5. NoFile_ \in Files_
  BY <1>1 DEF NoFile_, Files_
<1>6. NoItem \in Items /\ \A page \in Nat, i \in Images, sum \in Sums : Item(page, i, sum) \in Items
  BY <1>1 DEF NoItem, Item, Items
<1>7. QED BY <1>1, <1>2, <1>3, <1>4, <1>5, <1>6, <1>9

(* What the steps do to the server's state: nothing, or one row is written. *)
RowKept == UNCHANGED <<row, kept, shifted>>
RowWritten(i, r) == Sets(i, r) /\ (~r.exists => row[i].exists)

(* The operators' side of the server, with the agent left alone. *)
Operators ==
    \/ \E i \in Images : \/ \E sum, root \in Sums, url \in BOOLEAN : CreateOSImage(i, sum, root, url)
                         \/ UploadOSImage(i) \/ DeleteOSImage(i)
                         \/ \E ready \in BOOLEAN, path \in Paths : UpdateOSImageStatus(i, ready, path)
    \/ \E c \in Contents : DownloadURLImage(c) \/ UploadEnds(c)
    \/ StatusRead \/ StatusWrite \/ EditFails

LEMMA OperatorSteps ==
    ASSUME ISTypes, ReadRow, Operators
    PROVE  /\ UNCHANGED <<artifact, files, agent, cut, spoiled>>
           /\ payload' \in [Images -> Payloads]
           /\ edit' \in Edits
           /\ ReadRow'
           /\ RowKept \/ \E i \in Images, r \in Rows : RowWritten(i, r)
<1>0. /\ edit.img \in Images /\ edit.read \in Rows /\ edit.ready \in BOOLEAN /\ edit.path \in Paths
      /\ payload \in [Images -> Payloads] /\ row \in [Images -> Rows] /\ edit \in Edits
  BY DEF ISTypes, Edits
<1>1. \A c \in Contents : c \in Payloads
  BY DEF Payloads
<1>2. ASSUME NEW ready \in BOOLEAN, NEW path \in Paths, ToStatus(ready, path)
      PROVE  edit' \in Edits /\ ReadRow'
  BY <1>0, <1>2 DEF ToStatus, Edits, ReadRow
<1>3. ASSUME edit' = NoEdit PROVE edit' \in Edits /\ ReadRow'
  BY <1>3, ISConstants DEF ReadRow
<1>4. ASSUME NEW i \in Images, NEW sum \in Sums, NEW root \in Sums, NEW url \in BOOLEAN,
             CreateOSImage(i, sum, root, url)
      PROVE  /\ UNCHANGED <<artifact, payload, files, agent, cut, spoiled>>
             /\ edit' \in Edits /\ ReadRow'
             /\ RowWritten(i, Created(sum, root)) /\ Created(sum, root) \in Rows
  <2>1. Created(sum, root) \in Rows /\ Created(sum, root).exists
    BY ISConstants DEF Created, Row, Paths
  <2>2. row' = [row EXCEPT ![i] = Created(sum, root)]
    BY <1>4 DEF CreateOSImage, Sets
  <2>3. row'[i] \in Rows
    BY <1>0, <2>1, <2>2
  <2>4. CASE edit' = NoEdit
    BY <1>3, <1>4, <2>1, <2>4 DEF CreateOSImage, RowWritten, agents
  <2>5. CASE edit' = [NoEdit EXCEPT !.at = "download", !.img = i, !.read = row'[i]]
    <3>1. edit' \in Edits /\ edit'.at = "download"
      BY <2>3, <2>5, ISConstants DEF Edits
    <3>2. QED BY <1>4, <2>1, <3>1 DEF CreateOSImage, RowWritten, ReadRow, agents
  <2>6. QED BY <1>4, <2>4, <2>5 DEF CreateOSImage
<1>5. ASSUME NEW i \in Images, UploadOSImage(i)
      PROVE  /\ UNCHANGED <<artifact, row, kept, shifted, files, agent, cut, spoiled>>
             /\ payload' \in [Images -> Payloads] /\ edit' \in Edits /\ ReadRow'
  <2>1. edit' = [NoEdit EXCEPT !.at = "upload", !.img = i]
    BY <1>5 DEF UploadOSImage
  <2>2. edit' \in Edits /\ ReadRow'
    BY <2>1, ISConstants DEF Edits, ReadRow
  <2>3. payload' \in [Images -> Payloads]
    BY <1>0, <1>5 DEF UploadOSImage, Payloads
  <2>4. QED BY <1>5, <2>2, <2>3 DEF UploadOSImage, agents, since
<1>6. ASSUME NEW i \in Images, DeleteOSImage(i)
      PROVE  /\ UNCHANGED <<artifact, payload, edit, files, agent, cut, spoiled>>
             /\ RowWritten(i, NoRow)
  BY <1>6 DEF DeleteOSImage, RowWritten, agents
<1>7. ASSUME NEW i \in Images, NEW ready \in BOOLEAN, NEW path \in Paths, UpdateOSImageStatus(i, ready, path)
      PROVE  /\ UNCHANGED <<artifact, payload, row, kept, shifted, files, agent, cut, spoiled>>
             /\ edit' \in Edits /\ ReadRow'
  <2>2. edit' = [NoEdit EXCEPT !.at = "status", !.img = i, !.ready = ready, !.path = path]
    BY <1>7 DEF UpdateOSImageStatus
  <2>3. edit' \in Edits /\ ReadRow'
    BY <1>7, <2>2, ISConstants DEF Edits, ReadRow
  <2>4. QED BY <1>7, <2>3 DEF UpdateOSImageStatus, agents, since
<1>8. ASSUME NEW c \in Contents, DownloadURLImage(c) \/ UploadEnds(c)
      PROVE  /\ UNCHANGED <<artifact, row, kept, shifted, files, agent, cut, spoiled>>
             /\ payload' \in [Images -> Payloads] /\ edit' \in Edits /\ ReadRow'
  <2>1. (ToStatus(TRUE, "own") \/ ToStatus(FALSE, "none")) /\ "own" \in Paths /\ "none" \in Paths
    BY <1>8 DEF DownloadURLImage, UploadEnds, Paths
  <2>2. payload' = payload \/ payload' = [payload EXCEPT ![edit.img] = c]
    BY <1>8 DEF DownloadURLImage, UploadEnds
  <2>3. payload' \in [Images -> Payloads]
    BY <1>0, <1>1, <2>2
  <2>4. QED BY <1>2, <1>8, <2>1, <2>3 DEF DownloadURLImage, UploadEnds, agents, since
<1>9. CASE StatusRead
  <2>1. row[edit.img] \in Rows
    BY <1>0
  <2>2. CASE row[edit.img].exists
    <3>1. edit' = [edit EXCEPT !.at = "upsert", !.read = row[edit.img]]
      BY <1>9, <2>2 DEF StatusRead
    <3>2. edit' \in Edits /\ ReadRow'
      BY <1>0, <2>1, <2>2, <3>1 DEF Edits, ReadRow
    <3>3. QED BY <1>0, <1>9, <3>2 DEF StatusRead, RowKept, agents, since
  <2>3. CASE ~row[edit.img].exists
    BY <1>0, <1>3, <1>9, <2>3 DEF StatusRead, RowKept, agents, since
  <2>4. QED BY <2>2, <2>3
<1>10. CASE StatusWrite
  <2> DEFINE r == [edit.read EXCEPT !.ready = edit.ready, !.path = edit.path]
  <2>1. r \in Rows /\ r.exists
    BY <1>0, <1>10 DEF StatusWrite, ReadRow, Rows
  <2>2. RowWritten(edit.img, r)
    BY <1>10, <2>1 DEF StatusWrite, RowWritten
  <2> HIDE DEF r
  <2>3. QED BY <1>0, <1>3, <1>10, <2>1, <2>2 DEF StatusWrite, agents
<1>11. CASE EditFails
  BY <1>0, <1>3, <1>11 DEF EditFails, RowKept, agents, since
<1>12. QED
  <2>1. ASSUME NEW i \in Images, NEW sum \in Sums, NEW root \in Sums, NEW url \in BOOLEAN,
             CreateOSImage(i, sum, root, url)
        PROVE  \E j \in Images, r \in Rows : RowWritten(j, r)
    BY <1>4, <2>1
  <2>2. ASSUME NEW i \in Images, DeleteOSImage(i)
        PROVE  \E j \in Images, r \in Rows : RowWritten(j, r)
    BY <1>6, <2>2, ISConstants
  <2>3. QED BY <1>0, <1>4, <1>5, <1>6, <1>7, <1>8, <1>9, <1>10, <1>11, <2>1, <2>2
            DEF Operators, ReadRow, RowKept

(* What a step of the agent does to its own state, and that it leaves the   *)
(* operators' alone; only a new sync starts a new history of them.          *)
AgentStep_ == AgentStep \/ ImageFails \/ AgentDies \/ RequestHangs
AgentStates == [at : {"idle", "list", "image", "hung"} \cup Working, offset : Nat,
                ready : SUBSET Items, todo : SUBSET Items, cur : Items, done : SUBSET Items]

LEMMA NoSyncType == NoSync \in AgentStates /\ NoSync.at = "idle" /\ NoSync.done = {} /\ NoSync.offset = 0
  BY ISConstants DEF NoSync, AgentStates

LEMMA FetchTypes ==
    ASSUME ISTypes, FetchImages
    PROVE  agent' \in AgentStates /\ agent'.done = agent.done
<1> DEFINE page == {i \in Listed : agent.offset <= Position(i) /\ Position(i) < agent.offset + PageSize}
           new == {Item(agent.offset, i, AgentSum(i, row[i])) : i \in {k \in page : row[k].ready}}
           all == agent.ready \cup new
<1>1. agent \in AgentStates /\ agent.offset \in Nat /\ row \in [Images -> Rows] /\ agent.ready \subseteq Items
  BY DEF ISTypes, AgentStates
<1>2. page \subseteq Images
  BY DEF Listed
<1>3. new \subseteq Items
  <2>1. ASSUME NEW i \in page PROVE Item(agent.offset, i, AgentSum(i, row[i])) \in Items
    <3>1. i \in Images
      BY <1>2
    <3>2. AgentSum(i, row[i]) \in Sums
      BY <1>1, <3>1, ISConstants DEF ISTypes
    <3>3. QED BY <1>1, <3>1, <3>2, ISConstants
  <2> HIDE DEF page
  <2>2. QED BY <2>1
<1>4. all \in SUBSET Items
  BY <1>1, <1>3
<1>5. \/ agent' = [agent EXCEPT !.ready = all, !.offset = @ + PageSize]
      \/ agent' = [agent EXCEPT !.ready = all, !.todo = all, !.at = "image"]
  BY DEF FetchImages
<1> HIDE DEF all
<1>6. agent.offset + PageSize \in Nat
  BY <1>1, ISAssumption
<1>7. QED BY <1>1, <1>4, <1>5, <1>6 DEF AgentStates

LEMMA AgentTypes ==
    ASSUME ISTypes, AgentStep_
    PROVE  agent' \in AgentStates /\ files' \in [Images -> Files_] /\ cut' \in BOOLEAN /\ spoiled' \in BOOLEAN
<1>0. /\ agent \in AgentStates /\ files \in [Images -> Files_] /\ cut \in BOOLEAN /\ spoiled \in BOOLEAN
      /\ payload \in [Images -> Payloads] /\ agent.cur \in Items /\ agent.done \subseteq Items /\ agent.todo \subseteq Items
  BY DEF ISTypes, AgentStates
<1>1. agent.cur.img \in Images /\ agent.cur.sum \in Sums
  BY <1>0 DEF Items
<1>2. ASSUME NEW i \in Images
      PROVE  /\ files[i] \in Files_
             /\ \A c \in Payloads : [files[i] EXCEPT !.content = c] \in Files_
             /\ \A s \in Sums : [files[i] EXCEPT !.record = s] \in Files_
             /\ [files[i] EXCEPT !.marked = TRUE] \in Files_
  BY <1>0 DEF Files_
<1>3. ASSUME NEW i \in Images, NEW f \in Files_, File(i, f) PROVE files' \in [Images -> Files_]
  BY <1>0, <1>3 DEF File
<1>4. ASSUME NEW a \in {"idle", "list", "image", "hung"} \cup Working, At_(a) PROVE agent' \in AgentStates
  BY <1>0, <1>4 DEF At_, AgentStates
<1>5. ASSUME NextImage PROVE agent' \in AgentStates
  BY <1>0, <1>5, ISConstants DEF NextImage, AgentStates
<1>6. CASE SyncOnce
  BY <1>0, <1>6, NoSyncType DEF SyncOnce, AgentStates
<1>7. CASE FetchImages
  BY <1>0, <1>7, FetchTypes DEF FetchImages
<1>8. CASE LookAtImage
  <2>1. PICK d \in agent.todo :
             agent' = [agent EXCEPT !.at = IF NeedsDownload(d.img, d.sum) THEN "download" ELSE "mark",
                                    !.todo = @ \ {d}, !.cur = d,
                                    !.done = {x \in @ : x.img # d.img}]
    BY <1>8 DEF LookAtImage
  <2>2. d \in Items
    BY <1>0
  <2>3. agent' \in AgentStates
    BY <1>0, <2>1, <2>2 DEF AgentStates, Working
  <2>4. QED BY <1>0, <1>8, <2>3 DEF LookAtImage, AgentOnly
<1>9. CASE Download_
  <2>1. Sent(agent.cur.img) \subseteq Payloads
    BY <1>0, <1>1 DEF Sent, Payloads
  <2>2. files' \in [Images -> Files_]
    <3>1. UNCHANGED files \/ \E c \in Sent(agent.cur.img) :
                                 File(agent.cur.img, [files[agent.cur.img] EXCEPT !.content = c])
      BY <1>9 DEF Download_, Img
    <3>2. QED BY <1>0, <1>1, <1>2, <1>3, <2>1, <3>1
  <2>3. agent' \in AgentStates
    BY <1>4, <1>5, <1>9 DEF Download_, Working
  <2>4. cut' \in BOOLEAN
    BY <1>0, <1>9 DEF Download_
  <2>5. QED BY <1>0, <1>9, <2>2, <2>3, <2>4 DEF Download_, AgentOnly
<1>10. CASE Verify_
  <2>1. "none" \in Payloads
    BY DEF Payloads
  <2>2. files' \in [Images -> Files_]
    BY <1>0, <1>1, <1>2, <1>3, <1>10, <2>1 DEF Verify_, Img
  <2>3. agent' \in AgentStates
    BY <1>4, <1>5, <1>10 DEF Verify_, Working
  <2>4. QED BY <1>0, <1>10, <2>2, <2>3 DEF Verify_, AgentOnly
<1>11. CASE WriteSourceChecksum
  <2>1. files' \in [Images -> Files_]
    BY <1>1, <1>2, <1>3, <1>11 DEF WriteSourceChecksum, Img
  <2>2. agent' \in AgentStates
    BY <1>4, <1>11 DEF WriteSourceChecksum, Working
  <2>3. QED BY <1>0, <1>11, <2>1, <2>2 DEF WriteSourceChecksum, AgentOnly
<1>12. CASE WriteManagedMarker
  <2>1. files' \in [Images -> Files_]
    BY <1>1, <1>2, <1>3, <1>12 DEF WriteManagedMarker, Img
  <2>2. agent' \in AgentStates
    BY <1>0, <1>12, ISConstants DEF WriteManagedMarker, AgentStates, Img
  <2>3. QED BY <1>0, <1>12, <2>1, <2>2 DEF WriteManagedMarker, AgentOnly
<1>13. CASE CleanupStaleFiles
  <2>1. files' \in [Images -> Files_]
    BY <1>0, <1>13, ISConstants DEF CleanupStaleFiles
  <2>2. spoiled' \in BOOLEAN
    BY <1>0, <1>13 DEF CleanupStaleFiles
  <2>3. QED BY <1>0, <1>13, <2>1, <2>2, NoSyncType DEF CleanupStaleFiles
<1>14. CASE ImageFails
  <2>1. "none" \in Payloads
    BY DEF Payloads
  <2>2. files' \in [Images -> Files_]
    BY <1>0, <1>1, <1>2, <1>3, <1>14, <2>1 DEF ImageFails, Img
  <2>3. QED BY <1>0, <1>5, <1>14, <2>2 DEF ImageFails
<1>15. CASE AgentDies
  BY <1>0, <1>15, NoSyncType DEF AgentDies
<1>17. CASE RequestHangs
  BY <1>0, <1>4, <1>17 DEF RequestHangs
<1>16. QED BY <1>6, <1>7, <1>8, <1>9, <1>10, <1>11, <1>12, <1>13, <1>14, <1>15, <1>17 DEF AgentStep_, AgentStep

LEMMA AgentLeavesServer ==
    ASSUME AgentStep_
    PROVE  UNCHANGED <<artifact, row, payload, edit>> /\ (UNCHANGED <<kept, shifted>> \/ SyncOnce)
  BY DEF AgentStep_, AgentStep, SyncOnce, FetchImages, LookAtImage, Download_, Verify_, WriteSourceChecksum,
         WriteManagedMarker, CleanupStaleFiles, ImageFails, AgentDies, RequestHangs, AgentOnly, images, since

LEMMA RowWrittenTypes ==
    ASSUME ISTypes, NEW i \in Images, NEW r \in Rows, RowWritten(i, r)
    PROVE  /\ row' \in [Images -> Rows]
           /\ kept' \subseteq kept
           /\ shifted' \in BOOLEAN
           /\ row'[i] = r /\ \A j \in Images : j # i => row'[j] = row[j]
           /\ i \in kept' => r.exists /\ r.ready
<1>1. row \in [Images -> Rows] /\ kept \subseteq Images /\ shifted \in BOOLEAN
  BY DEF ISTypes
<1>2. row' = [row EXCEPT ![i] = r] /\ kept' = IF r.exists /\ r.ready THEN kept ELSE kept \ {i}
  BY DEF RowWritten, Sets
<1>3. shifted' = (shifted \/ (row[i].exists /\ ~r.exists /\ agent.at = "list"))
  BY DEF RowWritten, Sets
<1>4. QED BY <1>1, <1>2, <1>3

LEMMA SyncTypes ==
    ASSUME ISTypes, ReadRow, ISNext
    PROVE  ISTypes' /\ ReadRow'
<1>1. CASE Operators
  <2>1. /\ UNCHANGED <<artifact, files, agent, cut, spoiled>> /\ payload' \in [Images -> Payloads]
        /\ edit' \in Edits /\ ReadRow' /\ (RowKept \/ \E i \in Images, r \in Rows : RowWritten(i, r))
    BY <1>1, OperatorSteps
  <2>2. row' \in [Images -> Rows] /\ kept' \subseteq Images /\ shifted' \in BOOLEAN
    <3>1. CASE RowKept
      BY <3>1 DEF RowKept, ISTypes
    <3>2. ASSUME NEW i \in Images, NEW r \in Rows, RowWritten(i, r)
          PROVE  row' \in [Images -> Rows] /\ kept' \subseteq Images /\ shifted' \in BOOLEAN
      BY <3>2, RowWrittenTypes DEF ISTypes
    <3>3. QED BY <2>1, <3>1, <3>2
  <2>3. QED BY <2>1, <2>2 DEF ISTypes
<1>2. CASE AgentStep_
  <2>1. UNCHANGED <<artifact, row, payload, edit>> /\ (UNCHANGED <<kept, shifted>> \/ SyncOnce)
    BY <1>2, AgentLeavesServer
  <2>2. kept' \subseteq Images /\ shifted' \in BOOLEAN
    BY <2>1 DEF SyncOnce, ISTypes
  <2>3. agent' \in AgentStates /\ files' \in [Images -> Files_] /\ cut' \in BOOLEAN /\ spoiled' \in BOOLEAN
    BY <1>2, AgentTypes
  <2>4. ReadRow'
    BY <2>1 DEF ReadRow
  <2>5. QED BY <2>1, <2>2, <2>3, <2>4 DEF ISTypes, AgentStates
<1>3. QED BY <1>1, <1>2 DEF ISNext, Operators, AgentStep_

-----------------------------------------------------------------------------
(* OS images: what the cleanup may remove                                  *)

LEMMA Ranks ==
    /\ IsFiniteSet(Listed)
    /\ \A i \in Images : Position(i) \in Nat
    /\ \A i \in Listed : Position(i) < Cardinality(Listed)
    /\ Cardinality(Listed) \in Nat
<1>1. IsFiniteSet(Images)
  BY ISAssumption, FS_Interval DEF Images
<1>2. Listed \subseteq Images
  BY DEF Listed
<1>3. IsFiniteSet(Listed) /\ Cardinality(Listed) \in Nat
  BY <1>1, <1>2, FS_Subset, FS_CardinalityType
<1>4. ASSUME NEW i \in Images PROVE Position(i) \in Nat
  <2>1. {k \in Listed : k < i} \subseteq Listed
    OBVIOUS
  <2>2. IsFiniteSet({k \in Listed : k < i})
    BY <1>3, <2>1, FS_Subset
  <2>3. QED BY <2>2, FS_CardinalityType DEF Position
<1>5. ASSUME NEW i \in Listed PROVE Position(i) < Cardinality(Listed)
  <2>1. {k \in Listed : k < i} \subseteq Listed \ {i}
    BY <1>2 DEF Images
  <2>2. IsFiniteSet(Listed \ {i}) /\ Cardinality(Listed \ {i}) = Cardinality(Listed) - 1
    BY <1>3, FS_RemoveElement
  <2>3. Cardinality({k \in Listed : k < i}) <= Cardinality(Listed \ {i})
    BY <2>1, <2>2, FS_Subset
  <2>4. Position(i) <= Cardinality(Listed) - 1
    BY <2>2, <2>3 DEF Position
  <2>5. Position(i) \in Nat
    BY <1>2, <1>4
  <2>6. QED BY <1>3, <2>4, <2>5
<1>6. QED BY <1>3, <1>4, <1>5

(* A position only grows as long as no listed row is deleted. *)
LEMMA PositionsGrow ==
    ASSUME Listed \subseteq Listed', NEW i \in Images, Position(i) \in Nat, IsFiniteSet(Listed')
    PROVE  Position(i)' \in Nat /\ Position(i) <= Position(i)'
<1>1. {k \in Listed : k < i} \subseteq {k \in Listed' : k < i}
  OBVIOUS
<1>2. {k \in Listed' : k < i} \subseteq Listed'
  OBVIOUS
<1>3. IsFiniteSet({k \in Listed' : k < i})
  BY <1>2, FS_Subset
<1>4. /\ Cardinality({k \in Listed : k < i}) <= Cardinality({k \in Listed' : k < i})
      /\ Cardinality({k \in Listed' : k < i}) \in Nat
  BY <1>1, <1>3, FS_Subset, FS_CardinalityType
<1>5. QED BY <1>4 DEF Position

(* The images in kept that lie before the next page are in the list, and    *)
(* once the listing is complete all of them are.                            *)
KeptIsReady == \A i \in kept : row[i].exists /\ row[i].ready
PagesRead == agent.at = "list" /\ ~shifted => \A i \in kept : Position(i) < agent.offset => Expected(i)
AllRead == agent.at \in {"image"} \cup Working /\ ~shifted => \A i \in kept : Expected(i)
ListingInv == ISTypes /\ ReadRow /\ KeptIsReady /\ PagesRead /\ AllRead /\ CleanupSparesReady

LEMMA OperatorsKeepListing ==
    ASSUME ListingInv, Operators
    PROVE  KeptIsReady' /\ PagesRead' /\ AllRead' /\ CleanupSparesReady'
<1>1. UNCHANGED <<agent, spoiled>> /\ (RowKept \/ \E i \in Images, r \in Rows : RowWritten(i, r))
  BY OperatorSteps DEF ListingInv
<1>2. CASE RowKept
  BY <1>1, <1>2 DEF RowKept, ListingInv, KeptIsReady, PagesRead, AllRead, CleanupSparesReady, Position, Listed,
                    Expected
<1>3. ASSUME NEW i \in Images, NEW r \in Rows, RowWritten(i, r)
      PROVE  KeptIsReady' /\ PagesRead' /\ AllRead' /\ CleanupSparesReady'
  <2>1. /\ kept' \subseteq kept /\ shifted' \in BOOLEAN /\ row'[i] = r
        /\ \A j \in Images : j # i => row'[j] = row[j]
        /\ i \in kept' => r.exists /\ r.ready
    BY <1>3, RowWrittenTypes DEF ListingInv
  <2>2. kept \subseteq Images
    BY DEF ListingInv, ISTypes
  <2>3. KeptIsReady'
    <3>1. ASSUME NEW j \in kept' PROVE row'[j].exists /\ row'[j].ready
      BY <2>1, <2>2 DEF ListingInv, KeptIsReady
    <3>2. QED BY <3>1 DEF KeptIsReady
  <2>4. \A j : Expected(j)' <=> Expected(j)
    BY <1>1 DEF Expected
  <2>5. shifted' = (shifted \/ (row[i].exists /\ ~r.exists /\ agent.at = "list")) /\ (~r.exists => row[i].exists)
    BY <1>3 DEF RowWritten, Sets
  <2>6. AllRead'
    BY <1>1, <2>1, <2>4, <2>5 DEF ListingInv, AllRead
  <2>7. PagesRead'
    <3>1. SUFFICES ASSUME agent.at = "list", ~shifted', NEW j \in kept', Position(j)' < agent.offset
                   PROVE  Expected(j)
      BY <1>1, <2>4 DEF PagesRead
    <3>2. r.exists /\ ~shifted
      BY <2>5, <3>1
    <3>3. Listed \subseteq Listed'
      <4>1. ASSUME NEW k \in Images, row[k].exists PROVE row'[k].exists
        BY <2>1, <3>2, <4>1
      <4>2. QED BY <4>1 DEF Listed
    <3>4. j \in Images /\ j \in kept /\ Position(j) \in Nat
      BY <2>1, <2>2, Ranks
    <3>5. IsFiniteSet(Listed')
      <4>1. Listed' \subseteq Images
        BY DEF Listed
      <4>2. IsFiniteSet(Images)
        BY ISAssumption, FS_Interval DEF Images
      <4>3. QED BY <4>1, <4>2, FS_Subset
    <3>6. Position(j)' \in Nat /\ Position(j) <= Position(j)'
      BY <3>3, <3>4, <3>5, PositionsGrow
    <3>7. agent.offset \in Nat
      BY DEF ListingInv, ISTypes
    <3>8. Position(j) < agent.offset
      BY <3>1, <3>4, <3>6, <3>7
    <3>9. QED BY <3>1, <3>2, <3>4, <3>8 DEF ListingInv, PagesRead
  <2>8. QED BY <1>1, <2>3, <2>6, <2>7 DEF ListingInv, CleanupSparesReady
<1>4. QED BY <1>1, <1>2, <1>3

LEMMA FetchKeepsListing ==
    ASSUME ListingInv, FetchImages
    PROVE  PagesRead' /\ AllRead'
<1> DEFINE page == {i \in Listed : agent.offset <= Position(i) /\ Position(i) < agent.offset + PageSize}
           all == agent.ready \cup {Item(agent.offset, i, AgentSum(i, row[i])) : i \in {k \in page : row[k].ready}}
<1>0. /\ agent.at = "list" /\ UNCHANGED <<row, kept, shifted>>
      /\ agent.offset \in Nat /\ kept \subseteq Images /\ agent \in AgentStates
  BY DEF FetchImages, ListingInv, ISTypes, images, since, AgentStates
<1>1. \A i \in Images : Position(i)' = Position(i)
  BY <1>0 DEF Position, Listed
<1>2. ASSUME ~shifted, NEW i \in kept, Position(i) < agent.offset + PageSize
      PROVE  \E d \in all : d.img = i
  <2>1. row[i].exists /\ row[i].ready /\ i \in Images /\ i \in Listed
    BY <1>0 DEF ListingInv, KeptIsReady, Listed
  <2>2. Position(i) \in Nat
    BY <2>1, Ranks
  <2>3. CASE Position(i) < agent.offset
    BY <1>0, <1>2, <2>3 DEF ListingInv, PagesRead, Expected
  <2>4. CASE agent.offset <= Position(i)
    <3>1. i \in {k \in page : row[k].ready}
      BY <1>2, <2>1, <2>4
    <3>2. Item(agent.offset, i, AgentSum(i, row[i])) \in all
      BY <3>1
    <3>3. Item(agent.offset, i, AgentSum(i, row[i])).img = i
      BY DEF Item
    <3>4. QED BY <3>2, <3>3
  <2>5. QED BY <1>0, <2>2, <2>3, <2>4
<1>3. agent' = IF HasNext(agent.offset, Cardinality(Listed))
               THEN [agent EXCEPT !.ready = all, !.offset = @ + PageSize]
               ELSE [agent EXCEPT !.ready = all, !.todo = all, !.at = "image"]
  BY DEF FetchImages
<1>4. ASSUME ~HasNext(agent.offset, Cardinality(Listed)), NEW i \in kept PROVE Position(i) < agent.offset + PageSize
  <2>1. i \in Images /\ i \in Listed
    BY <1>0 DEF ListingInv, KeptIsReady, Listed
  <2>2. QED BY <1>0, <1>4, <2>1, Ranks, ISAssumption DEF HasNext
<1> HIDE DEF all
<1>5. CASE HasNext(agent.offset, Cardinality(Listed))
  <2>1. agent'.at = "list" /\ agent'.ready = all /\ agent'.offset = agent.offset + PageSize
    BY <1>0, <1>3, <1>5 DEF AgentStates
  <2>2. AllRead'
    BY <2>1 DEF AllRead, Working
  <2>3. PagesRead'
    BY <1>0, <1>1, <1>2, <2>1 DEF PagesRead, Expected
  <2>4. QED BY <2>2, <2>3
<1>6. CASE ~HasNext(agent.offset, Cardinality(Listed))
  <2>1. agent'.at = "image" /\ agent'.ready = all
    BY <1>0, <1>3, <1>6 DEF AgentStates
  <2>2. PagesRead'
    BY <2>1 DEF PagesRead
  <2>3. AllRead'
    BY <1>0, <1>2, <1>4, <1>6, <2>1 DEF AllRead, Expected
  <2>4. QED BY <2>2, <2>3
<1>7. QED BY <1>5, <1>6

LEMMA AgentKeepsListing ==
    ASSUME ListingInv, AgentStep_
    PROVE  KeptIsReady' /\ PagesRead' /\ AllRead' /\ CleanupSparesReady'
<1>0. agent \in AgentStates /\ ~spoiled
  BY DEF ListingInv, ISTypes, AgentStates, CleanupSparesReady
<1>1. CASE SyncOnce
  <2>1. agent' = [NoSync EXCEPT !.at = "list"]
    BY <1>1 DEF SyncOnce
  <2>2. agent'.at = "list" /\ agent'.offset = 0
    BY <2>1, NoSyncType DEF AgentStates
  <2>3. \A i \in Images : Position(i)' \in Nat
    <3>1. UNCHANGED row
      BY <1>1 DEF SyncOnce, images
    <3>2. \A i \in Images : Position(i)' = Position(i)
      BY <3>1 DEF Position, Listed
    <3>3. QED BY <3>2, Ranks
  <2>4. kept' \subseteq Images /\ KeptIsReady'
    BY <1>1 DEF SyncOnce, KeptIsReady, images
  <2>5. PagesRead'
    BY <2>2, <2>3, <2>4 DEF PagesRead
  <2>6. AllRead'
    BY <2>2 DEF AllRead, Working
  <2>7. CleanupSparesReady'
    BY <1>0, <1>1 DEF SyncOnce, CleanupSparesReady
  <2>8. QED BY <2>4, <2>5, <2>6, <2>7
<1>2. CASE FetchImages
  <2>1. KeptIsReady' /\ CleanupSparesReady'
    BY <1>0, <1>2 DEF FetchImages, ListingInv, KeptIsReady, CleanupSparesReady, images, since
  <2>2. QED BY <1>2, <2>1, FetchKeepsListing
<1>3. ASSUME LookAtImage \/ Download_ \/ Verify_ \/ WriteSourceChecksum \/ WriteManagedMarker \/ ImageFails
      PROVE  KeptIsReady' /\ PagesRead' /\ AllRead' /\ CleanupSparesReady'
  <2>1. UNCHANGED <<row, kept, shifted, spoiled>>
    BY <1>3 DEF LookAtImage, Download_, Verify_, WriteSourceChecksum, WriteManagedMarker, ImageFails, AgentOnly,
                images, since
  <2>2. agent.at \in {"image"} \cup Working
    BY <1>3 DEF LookAtImage, Download_, Verify_, WriteSourceChecksum, WriteManagedMarker, ImageFails, Working
  <2>3. agent'.ready = agent.ready /\ agent'.at \in {"image"} \cup Working
    <3>1. CASE LookAtImage
      BY <1>0, <3>1 DEF LookAtImage, AgentStates, Working
    <3>2. CASE Download_ \/ Verify_ \/ WriteSourceChecksum \/ WriteManagedMarker \/ ImageFails
      BY <1>0, <3>2 DEF Download_, Verify_, WriteSourceChecksum, WriteManagedMarker, ImageFails, NextImage, At_,
                        AgentStates, Working
    <3>3. QED BY <1>3, <3>1, <3>2
  <2>4. AllRead' /\ PagesRead'
    BY <2>1, <2>2, <2>3 DEF ListingInv, AllRead, PagesRead, Expected, Working
  <2>5. QED BY <1>0, <2>1, <2>4 DEF ListingInv, KeptIsReady, CleanupSparesReady
<1>4. CASE CleanupStaleFiles
  <2>1. agent' = NoSync /\ UNCHANGED <<row, kept, shifted>> /\ agent.at = "image"
    BY <1>4 DEF CleanupStaleFiles, images, since
  <2>2. spoiled' = (spoiled \/ ({i \in Images : files[i].content # "none" /\ files[i].marked /\ ~Expected(i)} \cap kept # {}
                                 /\ ~shifted))
    BY <1>4 DEF CleanupStaleFiles
  <2>3. ~shifted => \A i \in kept : Expected(i)
    BY <2>1 DEF ListingInv, AllRead
  <2>4. ~spoiled'
    BY <1>0, <2>2, <2>3
  <2>5. QED BY <2>1, <2>4, NoSyncType DEF ListingInv, KeptIsReady, PagesRead, AllRead, CleanupSparesReady, Working
<1>5. CASE AgentDies
  <2>1. agent' = NoSync /\ UNCHANGED <<row, kept, shifted, spoiled>>
    BY <1>5 DEF AgentDies, images, since
  <2>2. QED BY <1>0, <2>1, NoSyncType DEF ListingInv, KeptIsReady, PagesRead, AllRead, CleanupSparesReady, Working
<1>6. CASE RequestHangs
  <2>1. agent'.at = "hung" /\ UNCHANGED <<row, kept, shifted, spoiled>>
    BY <1>0, <1>6 DEF RequestHangs, At_, AgentStates, images, since
  <2>2. QED BY <1>0, <2>1 DEF ListingInv, KeptIsReady, PagesRead, AllRead, CleanupSparesReady, Working
<1>7. QED BY <1>1, <1>2, <1>3, <1>4, <1>5, <1>6 DEF AgentStep_, AgentStep

LEMMA ISStart == ISInit => ISTypes /\ ReadRow
<1> SUFFICES ASSUME ISInit PROVE ISTypes /\ ReadRow
  OBVIOUS
<1>1. PICK c \in Contents, sum, root \in Sums :
           /\ sum.of \in {c, "none"}
           /\ row = [i \in Images |-> Row(TRUE, "own", sum, IF artifact[i] THEN root ELSE NoSum)]
           /\ payload = [i \in Images |-> c]
  BY DEF ISInit
<1>2. row \in [Images -> Rows] /\ payload \in [Images -> Payloads]
  <2>1. \A rt \in Sums : Row(TRUE, "own", sum, rt) \in Rows
    BY ISConstants DEF Paths
  <2>2. \A i \in Images : (IF artifact[i] THEN root ELSE NoSum) \in Sums
    BY ISConstants
  <2>3. QED BY <1>1, <2>1, <2>2 DEF Payloads
<1>3. artifact \in [Images -> BOOLEAN] /\ files \in [Images -> Files_] /\ edit \in Edits /\ ReadRow
  BY ISConstants DEF ISInit, ReadRow
<1>4. agent \in AgentStates /\ kept = {} /\ shifted = FALSE /\ cut = FALSE /\ spoiled = FALSE
  BY NoSyncType DEF ISInit
<1>5. QED BY <1>2, <1>3, <1>4 DEF ISTypes, AgentStates

(* The agent's cleanup (cleanupStaleFiles) never removes the file of an     *)
(* image that was ready ever since the sync began, unless a row was deleted *)
(* while the pages were read: for any number of images, any page size and   *)
(* any operations on images meanwhile.                                      *)
THEOREM CleanupIsSafe == ISSpec => []CleanupSparesReady
<1>1. ISInit => ListingInv
  <2> SUFFICES ASSUME ISInit PROVE ListingInv
    OBVIOUS
  <2>1. agent.at = "idle" /\ kept = {} /\ ~spoiled
    BY NoSyncType DEF ISInit
  <2>2. QED BY <2>1, ISStart DEF ListingInv, KeptIsReady, PagesRead, AllRead, CleanupSparesReady, Working
<1>2. ListingInv /\ [ISNext]_isVars => ListingInv'
  <2> SUFFICES ASSUME ListingInv, [ISNext]_isVars PROVE ListingInv'
    OBVIOUS
  <2>1. CASE ISNext
    <3>1. ISTypes' /\ ReadRow'
      BY <2>1, SyncTypes DEF ListingInv
    <3>2. Operators \/ AgentStep_
      BY <2>1 DEF ISNext, Operators, AgentStep_
    <3>3. QED BY <3>1, <3>2, OperatorsKeepListing, AgentKeepsListing DEF ListingInv
  <2>2. CASE UNCHANGED isVars
    BY <2>2 DEF isVars, ListingInv, ISTypes, ReadRow, KeptIsReady, PagesRead, AllRead, CleanupSparesReady, Position,
                Listed, Expected
  <2>3. QED BY <2>1, <2>2
<1>3. ListingInv => CleanupSparesReady
  BY DEF ListingInv
<1>4. QED BY <1>1, <1>2, <1>3, PTL DEF ISSpec

-----------------------------------------------------------------------------
(* OS images: what a sync leaves behind                                    *)

(* The image being worked on is not yet among those done, what has been     *)
(* verified is what was listed, and the record beside a file tells its      *)
(* content unless the file is just being replaced.                          *)
CurrentIsOpen == agent.at \in Working => \A d \in agent.done : d.img # agent.cur.img
Verified ==
    /\ agent.at = "verify" => agent.cur.sum # NoSum
    /\ agent.at = "record" => /\ artifact[agent.cur.img] /\ agent.cur.sum # NoSum
                              /\ files[agent.cur.img].content = agent.cur.sum.of
    /\ agent.at = "mark" /\ agent.cur.sum # NoSum =>
          files[agent.cur.img].content = agent.cur.sum.of \/ (artifact[agent.cur.img] /\ cut)
Replacing(i) == agent.at \in {"verify", "record"} /\ agent.cur.img = i
RecordTells(i) == files[i].content \in {files[i].record.of, "none"}
RecordsTell ==
    ~cut => \A i \in Images : artifact[i] /\ files[i].record # NoSum /\ ~Replacing(i) => RecordTells(i)
SyncedInv == ISTypes /\ ReadRow /\ SyncedIsListed /\ CurrentIsOpen /\ Verified /\ RecordsTell

(* A step that touches the current file only leaves the images done alone. *)
LEMMA OthersStay ==
    ASSUME SyncedInv, agent.at \in Working, agent'.done = agent.done, UNCHANGED artifact, cut => cut',
           \A i \in Images : i # agent.cur.img => files'[i] = files[i]
    PROVE  SyncedIsListed' /\ \A d \in agent'.done : d.img # agent.cur.img
<1>1. ASSUME NEW d \in agent.done PROVE d.img \in Images /\ d.img # agent.cur.img
  <2>1. d \in Items
    BY DEF SyncedInv, ISTypes
  <2>2. QED BY <2>1 DEF SyncedInv, CurrentIsOpen, Items
<1>2. QED BY <1>1 DEF SyncedInv, SyncedIsListed

LEMMA LookKeepsSynced ==
    ASSUME SyncedInv, LookAtImage
    PROVE  SyncedIsListed' /\ CurrentIsOpen' /\ Verified' /\ RecordsTell'
<1>1. PICK d \in agent.todo :
           agent' = [agent EXCEPT !.at = IF NeedsDownload(d.img, d.sum) THEN "download" ELSE "mark",
                                  !.todo = @ \ {d}, !.cur = d,
                                  !.done = {x \in @ : x.img # d.img}]
  BY DEF LookAtImage
<1>2. /\ agent \in AgentStates /\ UNCHANGED <<files, cut, artifact>> /\ agent.at = "image"
      /\ files \in [Images -> Files_] /\ artifact \in [Images -> BOOLEAN]
  BY DEF SyncedInv, ISTypes, AgentStates, LookAtImage, AgentOnly
<1>3. d \in Items /\ d.img \in Images
  BY <1>2 DEF AgentStates, Items
<1>4. /\ agent'.at = (IF NeedsDownload(d.img, d.sum) THEN "download" ELSE "mark")
      /\ agent'.cur = d /\ agent'.done = {x \in agent.done : x.img # d.img}
  BY <1>1, <1>2 DEF AgentStates
<1>5. SyncedIsListed'
  BY <1>2, <1>4 DEF SyncedInv, SyncedIsListed
<1>6. CurrentIsOpen'
  BY <1>4 DEF CurrentIsOpen
<1>7. RecordsTell'
  BY <1>2, <1>4 DEF SyncedInv, RecordsTell, Replacing, RecordTells
<1>8. Verified'
  <2>1. CASE NeedsDownload(d.img, d.sum)
    BY <1>4, <2>1 DEF Verified
  <2>2. CASE ~NeedsDownload(d.img, d.sum)
    <3>1. agent'.at = "mark"
      BY <1>4, <2>2
    <3>2. ASSUME d.sum # NoSum
          PROVE  files[d.img].content = d.sum.of \/ (artifact[d.img] /\ cut)
      <4>1. files[d.img].content # "none"
        BY <2>2 DEF NeedsDownload
      <4>2. IF artifact[d.img] THEN files[d.img].record = d.sum ELSE files[d.img].content = d.sum.of
        BY <2>2, <3>2 DEF NeedsDownload, VerifyChecksum
      <4>3. CASE artifact[d.img] /\ ~cut
        BY <1>2, <1>3, <3>2, <4>1, <4>2, <4>3 DEF SyncedInv, RecordsTell, Replacing, RecordTells
      <4>4. CASE ~artifact[d.img]
        BY <4>2, <4>4
      <4>5. QED BY <4>3, <4>4
    <3>3. QED BY <1>2, <1>4, <3>1, <3>2 DEF Verified
  <2>3. QED BY <2>1, <2>2
<1>9. QED BY <1>5, <1>6, <1>7, <1>8

(* The steps that work on one image. *)
LEMMA WorkKeepsSynced ==
    ASSUME SyncedInv, Download_ \/ Verify_ \/ WriteSourceChecksum \/ ImageFails
    PROVE  SyncedIsListed' /\ CurrentIsOpen' /\ Verified' /\ RecordsTell'
<1>0. /\ agent \in AgentStates /\ files \in [Images -> Files_] /\ artifact \in [Images -> BOOLEAN]
      /\ cut \in BOOLEAN
  BY DEF SyncedInv, ISTypes, AgentStates
<1>1. agent.at \in Working /\ UNCHANGED artifact
  BY DEF Download_, Verify_, WriteSourceChecksum, ImageFails, Working, AgentOnly
<1>2. agent.cur.img \in Images
  BY <1>0 DEF AgentStates, Items
<1>3. PICK i \in Images : i = agent.cur.img
  BY <1>2
<1>4. \A f : File(i, f) => files'[i] = f /\ \A j \in Images : j # i => files'[j] = files[j]
  BY <1>0 DEF File
<1>5. ASSUME NEW c
      PROVE  /\ File(i, [files[i] EXCEPT !.content = c])
                   => files'[i].content = c /\ files'[i].record = files[i].record
             /\ File(i, [files[i] EXCEPT !.record = c])
                   => files'[i].content = files[i].content /\ files'[i].record = c
  BY <1>0 DEF File, Files_
<1>6. ASSUME NEW step, At_(step) PROVE agent'.at = step /\ agent'.cur = agent.cur /\ agent'.done = agent.done
  BY <1>0, <1>6 DEF At_, AgentStates
<1>7. ASSUME NextImage PROVE agent'.at = "image" /\ agent'.done = agent.done
  BY <1>0, <1>7 DEF NextImage, AgentStates
<1>8. agent'.done = agent.done /\ (cut => cut') /\ \A j \in Images : j # i => files'[j] = files[j]
  <2>1. CASE Download_
    <3>1. \/ /\ \E c \in Sent(i) : File(i, [files[i] EXCEPT !.content = c])
             /\ At_(IF agent.cur.sum = NoSum THEN "mark" ELSE "verify")
             /\ cut' = (cut \/ (artifact[i] /\ agent.cur.sum = NoSum /\ files[i].record # NoSum))
          \/ NextImage /\ UNCHANGED <<files, cut>>
      BY <1>3, <2>1 DEF Download_, Img
    <3>2. ASSUME NEW c, File(i, [files[i] EXCEPT !.content = c])
          PROVE  \A j \in Images : j # i => files'[j] = files[j]
      BY <1>4, <3>2
    <3>3. \A j \in Images : j # i => files'[j] = files[j]
      BY <3>1, <3>2
    <3>4. agent'.done = agent.done
      BY <1>6, <1>7, <3>1
    <3>5. cut => cut'
      BY <3>1
    <3>6. QED BY <3>3, <3>4, <3>5
  <2>2. CASE Verify_
    BY <1>3, <1>4, <1>6, <1>7, <2>2 DEF Verify_, Img
  <2>3. CASE WriteSourceChecksum
    BY <1>3, <1>4, <1>6, <2>3 DEF WriteSourceChecksum, Img
  <2>4. CASE ImageFails
    BY <1>0, <1>3, <1>4, <1>7, <2>4 DEF ImageFails, Img
  <2>5. QED BY <2>1, <2>2, <2>3, <2>4
<1>9. SyncedIsListed' /\ \A d \in agent'.done : d.img # agent.cur.img
  BY <1>1, <1>3, <1>8, OthersStay
<1>10. ASSUME NextImage, artifact[i] /\ files'[i].record # NoSum => cut' \/ RecordTells(i)'
       PROVE  CurrentIsOpen' /\ Verified' /\ RecordsTell'
  <2>1. CurrentIsOpen' /\ Verified'
    BY <1>7, <1>10 DEF CurrentIsOpen, Verified, Working
  <2>2. RecordsTell'
    <3>1. ASSUME ~cut', NEW j \in Images, artifact[j], files'[j].record # NoSum PROVE RecordTells(j)'
      <4>1. CASE j = i
        BY <1>10, <3>1, <4>1
      <4>2. CASE j # i
        BY <1>3, <1>8, <3>1, <4>2 DEF SyncedInv, RecordsTell, Replacing, RecordTells
      <4>3. QED BY <4>1, <4>2
    <3>2. QED BY <1>1, <3>1 DEF RecordsTell
  <2>3. QED BY <2>1, <2>2
<1>11. ASSUME agent'.cur = agent.cur, Verified',
              artifact[i] /\ files'[i].record # NoSum /\ ~Replacing(i)' => cut' \/ RecordTells(i)'
       PROVE  CurrentIsOpen' /\ Verified' /\ RecordsTell'
  <2>1. CurrentIsOpen'
    BY <1>9, <1>11 DEF CurrentIsOpen
  <2>2. RecordsTell'
    <3>1. ASSUME ~cut', NEW j \in Images, artifact[j], files'[j].record # NoSum, ~Replacing(j)'
          PROVE  RecordTells(j)'
      <4>1. CASE j = i
        BY <1>11, <3>1, <4>1
      <4>2. CASE j # i
        BY <1>3, <1>8, <3>1, <4>2 DEF SyncedInv, RecordsTell, Replacing, RecordTells
      <4>3. QED BY <4>1, <4>2
    <3>2. QED BY <1>1, <3>1 DEF RecordsTell
  <2>3. QED BY <1>11, <2>1, <2>2
<1>12. agent.at \notin {"verify", "record"} /\ artifact[i] /\ files[i].record # NoSum => cut \/ RecordTells(i)
  BY DEF SyncedInv, RecordsTell, Replacing
<1>13. CASE Download_
  <2>1. agent.at = "download"
    BY <1>13 DEF Download_
  <2>2. CASE \E c \in Sent(i) : /\ File(i, [files[i] EXCEPT !.content = c])
                               /\ At_(IF agent.cur.sum = NoSum THEN "mark" ELSE "verify")
                               /\ cut' = (cut \/ (artifact[i] /\ agent.cur.sum = NoSum /\ files[i].record # NoSum))
    <3>1. PICK c \in Sent(i) :
          /\ File(i, [files[i] EXCEPT !.content = c])
          /\ At_(IF agent.cur.sum = NoSum THEN "mark" ELSE "verify")
          /\ cut' = (cut \/ (artifact[i] /\ agent.cur.sum = NoSum /\ files[i].record # NoSum))
      BY <2>2
    <3>2. agent'.at = (IF agent.cur.sum = NoSum THEN "mark" ELSE "verify") /\ agent'.cur = agent.cur
      BY <1>6, <3>1
    <3>3. files'[i].record = files[i].record
      BY <1>5, <3>1
    <3>4. Verified'
      BY <3>2 DEF Verified
    <3>5. QED BY <1>3, <1>9, <1>11, <3>1, <3>2, <3>3, <3>4 DEF Replacing
  <2>3. CASE NextImage /\ UNCHANGED <<files, cut>>
    BY <1>9, <1>10, <1>12, <2>1, <2>3 DEF RecordTells
  <2>4. QED BY <1>3, <1>13, <2>2, <2>3 DEF Download_, Img
<1>14. CASE Verify_
  <2>1. agent.at = "verify" /\ UNCHANGED cut /\ agent.cur.sum # NoSum
    BY <1>14 DEF Verify_, SyncedInv, Verified
  <2>2. CASE VerifyChecksum(files[i].content, agent.cur.sum)
    <3>1. At_(IF artifact[i] THEN "record" ELSE "mark") /\ UNCHANGED files
      BY <1>3, <1>14, <2>2 DEF Verify_, Img
    <3>2. agent'.at = (IF artifact[i] THEN "record" ELSE "mark") /\ agent'.cur = agent.cur
      BY <1>6, <3>1
    <3>3. Verified'
      BY <1>1, <1>3, <2>1, <2>2, <3>1, <3>2 DEF Verified, VerifyChecksum
    <3>4. QED BY <1>3, <1>9, <1>11, <3>2, <3>3 DEF Replacing
  <2>3. CASE ~VerifyChecksum(files[i].content, agent.cur.sum)
    <3>1. NextImage /\ File(i, [files[i] EXCEPT !.content = "none"])
      BY <1>3, <1>14, <2>3 DEF Verify_, Img
    <3>2. files'[i].content = "none"
      BY <1>5, <3>1
    <3>3. QED BY <1>9, <1>10, <3>1, <3>2 DEF RecordTells
  <2>4. QED BY <2>2, <2>3
<1>15. CASE WriteSourceChecksum
  <2>1. /\ agent.at = "record" /\ File(i, [files[i] EXCEPT !.record = agent.cur.sum]) /\ At_("mark")
    BY <1>3, <1>15 DEF WriteSourceChecksum, Img
  <2>2. files[i].content = agent.cur.sum.of
    BY <1>3, <2>1 DEF SyncedInv, Verified
  <2>3. files'[i].content = agent.cur.sum.of /\ files'[i].record = agent.cur.sum
    BY <1>5, <2>1, <2>2
  <2>4. agent'.at = "mark" /\ agent'.cur = agent.cur
    BY <1>6, <2>1
  <2>5. Verified'
    BY <1>3, <2>3, <2>4 DEF Verified
  <2>6. QED BY <1>9, <1>11, <2>3, <2>4, <2>5 DEF RecordTells
<1>16. CASE ImageFails
  <2>1. /\ NextImage /\ cut' = (cut \/ agent.at = "record")
        /\ IF agent.at = "verify" THEN File(i, [files[i] EXCEPT !.content = "none"]) ELSE UNCHANGED files
    BY <1>3, <1>16 DEF ImageFails, Img
  <2>2. CASE agent.at = "verify"
    <3>1. files'[i].content = "none"
      BY <1>5, <2>1, <2>2
    <3>2. QED BY <1>9, <1>10, <2>1, <3>1 DEF RecordTells
  <2>3. CASE agent.at = "record"
    BY <1>9, <1>10, <2>1, <2>3
  <2>4. CASE agent.at \notin {"verify", "record"}
    BY <1>9, <1>10, <1>12, <2>1, <2>4 DEF RecordTells
  <2>5. QED BY <2>2, <2>3, <2>4
<1>17. QED BY <1>13, <1>14, <1>15, <1>16

LEMMA MarkKeepsSynced ==
    ASSUME SyncedInv, WriteManagedMarker
    PROVE  SyncedIsListed' /\ CurrentIsOpen' /\ Verified' /\ RecordsTell'
<1>0. /\ agent \in AgentStates /\ files \in [Images -> Files_] /\ UNCHANGED <<artifact, cut>>
      /\ agent.at = "mark" /\ agent.cur.img \in Images
  BY DEF SyncedInv, ISTypes, AgentStates, Items, WriteManagedMarker, AgentOnly
<1>1. agent' = [agent EXCEPT !.at = "image", !.cur = NoItem, !.done = @ \cup {agent.cur}]
  BY DEF WriteManagedMarker, Img
<1>2. agent'.at = "image" /\ agent'.done = agent.done \cup {agent.cur}
  BY <1>0, <1>1 DEF AgentStates
<1>3. files' = [files EXCEPT ![agent.cur.img] = [files[agent.cur.img] EXCEPT !.marked = TRUE]]
  BY DEF WriteManagedMarker, File, Img
<1>4. \A j \in Images : files'[j].content = files[j].content /\ files'[j].record = files[j].record
  BY <1>0, <1>3 DEF Files_
<1>5. \A d \in agent.done : d.img \in Images
  BY <1>0 DEF AgentStates, Items
<1>6. SyncedIsListed'
  <2>1. ASSUME NEW d \in agent'.done, d.sum # NoSum
        PROVE  files'[d.img].content = d.sum.of \/ (artifact'[d.img] /\ cut')
    <3>1. CASE d = agent.cur
      BY <1>0, <1>4, <2>1, <3>1 DEF SyncedInv, Verified
    <3>2. CASE d \in agent.done
      BY <1>0, <1>4, <1>5, <2>1, <3>2 DEF SyncedInv, SyncedIsListed
    <3>3. QED BY <1>2, <3>1, <3>2
  <2>2. QED BY <2>1 DEF SyncedIsListed
<1>7. CurrentIsOpen' /\ Verified'
  BY <1>2 DEF CurrentIsOpen, Verified, Working
<1>8. RecordsTell'
  BY <1>0, <1>2, <1>4 DEF SyncedInv, RecordsTell, Replacing, RecordTells
<1>9. QED BY <1>6, <1>7, <1>8

LEMMA AgentKeepsSynced ==
    ASSUME SyncedInv, AgentStep_
    PROVE  SyncedIsListed' /\ CurrentIsOpen' /\ Verified' /\ RecordsTell'
<1>0. /\ agent \in AgentStates /\ files \in [Images -> Files_] /\ artifact \in [Images -> BOOLEAN]
      /\ cut \in BOOLEAN
  BY DEF SyncedInv, ISTypes, AgentStates
<1>1. ASSUME agent'.at \in {"idle", "list", "image"}, agent'.done = {}
      PROVE  SyncedIsListed' /\ CurrentIsOpen' /\ Verified'
  BY <1>1 DEF SyncedIsListed, CurrentIsOpen, Verified, Working
<1>2. CASE SyncOnce
  <2>1. /\ agent' = [NoSync EXCEPT !.at = "list"] /\ UNCHANGED <<files, cut, artifact>>
        /\ agent.at = "idle"
    BY <1>2 DEF SyncOnce
  <2>2. agent'.at = "list" /\ agent'.done = {}
    BY <2>1, NoSyncType DEF AgentStates
  <2>3. RecordsTell'
    BY <2>1, <2>2 DEF SyncedInv, RecordsTell, Replacing, RecordTells
  <2>4. QED BY <1>1, <2>2, <2>3
<1>3. CASE FetchImages
  <2>1. /\ UNCHANGED <<files, cut, artifact>> /\ agent.at = "list"
    BY <1>3 DEF FetchImages
  <2>2. agent'.at \in {"list", "image"} /\ agent'.done = agent.done
    BY <1>0, <1>3, FetchTypes DEF FetchImages, AgentStates, SyncedInv
  <2>3. SyncedIsListed' /\ CurrentIsOpen' /\ Verified' /\ RecordsTell'
    BY <2>1, <2>2 DEF SyncedInv, SyncedIsListed, CurrentIsOpen, Verified, RecordsTell, Replacing, RecordTells, Working
  <2>4. QED BY <2>3
<1>4. CASE CleanupStaleFiles
  <2>1. /\ agent' = NoSync /\ agent.at = "image" /\ UNCHANGED <<artifact, cut>>
    BY <1>4 DEF CleanupStaleFiles
  <2>2. \A i \in Images : files'[i] = NoFile_ \/ files'[i] = files[i]
    BY <1>4 DEF CleanupStaleFiles
  <2>3. NoFile_.content = "none"
    BY DEF NoFile_
  <2>4. RecordsTell'
    BY <2>1, <2>2, <2>3 DEF SyncedInv, RecordsTell, Replacing, RecordTells
  <2>5. QED BY <1>1, <2>1, <2>4, NoSyncType
<1>5. CASE AgentDies
  <2>1. /\ agent' = NoSync /\ UNCHANGED <<artifact, files>>
        /\ cut' = (cut \/ (agent.at \in {"verify", "record"} /\ artifact[agent.cur.img]))
    BY <1>5 DEF AgentDies, Img
  <2>2. RecordsTell'
    <3>1. ASSUME ~cut', NEW i \in Images, artifact[i], files[i].record # NoSum PROVE RecordTells(i)'
      BY <1>0, <2>1, <3>1 DEF SyncedInv, RecordsTell, Replacing, RecordTells
    <3>2. QED BY <2>1, <3>1 DEF RecordsTell
  <2>3. QED BY <1>1, <2>1, <2>2, NoSyncType
<1>6. CASE RequestHangs
  <2>1. /\ agent'.at = "hung" /\ agent'.done = agent.done /\ UNCHANGED <<artifact, files, cut>>
        /\ agent.at \notin {"verify", "record"}
    BY <1>0, <1>6 DEF RequestHangs, At_, AgentStates
  <2>2. SyncedIsListed' /\ CurrentIsOpen' /\ Verified' /\ RecordsTell'
    BY <2>1 DEF SyncedInv, SyncedIsListed, CurrentIsOpen, Verified, RecordsTell, Replacing, RecordTells, Working
  <2>3. QED BY <2>2
<1>7. QED BY <1>2, <1>3, <1>4, <1>5, <1>6, LookKeepsSynced, WorkKeepsSynced, MarkKeepsSynced DEF AgentStep_, AgentStep

(* Every image that a sync found or brought up to date (syncOnce) has the   *)
(* content its listed checksum names, for any number of images and any      *)
(* uploads, replacements and failures meanwhile; the exception is an image  *)
(* with a manifest whose file was replaced and whose record was not.        *)
THEOREM SyncedFilesAreListed == ISSpec => []SyncedIsListed
<1>1. ISInit => SyncedInv
  <2> SUFFICES ASSUME ISInit PROVE SyncedInv
    OBVIOUS
  <2>1. agent.at = "idle" /\ agent.done = {} /\ files = [i \in Images |-> NoFile_]
    BY NoSyncType DEF ISInit
  <2>2. \A i \in Images : files[i].record = NoSum
    BY <2>1 DEF NoFile_
  <2>3. QED BY <2>1, <2>2, ISStart
            DEF SyncedInv, SyncedIsListed, CurrentIsOpen, Verified, RecordsTell, Working
<1>2. SyncedInv /\ [ISNext]_isVars => SyncedInv'
  <2> SUFFICES ASSUME SyncedInv, [ISNext]_isVars PROVE SyncedInv'
    OBVIOUS
  <2>1. CASE ISNext
    <3>1. ISTypes' /\ ReadRow'
      BY <2>1, SyncTypes DEF SyncedInv
    <3>2. CASE Operators
      <4>1. UNCHANGED <<artifact, files, agent, cut>>
        BY <3>2, OperatorSteps DEF SyncedInv
      <4>2. SyncedIsListed' /\ CurrentIsOpen' /\ Verified' /\ RecordsTell'
        BY <4>1 DEF SyncedInv, SyncedIsListed, CurrentIsOpen, Verified, RecordsTell, Replacing, RecordTells
      <4>3. QED BY <3>1, <4>2 DEF SyncedInv
    <3>3. CASE AgentStep_
      BY <3>1, <3>3, AgentKeepsSynced DEF SyncedInv
    <3>4. QED BY <2>1, <3>2, <3>3 DEF ISNext, Operators, AgentStep_
  <2>2. CASE UNCHANGED isVars
    BY <2>2 DEF isVars, SyncedInv, ISTypes, ReadRow, SyncedIsListed, CurrentIsOpen, Verified, RecordsTell, Replacing,
                RecordTells
  <2>3. QED BY <2>1, <2>2
<1>3. SyncedInv => SyncedIsListed
  BY DEF SyncedInv
<1>4. QED BY <1>1, <1>2, <1>3, PTL DEF ISSpec
=============================================================================
