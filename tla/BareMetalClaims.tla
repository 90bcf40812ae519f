-------------------------- MODULE BareMetalClaims --------------------------
(***************************************************************************)
(* Allocation of enrolled physical hosts to Cluster API owners, and the    *)
(* sealed deployments and cleanups that run on them.                       *)
(*                                                                         *)
(* Two tables carry the state: bare_metal_hosts (variable host) and        *)
(* machines (variable machine).  Every SQL statement or transaction is one *)
(* step.  An HTTP handler that reads, decides and then writes is several   *)
(* steps: what it has read is kept in req[p] until it writes, and any      *)
(* other handler may run in between.  The reconciler of internal/app is a  *)
(* process of its own: it lists all machines and then works through the    *)
(* list it read.                                                           *)
(***************************************************************************)
EXTENDS MachineRow

CONSTANTS
  Machines,     \* names of the machines, ordered as the SQL store orders them
  Pools,        \* host pools
  Handlers,     \* concurrent HTTP requests inside the server
  Requests,     \* the requests clients send: a subset of RequestKinds
  MaxAttempts,  \* bound on the attempts ever started
  MaxRevision,  \* bound on the host revision from which a new claim may start
  MaxEnrolments \* bound on how often a host is enrolled anew

Callbacks == {"inventory", "marker", "complete"} \cup DeployEvents

RequestKinds ==
  {"register", "unregister", "pool", "acquire", "get", "deploy", "delete",
   "retry", "redeploy", "settings"} \cup Callbacks

ASSUME ConstantsAssumption ==
  /\ Machines \subseteq Nat /\ Machines # {}
  /\ Pools # {}
  /\ Requests \subseteq RequestKinds
  /\ MaxAttempts \in Nat /\ MaxRevision \in Nat /\ MaxEnrolments \in Nat

VARIABLES
  host,         \* table bare_metal_hosts, one row per machine name
  machine,      \* table machines
  req,          \* what each running request has read so far
  listed,       \* rows the reconciler listed and has not yet worked through
  lastAttempt,  \* the last attempt ID drawn
  restored,     \* attempts whose installer put the host identity back on disk
  booted,       \* attempts whose installed system came up
  wipes,        \* attempts committed as cleanups              (history)
  lastDeploy,   \* the last attempt committed on each machine  (history)
  crossed       \* hosts changed by a request that had read an earlier
                \* enrollment of them                            (history)

tables  == <<host, machine>>
world   == <<restored, booted>>
history == <<wipes, lastDeploy, crossed>>
vars    == <<host, machine, req, listed, lastAttempt, restored, booted, wipes,
             lastDeploy, crossed>>

----------------------------------------------------------------------------
(* Rows *)

States == {"Available", "Claimed", "Deploying", "Ready", "Releasing", "Failed"}

\* born counts the earlier enrollments of the host; no statement reads it.
HostRows ==
  [enrolled : BOOLEAN, pool : Pools, owner : Owners \cup {None},
   state : States, revision : Nat, attempt : Nat, born : Nat]

Unenrolled ==
  [enrolled |-> FALSE, pool |-> CHOOSE q \in Pools : TRUE, owner |-> None,
   state |-> "Available", revision |-> 0, attempt |-> NoAttempt, born |-> 0]

\* kind is the handler, step how far it has come; host and row are what it has
\* read, row already transformed when step is "write".
Steps == {"start", "checked", "host", "row", "releasing", "write"}

Reqs == [kind : RequestKinds \cup {"idle"}, step : Steps, name : Machines,
         host : HostRows, row : MachineRows]

Request(kind, step, n, h, m) ==
  [kind |-> kind, step |-> step, name |-> n, host |-> h, row |-> m]

Idle == Request("idle", "start", CHOOSE n \in Machines : TRUE, Unenrolled, UnprovisionedRow)

\* A row the reconciler may hold for one machine, or nothing.
NoRow == [pending |-> FALSE, row |-> UnprovisionedRow]
Listings == [pending : BOOLEAN, row : MachineRows]

Owned(n) == host[n].owner # None

Init ==
  /\ host = [n \in Machines |-> Unenrolled]
  /\ machine = [n \in Machines |-> UnprovisionedRow]
  /\ req = [p \in Handlers |-> Idle]
  /\ listed = [n \in Machines |-> NoRow]
  /\ lastAttempt = 0
  /\ restored = {} /\ booted = {}
  /\ wipes = {} /\ lastDeploy = [n \in Machines |-> NoAttempt] /\ crossed = {}

----------------------------------------------------------------------------
(* Statements of the SQL store *)

\* Bug: an Upsert without the WHERE NOT EXISTS clause.
UpsertUnfenced(n, row) == TRUE

\* MachineStore.Upsert: the ON CONFLICT ... WHERE NOT EXISTS fence.
UpsertAllowed(n, row) == ~(Owned(n) /\ host[n].attempt # row.attempt)

UpsertMachine(n, row) ==
  machine' = IF UpsertAllowed(n, row) THEN [machine EXCEPT ![n] = row] ELSE machine

\* BareMetalStore.Transition: ValidateTransition on the host the handler read,
\* then an UPDATE guarded by owner, revision, state and attempt.
ValidTransition(h, next, attempt) ==
  /\ h.owner # None
  /\ h.attempt # NoAttempt => attempt = h.attempt
  /\ \/ next = "Deploying" /\ h.state = "Claimed" /\ attempt # NoAttempt
     \/ next = "Ready" /\ h.state = "Deploying" /\ attempt # NoAttempt
     \/ next = "Failed" /\ h.state \in {"Claimed", "Deploying", "Releasing"}
     \/ next = "Releasing" /\ h.state \in {"Claimed", "Deploying", "Ready", "Failed"}

\* What every guarded UPDATE of a host sets.
Advance(h, next, attempt) ==
  [h EXCEPT !.state = next, !.attempt = attempt, !.revision = h.revision + 1]

\* A statement of a request that read h changes the host.
Crosses(n, h) == crossed' = IF h.born # host[n].born THEN crossed \cup {n} ELSE crossed

TransitionAllowed(n, h, next, attempt) ==
  /\ ValidTransition(h, next, attempt)
  /\ host[n].owner = h.owner
  /\ host[n].revision = h.revision
  /\ host[n].state = h.state
  /\ host[n].attempt = h.attempt

\* BareMetalStore.CompleteRelease.
ReleaseAllowed(n, h) ==
  /\ h.state = "Releasing" /\ h.owner # None
  /\ host[n].owner = h.owner
  /\ host[n].revision = h.revision
  /\ host[n].state = "Releasing"

\* Bug: the owner column is emptied instead of set to NULL.
ReleasedToEmptyOwner(h) == Advance([h EXCEPT !.owner = ""], "Available", NoAttempt)

Released(h) == Advance([h EXCEPT !.owner = None], "Available", NoAttempt)

\* Bug: the UPDATE of CommitDeployment does not compare the revision.
CommitAnyRevision(n, h, m) ==
  /\ h.owner # None /\ m.active /\ m.attempt # NoAttempt /\ m.sealed = h.owner
  /\ IF m.cleanup THEN h.state \notin {"Available", "Releasing"}
                  ELSE h.state \in {"Claimed", "Failed", "Deploying"}
  /\ host[n].owner = h.owner
  /\ host[n].state = h.state

\* BareMetalStore.CommitDeployment: host and machine change in one transaction.
\* m is the row PrepareReinstall built on the row the handler read.
CommitAllowed(n, h, m) ==
  /\ h.owner # None /\ m.active /\ m.attempt # NoAttempt /\ m.sealed = h.owner
  /\ IF m.cleanup THEN h.state \notin {"Available", "Releasing"}
                  ELSE h.state \in {"Claimed", "Failed", "Deploying"}
  /\ host[n].owner = h.owner
  /\ host[n].state = h.state
  /\ host[n].revision = h.revision

DeploymentState(m) == IF m.cleanup THEN "Releasing" ELSE "Deploying"

CommitDeployment(n, h, m) ==
  IF CommitAllowed(n, h, m)
    THEN /\ host' = [host EXCEPT ![n] =
               Advance(host[n], DeploymentState(m), m.attempt)]
         /\ machine' = [machine EXCEPT ![n] = m]
         /\ lastAttempt' = m.attempt
         /\ wipes' = wipes \cup {a \in {m.attempt} : m.cleanup}
         /\ lastDeploy' = [lastDeploy EXCEPT ![n] = m.attempt]
         /\ Crosses(n, h)
    ELSE UNCHANGED <<host, machine, lastAttempt, wipes, lastDeploy, crossed>>

----------------------------------------------------------------------------
(* Requests: how a handler starts, keeps what it read, and ends *)

Keep(p, r) == req' = [req EXCEPT ![p] = r]
Begin(p, r) == req[p] = Idle /\ Keep(p, r)
Running(p, kind, step) == req[p].kind = kind /\ req[p].step = step
Finish(p) == Keep(p, Idle)

Asked(kind) == kind \in Requests

\* The client hangs up or the server stops: the handler ends where it is.
Abort(p) ==
  /\ req[p] # Idle
  /\ Finish(p)
  /\ UNCHANGED <<tables, listed, lastAttempt, world, history>>

\* Any handler whose last statement is machineStore.Upsert of the row it built.
WriteRow(p) ==
  LET r == req[p] IN
  /\ r.step = "write"
  /\ UpsertMachine(r.name, r.row)
  /\ Finish(p)
  /\ UNCHANGED <<host, listed, lastAttempt, world, history>>

----------------------------------------------------------------------------
(* Enrollment *)

\* RegisterBareMetalHost: not yet enrolled, and not provisioning.
RegisterCheck(p, n) ==
  /\ Asked("register")
  /\ ~host[n].enrolled
  /\ ~machine[n].active
  /\ Begin(p, Request("register", "checked", n, Unenrolled, UnprovisionedRow))
  /\ UNCHANGED <<tables, listed, lastAttempt, world, history>>

Enrolled(q, born) ==
  [Unenrolled EXCEPT !.enrolled = TRUE, !.pool = q, !.revision = 1, !.born = born]

\* BareMetalStore.Register is insert-only: an enrolled host is left alone.
RegisterInsert(p, q) ==
  LET n == req[p].name IN
  /\ Running(p, "register", "checked")
  /\ host' = IF host[n].enrolled THEN host
             ELSE [host EXCEPT ![n] = Enrolled(q, host[n].born)]
  /\ Finish(p)
  /\ UNCHANGED <<machine, listed, lastAttempt, world, history>>

Repooled(h, q) == Advance([h EXCEPT !.pool = q], "Available", h.attempt)

\* UpdateBareMetalHostPool: the client sends the revision it read.
UpdatePool(n, q) ==
  /\ Asked("pool")
  /\ host[n].enrolled /\ ~Owned(n) /\ host[n].state = "Available"
  /\ host[n].revision < MaxRevision
  /\ host' = [host EXCEPT ![n] = Repooled(host[n], q)]
  /\ UNCHANGED <<machine, req, listed, lastAttempt, world, history>>

\* BareMetalStore.Unregister: one transaction, refused while provisioning.  The
\* next enrollment of the host starts at revision 1 again.
Unregistered(h) == [Unenrolled EXCEPT !.born = h.born + 1]

Unregister(n) ==
  /\ Asked("unregister")
  /\ host[n].enrolled /\ ~Owned(n) /\ host[n].state = "Available"
  /\ ~machine[n].active
  /\ host[n].born < MaxEnrolments
  /\ host' = [host EXCEPT ![n] = Unregistered(host[n])]
  /\ machine' = [machine EXCEPT ![n] = SealFor(@, None, FALSE)]
  /\ UNCHANGED <<req, listed, lastAttempt, world, history>>

----------------------------------------------------------------------------
(* Claims *)

FirstAvailable(q, n) ==
  LET free == {k \in Machines : /\ host[k].enrolled /\ host[k].pool = q
                                /\ ~Owned(k) /\ host[k].state = "Available"}
  IN  n \in free /\ \A k \in free : n <= k

\* The pool and owner an acquire request asks for.
Wanted(q, o) == [Unenrolled EXCEPT !.pool = q, !.owner = o]

\* AcquireBareMetalHost: FindOwner misses ...
AcquireLookup(p, o, q) ==
  /\ Asked("acquire")
  /\ \A k \in Machines : host[k].owner # o
  /\ Begin(p, Request("acquire", "checked", CHOOSE n \in Machines : TRUE,
                      Wanted(q, o), UnprovisionedRow))
  /\ UNCHANGED <<tables, listed, lastAttempt, world, history>>

\* Bug: no UNIQUE constraint.
OwnerNotUnique(o) == TRUE

\* The UNIQUE constraint on bare_metal_hosts.owner.
OwnerUnique(o) == \A k \in Machines : host[k].owner # o

Claimed(h, o) == Advance([h EXCEPT !.owner = o], "Claimed", h.attempt)

\* ... and one UPDATE gives the owner the first free host of the pool, unless
\* the owner got one meanwhile.
AcquireUpdate(p, n) ==
  LET o == req[p].host.owner IN
  /\ Running(p, "acquire", "checked")
  /\ IF FirstAvailable(req[p].host.pool, n) /\ OwnerUnique(o)
       THEN /\ host[n].revision < MaxRevision
            /\ host' = [host EXCEPT ![n] = Claimed(host[n], o)]
       ELSE /\ ~(OwnerUnique(o) /\ \E k \in Machines : FirstAvailable(req[p].host.pool, k))
            /\ UNCHANGED host
  /\ Finish(p)
  /\ UNCHANGED <<machine, listed, lastAttempt, world, history>>

\* The hosts on which a claim handler does more than answer.
Continues(kind, h) ==
  CASE kind = "get" -> h.state \in {"Deploying", "Releasing"}
    [] kind = "deploy" -> h.state = "Claimed"
    [] kind = "delete" -> h.state # "Releasing"
    [] kind = "retry" -> h.attempt # NoAttempt

\* FindOwner, the first statement of every claim handler.
FindOwner(p, kind, n) ==
  /\ Asked(kind)
  /\ Owned(n)
  /\ Continues(kind, host[n])
  /\ Begin(p, Request(kind, "host", n, host[n], UnprovisionedRow))
  /\ UNCHANGED <<tables, listed, lastAttempt, world, history>>

\* machines.Get, the second one.
GetMachine(p) ==
  /\ req[p].step = "host"
  /\ ~(req[p].kind = "delete" /\ req[p].host.state = "Claimed")
  /\ Keep(p, Request(req[p].kind, "row", req[p].name, req[p].host, machine[req[p].name]))
  /\ UNCHANGED <<tables, listed, lastAttempt, world, history>>

\* Bug: an attempt that is over is taken for a success.
FinishedIsSuccess(m) == ~m.active

\* What GetBareMetalClaim takes as success of the attempt.
Succeeded(m) == ~m.active /\ m.completed /\ m.phase = "Ready"

\* GetBareMetalClaim settles a finished attempt.
SettleClaim(p) ==
  LET n == req[p].name
      h == req[p].host
      m == req[p].row
      current == m.attempt # NoAttempt /\ m.attempt = h.attempt
      next == IF Succeeded(m) THEN "Ready" ELSE "Failed"
  IN
  /\ Running(p, "get", "row")
  /\ host' =
       IF current /\ Succeeded(m) /\ h.state = "Releasing" /\ ReleaseAllowed(n, h)
         THEN [host EXCEPT ![n] = Released(host[n])]
       ELSE IF /\ current
               /\ (Succeeded(m) /\ h.state = "Deploying") \/ (~Succeeded(m) /\ m.phase = "Error")
               /\ TransitionAllowed(n, h, next, h.attempt)
         THEN [host EXCEPT ![n] = Advance(host[n], next, h.attempt)]
       ELSE host
  /\ IF host' = host THEN UNCHANGED crossed ELSE Crosses(n, h)
  /\ Finish(p)
  /\ UNCHANGED <<machine, listed, lastAttempt, world, wipes, lastDeploy>>

\* DeployBareMetalClaim from Claimed.
DeployClaim(p) ==
  LET r == req[p]
      m == PrepareReinstall(SealFor(r.row, r.host.owner, FALSE), lastAttempt + 1)
  IN
  /\ Running(p, "deploy", "row")
  /\ lastAttempt < MaxAttempts
  /\ CommitDeployment(r.name, r.host, m)
  /\ Finish(p)
  /\ UNCHANGED <<listed, world>>

\* DeleteBareMetalClaim of a host that was never deployed: two statements.
ReleaseClaimed(p) ==
  LET n == req[p].name
      h == req[p].host
  IN
  /\ Running(p, "delete", "host") /\ h.state = "Claimed"
  /\ IF TransitionAllowed(n, h, "Releasing", NoAttempt)
       THEN /\ host' = [host EXCEPT ![n] = Advance(host[n], "Releasing", NoAttempt)]
            /\ Crosses(n, h)
            /\ Keep(p, Request("delete", "releasing", n, host'[n], UnprovisionedRow))
       ELSE UNCHANGED <<host, crossed>> /\ Finish(p)
  /\ UNCHANGED <<machine, listed, lastAttempt, world, wipes, lastDeploy>>

CompleteClaimedRelease(p) ==
  LET n == req[p].name IN
  /\ Running(p, "delete", "releasing")
  /\ IF ReleaseAllowed(n, req[p].host)
       THEN host' = [host EXCEPT ![n] = Released(host[n])] /\ Crosses(n, req[p].host)
       ELSE UNCHANGED <<host, crossed>>
  /\ Finish(p)
  /\ UNCHANGED <<machine, listed, lastAttempt, world, wipes, lastDeploy>>

\* The rest of DeleteBareMetalClaim: a cleanup attempt, but only with evidence
\* that the identity is on disk, and never to retry a failed cleanup.
CleanupWarranted(h, m) ==
  /\ m.attempt # NoAttempt /\ m.applied
  /\ ~(m.sealed # None /\ m.cleanup /\ (h.state = "Failed" \/ m.phase = "Error"))

CleanupClaim(p) ==
  LET r == req[p]
      m == PrepareReinstall(SealFor(r.row, r.host.owner, TRUE), lastAttempt + 1)
  IN
  /\ Running(p, "delete", "row")
  /\ lastAttempt < MaxAttempts
  /\ IF CleanupWarranted(r.host, r.row)
       THEN CommitDeployment(r.name, r.host, m)
       ELSE UNCHANGED <<tables, lastAttempt, history>>
  /\ Finish(p)
  /\ UNCHANGED <<listed, world>>

\* RetryBareMetalClaim.  The administrator names an attempt; the request goes on
\* only if the host that was read has that attempt.
RetryWarranted(h, m) ==
  /\ m.attempt = h.attempt
  /\ m.sealed # None /\ m.sealed = h.owner
  /\ m.applied
  /\ \/ h.state = "Failed" /\ ~m.active /\ m.phase = "Error"
     \/ h.state = "Deploying" /\ m.active /\ m.phase = "Provisioning"

RetryClaim(p) ==
  LET r == req[p]
      m == PrepareReinstall(r.row, lastAttempt + 1)
  IN
  /\ Running(p, "retry", "row")
  /\ lastAttempt < MaxAttempts
  /\ IF RetryWarranted(r.host, r.row)
       THEN CommitDeployment(r.name, r.host, m)
       ELSE UNCHANGED <<tables, lastAttempt, history>>
  /\ Finish(p)
  /\ UNCHANGED <<listed, world>>

----------------------------------------------------------------------------
(* Ordinary machine writes behind protectAllocatedMachine *)

\* The middleware lets the request through while the machine is not enrolled.
ProtectAllocated(p, kind, n) ==
  /\ kind \in {"redeploy", "settings"} /\ Asked(kind)
  /\ ~host[n].enrolled
  /\ Begin(p, Request(kind, "checked", n, Unenrolled, UnprovisionedRow))
  /\ UNCHANGED <<tables, listed, lastAttempt, world, history>>

\* UpdateSettings and UpdateNetwork: Get, then Upsert of the row that was read.
SettingsRead(p) ==
  /\ Running(p, "settings", "checked")
  /\ Keep(p, Request("settings", "write", req[p].name, Unenrolled, machine[req[p].name]))
  /\ UNCHANGED <<tables, listed, lastAttempt, world, history>>

\* Service.Reinstall: Get, PrepareReinstall, then Upsert.
RedeployRead(p) ==
  /\ Running(p, "redeploy", "checked")
  /\ lastAttempt < MaxAttempts
  /\ lastAttempt' = lastAttempt + 1
  /\ Keep(p, Request("redeploy", "write", req[p].name, Unenrolled,
                     PrepareReinstall(machine[req[p].name], lastAttempt + 1)))
  /\ UNCHANGED <<tables, listed, world, history>>

----------------------------------------------------------------------------
(* Callbacks of installers and installed systems, found by their token *)

BeginWrite(p, kind, n, row) ==
  /\ Begin(p, Request(kind, "write", n, Unenrolled, row))
  /\ UNCHANGED <<tables, listed, lastAttempt, history>>

\* PXEDeployEvents and updateProvisionEvent up to its Upsert.  The handler looks
\* the machine up and then reads and checks it again; the second read and check
\* subsume the first.  An installer reports image_applied only once it has put
\* the host identity back on disk, and repeats the report until it is answered.
DeployEvent(p, event, n) ==
  LET m == machine[n] IN
  /\ event \in DeployEvents /\ Asked(event)
  /\ m.attempt # NoAttempt /\ m.token = m.attempt
  /\ AcceptsEvent(m, event)
  /\ restored' = IF event = "image_applied" THEN restored \cup {m.token} ELSE restored
  /\ BeginWrite(p, event, n, ApplyEvent(m, event))
  /\ UNCHANGED booted

\* PXEInstallComplete, called by the installed system: found by token alone; the
\* SSH probe of the caller sits between this read and the Upsert.
InstallComplete(p, n) ==
  LET m == machine[n] IN
  /\ Asked("complete")
  /\ m.token \in restored
  /\ m.active
  /\ booted' = booted \cup {m.token}
  /\ BeginWrite(p, "complete", n, Completed(m))
  /\ UNCHANGED restored

\* appendMachineTimingOnce on a boot script or config fetch: the machine was
\* found active, but the row that is read again and written may be inactive.
Marker(p, n) ==
  /\ Asked("marker")
  /\ machine[n].attempt # NoAttempt
  /\ BeginWrite(p, "marker", n, machine[n])
  /\ UNCHANGED world

\* PXEInventory: the attempt ID is read first, the row again after the hardware
\* report was stored, without comparing the two.
InventoryRead(p, n) ==
  /\ Asked("inventory")
  /\ machine[n].active /\ machine[n].attempt # NoAttempt
  /\ Begin(p, Request("inventory", "checked", n, Unenrolled, machine[n]))
  /\ UNCHANGED <<tables, listed, lastAttempt, world, history>>

InventoryReread(p) ==
  /\ Running(p, "inventory", "checked")
  /\ Keep(p, Request("inventory", "write", req[p].name, Unenrolled,
                     WithInventory(machine[req[p].name], req[p].row.attempt)))
  /\ UNCHANGED <<tables, listed, lastAttempt, world, history>>

----------------------------------------------------------------------------
(* The provisioning reconciler of internal/app *)

\* Bug: the deadline is looked at only until the artifacts are generated.
NeedsArtifacts(m) == m.phase = "Provisioning" /\ ~m.finished

\* Whether syncProvisioningStates does anything for a row.
NeedsSync(m) == m.active \/ (m.phase = "Provisioning" /\ ~m.finished)

\* syncProvisioningStates: one List of all machines (the rows it will skip are
\* not kept) ...
SyncList ==
  /\ \A n \in Machines : ~listed[n].pending
  /\ listed' = [n \in Machines |-> IF NeedsSync(machine[n])
                                    THEN [pending |-> TRUE, row |-> machine[n]]
                                    ELSE NoRow]
  /\ UNCHANGED <<tables, req, lastAttempt, world, history>>

SyncEnds(n) ==
  /\ listed' = [listed EXCEPT ![n] = NoRow]
  /\ UNCHANGED <<host, req, lastAttempt, world, history>>

\* ... and then one machine of that list after the other.  Whether the deadline
\* has passed by then is left open.
SyncTimeout(n) ==
  LET m == listed[n].row IN
  /\ listed[n].pending /\ m.active
  /\ UpsertMachine(n, TimedOut(m))
  /\ SyncEnds(n)

SyncInTime(n) ==
  LET m == listed[n].row IN
  /\ listed[n].pending
  /\ IF m.phase = "Provisioning" /\ ~m.finished
       THEN \E row \in SyncStates(m) : UpsertMachine(n, row)
       ELSE UNCHANGED machine
  /\ SyncEnds(n)

\* The server stops between two machines of the list.
SyncStop ==
  /\ \E n \in Machines : listed[n].pending
  /\ listed' = [n \in Machines |-> NoRow]
  /\ UNCHANGED <<tables, req, lastAttempt, world, history>>

----------------------------------------------------------------------------
ClaimHandler(p) ==
  \/ \E o \in Owners, q \in Pools : AcquireLookup(p, o, q)
  \/ \E n \in Machines : AcquireUpdate(p, n)
  \/ GetMachine(p) \/ SettleClaim(p) \/ DeployClaim(p) \/ ReleaseClaimed(p)
  \/ CompleteClaimedRelease(p) \/ CleanupClaim(p) \/ RetryClaim(p)
  \/ \E kind \in {"get", "deploy", "delete", "retry"}, n \in Machines :
       FindOwner(p, kind, n)

OrdinaryHandler(p) ==
  \/ SettingsRead(p) \/ RedeployRead(p) \/ WriteRow(p) \/ Abort(p)
  \/ \E q \in Pools : RegisterInsert(p, q)
  \/ \E n \in Machines :
       RegisterCheck(p, n) \/ \E kind \in {"redeploy", "settings"} : ProtectAllocated(p, kind, n)

Callback(p) ==
  \/ InventoryReread(p)
  \/ \E n \in Machines :
       \/ \E event \in DeployEvents : DeployEvent(p, event, n)
       \/ InstallComplete(p, n) \/ Marker(p, n) \/ InventoryRead(p, n)

Reconciler ==
  SyncList \/ SyncStop \/ \E n \in Machines : SyncTimeout(n) \/ SyncInTime(n)

Next ==
  \/ \E p \in Handlers : ClaimHandler(p) \/ OrdinaryHandler(p) \/ Callback(p)
  \/ \E n \in Machines :
       \/ Unregister(n)
       \/ \E q \in Pools : UpdatePool(n, q)
  \/ Reconciler

Spec == Init /\ [][Next]_vars

(* A request that was received ends, by an answer or an error.  The Cluster API
   controller asks for the state of its claim again and again, and some of those
   requests get as far as the last statement.  The reconciler runs every few
   seconds, and an attempt that stays active is past its deadline at some time. *)
RequestStep(p) == req[p] # Idle /\ (ClaimHandler(p) \/ OrdinaryHandler(p) \/ Callback(p))

Fairness ==
  /\ \A p \in Handlers : /\ WF_vars(RequestStep(p))
                         /\ SF_vars(req[p].kind = "get" /\ GetMachine(p))
                         /\ SF_vars(SettleClaim(p))
  /\ \A n \in Machines : /\ SF_vars(\E p \in Handlers : FindOwner(p, "get", n))
                         /\ SF_vars(SyncTimeout(n))
  /\ WF_vars(SyncList)

FairSpec == Spec /\ Fairness

----------------------------------------------------------------------------
(* Properties.  The guarded UPDATEs compare owner, state and revision, and an
   enrollment restarts the revision: a request that read a host, was delayed
   while the host was released, unregistered, enrolled and claimed again, and
   finds the same revision, does to the new claim what was meant for the old
   one.  The hosts in crossed are the ones where that happened.              *)

\* Every table row, every value a handler keeps, and the history are typed.
TypeOK ==
  /\ host \in [Machines -> HostRows]
  /\ machine \in [Machines -> MachineRows]
  /\ req \in [Handlers -> Reqs]
  /\ listed \in [Machines -> Listings]
  /\ lastAttempt \in Nat
  /\ restored \subseteq Nat /\ booted \subseteq Nat /\ wipes \subseteq Nat
  /\ lastDeploy \in [Machines -> Nat] /\ crossed \subseteq Machines

\* While a claim has an attempt, the machine row carries exactly that attempt
\* and its token, whatever stale row a callback, the reconciler or an ordinary
\* API write tries to put back: the fence in MachineStore.Upsert together with
\* the single transaction of CommitDeployment.
AttemptFence ==
  \A n \in Machines :
    Owned(n) /\ host[n].attempt # NoAttempt =>
      machine[n].attempt = host[n].attempt /\ machine[n].token = host[n].attempt

\* A host that is free, or claimed and not yet deployed, holds nothing of an
\* earlier owner: the last deployment committed on it was a cleanup whose
\* system came up.  This is what CompleteRelease's comment asks of its callers.
\* Only a request that crossed an enrollment can do otherwise.
NoPriorWorkload ==
  \A n \in Machines \ crossed :
    host[n].attempt = NoAttempt =>
      lastDeploy[n] = NoAttempt \/ lastDeploy[n] \in wipes \cap booted

\* A claim reported Ready is a workload deployment whose own system came up,
\* not a cleanup and not an earlier attempt's completion, unless a request crossed
\* an enrollment of the host.
ReadyIsReal ==
  \A n \in Machines \ crossed : host[n].state = "Ready" => host[n].attempt \in booted \ wipes

\* No owner ever holds two hosts, even when its acquire requests race.
OneHostPerOwner ==
  \A n, k \in Machines : Owned(n) /\ host[n].owner = host[k].owner => n = k

\* A claimed host gets a new attempt (retry or cleanup, each a power cycle) only
\* after the installer of the attempt it replaces put the host identity back on
\* disk: DeleteBareMetalClaim and RetryBareMetalClaim ask for that evidence on a
\* row they read earlier, which may be of the enrollment before.
IdentityOnDisk ==
  [][\A n \in Machines \ crossed' :
       host[n].attempt # NoAttempt /\ host'[n].attempt \notin {NoAttempt, host[n].attempt}
         => host[n].attempt \in restored]_vars

\* A retry replaces only the attempt the administrator named; a repeated request
\* for an older attempt changes nothing.  The exception is a host that was
\* unregistered and enrolled again while the retry was under way.
RetryNamesCurrentAttempt ==
  [][\A p \in Handlers :
       LET n == req[p].name IN
       Running(p, "retry", "row") /\ req'[p] = Idle /\ host'[n] # host[n]
         => host[n].attempt = req[p].host.attempt \/ host[n].born # req[p].host.born]_vars

\* A deployment or cleanup in progress comes to an end, provided its installer
\* stops calling back: the deadline of the reconciler decides what no callback
\* decided, and the owner's next poll settles the claim.
AttemptEnds ==
  <>[](\A p \in Handlers : req[p].kind \notin Callbacks) =>
    \A n \in Machines :
      (host[n].state \in {"Deploying", "Releasing"} /\ host[n].attempt # NoAttempt)
        ~> host[n].state \notin {"Deploying", "Releasing"}

\* HostPool sees a host as dirty from the first deployment until the system of a
\* committed cleanup came up.
Pool == INSTANCE HostPool WITH
  Hosts <- Machines,
  holder <- [n \in Machines |-> host[n].owner],
  dirty <- [n \in Machines |-> /\ lastDeploy[n] # NoAttempt
                              /\ lastDeploy[n] \notin wipes \cap booted]

\* The two tables and all the handlers on them implement the pool of clean hosts.
ImplementsPool == Pool!Spec

----------------------------------------------------------------------------
(* What comments and documentation say, and the handlers do not ensure *)

\* Once the restoration of the identity is recorded for a claimed attempt, the
\* record stays: the installer reboots when GOMI has acknowledged it, and will
\* not report it again.
EvidenceKept ==
  [][\A n \in Machines :
       Owned(n) /\ machine[n].applied /\ machine'[n].attempt = machine[n].attempt
         => machine'[n].applied]_vars

\* A failed deployment of a claim is neither reactivated nor completed by a
\* callback of the same attempt.
FailedStaysFailed ==
  [][\A n \in Machines :
       /\ host[n].state = "Failed" /\ machine[n].phase = "Error"
       /\ machine'[n].attempt = machine[n].attempt
       => machine'[n].phase = "Error" /\ ~machine'[n].active]_vars

\* A claim that is being deleted is released, or fails visibly, in the end.
ReleasingEnds ==
  <>[](\A p \in Handlers : req[p].kind \notin Callbacks) =>
    \A n \in Machines :
      (host[n].state = "Releasing") ~> (host[n].state # "Releasing")

=============================================================================
