---------------------------- MODULE VMLifecycle ----------------------------
(***************************************************************************)
(* Records of virtual machines, the provisioning windows in them, and the  *)
(* libvirt domains on the hypervisors.                                     *)
(*                                                                         *)
(* Create, redeploy, delete, power, migrate and the cascade of a deleted   *)
(* hypervisor are HTTP handlers that read a record, make slow libvirt      *)
(* calls and write the record back; the runtime sync loop does the same    *)
(* with a list it read.  Every SQL statement and every libvirt call is a   *)
(* step, and what a handler has read is kept in req[p].  Linux guests are  *)
(* modelled; Windows guests are written by compare-and-swap instead.       *)
(*                                                                         *)
(* A volume is created before its domain is defined and deleted with it,   *)
(* and is not a state of its own.  Completion tokens and attempt IDs are   *)
(* naturals drawn from a counter.  Whether a deadline has passed is left   *)
(* open at the step that looks at the clock.                               *)
(***************************************************************************)
EXTENDS Naturals

CONSTANTS
  VMs,          \* names of virtual machines
  Hypervisors,  \* names of hypervisors
  Handlers,     \* concurrent HTTP requests inside the server
  Requests,     \* what happens: a subset of RequestKinds
  MaxTokens     \* bound on the provisioning windows ever opened

\* "abort" is a request cut off or a server restart, "vanish" a domain removed
\* with virsh, "status" the sync loop's note that a hypervisor answers or not; the
\* other kinds are API requests and the guest's callback.
RequestKinds ==
  {"create", "redeploy", "delete", "power", "migrate", "cascade", "complete",
   "abort", "vanish", "status"}

ASSUME VMAssumption ==
  /\ VMs # {} /\ Hypervisors # {}
  /\ Requests \subseteq RequestKinds
  /\ MaxTokens \in Nat

VARIABLES
  vms,        \* table virtual_machines, one row per name
  hvs,        \* names in table hypervisors
  domain,     \* hypervisors on which libvirt has a domain of the VM's name
  req,        \* what each running request has read so far
  sync,       \* rows the runtime sync listed and has not yet written back
  status,     \* hypervisors whose row the runtime sync read to update it
  lastToken,  \* the last completion token drawn
  started     \* tokens whose domain was defined               (history)

vars == <<vms, hvs, domain, req, sync, status, lastToken, started>>

----------------------------------------------------------------------------
(* Rows and what the handlers compute from them *)

NoToken == 0

\* Nothing writes Deleting; Creating is for a creation that asks for a stopped
\* domain, and no request carries a phase to ask with: all begin Pending.
Phases == {"Pending", "Provisioning", "Running", "Stopped", "Error", "Missing", "Migrating"}

VMRows ==
  [exists : BOOLEAN,
   hv : Hypervisors,      \* HypervisorRef
   phase : Phases,
   token : Nat,           \* Provisioning.CompletionToken
   active : BOOLEAN,      \* Provisioning.Active
   done : BOOLEAN,        \* Provisioning.CompletedAt is set
   defined : BOOLEAN,     \* Provisioning.DomainObservedAt is set
   gone : BOOLEAN]        \* MissingSince is later than DomainObservedAt

AnyHypervisor == CHOOSE h \in Hypervisors : TRUE

NoVM ==
  [exists |-> FALSE, hv |-> AnyHypervisor, phase |-> "Pending", token |-> NoToken,
   active |-> FALSE, done |-> FALSE, defined |-> FALSE, gone |-> FALSE]

NotSyncing == [step |-> "idle", row |-> NoVM]

\* A record with a newly opened window, as create inserts it.
NewRow(h, t) ==
  [NoVM EXCEPT !.exists = TRUE, !.hv = h, !.token = t, !.active = TRUE]

\* ReinstallVM opens a new window and resets everything of the old one.
Rearmed(row, h, t) ==
  [row EXCEPT !.hv = h, !.phase = "Provisioning", !.token = t, !.active = TRUE,
              !.done = FALSE, !.defined = FALSE, !.gone = FALSE]

\* markDomainDefined also reopens a window that was closed during the define gap.
MarkedDefined(row) == [row EXCEPT !.defined = TRUE, !.gone = FALSE, !.active = TRUE]

\* What UpdateDeployStatus leaves alone: a completed window, and one that was
\* closed for a good reason.
StaysEnded(row) ==
  \/ row.done
  \/ ~row.active /\ row.phase = "Error"
  \/ ~row.active /\ row.phase = "Missing" /\ row.defined /\ row.gone

\* UpdateDeployStatus puts the caller's window back; the caller's snapshot knows
\* whether it has seen its domain defined.
Restored(row, defined) ==
  [row EXCEPT !.phase = "Provisioning", !.active = TRUE, !.done = FALSE,
              !.defined = defined \/ row.defined, !.gone = FALSE]

FailedRow(row) == [row EXCEPT !.phase = "Error", !.active = row.active /\ row.done]

MissingRow(row) ==
  [row EXCEPT !.phase = "Missing", !.active = FALSE,
              !.gone = IF row.phase = "Missing" THEN row.gone ELSE TRUE]

CompletedRow(row) ==
  [row EXCEPT !.active = FALSE, !.done = TRUE,
              !.phase = IF row.phase = "Provisioning" THEN "Running" ELSE row.phase]

\* vmDeployInFlight, apart from the deadline: no domain is expected yet.
InDefineGap(row) == row.active /\ ~row.defined

Installing(row) == row.active /\ ~row.done

\* Bug: a domain state without a phase of its own leaves the record Missing.
ObservedPhaseKept(phase) == phase

\* The domain exists, so the record leaves Missing whatever the domain's state.
ObservedPhase(phase) == IF phase = "Missing" THEN "Stopped" ELSE phase

\* MapVMPhaseFromDomainState: running, shut off or paused, crashed, other.
MappedPhases(row) ==
  IF Installing(row) THEN {"Provisioning", "Error"}
                     ELSE {"Running", "Stopped", "Error", row.phase}

\* Bug: a sighting of the domain counts as the definition of this window's domain.
ObservedMarks(row) ==
  {[row EXCEPT !.phase = ObservedPhase(ph), !.defined = TRUE,
               !.gone = row.phase # "Missing" /\ row.gone] : ph \in MappedPhases(row)}

\* The runtime sync found the domain: the rows it may write, in time ...
ObservedRows(row) ==
  {[row EXCEPT !.phase = ObservedPhase(ph),
               !.gone = row.phase # "Missing" /\ row.gone] : ph \in MappedPhases(row)}

\* ... or after the deadline.
ExpiredRow(row) ==
  [row EXCEPT !.phase = "Error", !.active = FALSE, !.gone = row.phase # "Missing" /\ row.gone]

----------------------------------------------------------------------------
(* Requests *)

Steps ==
  {"start", "insert", "recheck", "rollback", "resolve", "arm", "prepare", "define",
   "mark", "marking", "boot", "restore", "restoring", "fail", "failing", "check",
   "cleanup", "teardown", "delete", "act", "record", "write", "announce",
   "announcing", "move", "moved", "list", "sweep", "relist", "resweep"}

Reqs ==
  [kind : RequestKinds \cup {"idle"}, step : Steps, vm : VMs,
   hv : Hypervisors,      \* the hypervisor the handler works on
   to : Hypervisors,      \* migrate: the target, otherwise hv
   token : Nat,           \* the window of this deploy
   defined : BOOLEAN,     \* the deploy's snapshot has DomainObservedAt
   seen : VMRows,         \* the row that was read, or is about to be written
   first : VMRows,        \* migrate: the row the request started from
   names : SUBSET VMs]    \* cascade: records listed and not yet deleted

Idle ==
  [kind |-> "idle", step |-> "start", vm |-> CHOOSE v \in VMs : TRUE,
   hv |-> AnyHypervisor, to |-> AnyHypervisor, token |-> NoToken,
   defined |-> FALSE, seen |-> NoVM, first |-> NoVM, names |-> {}]

Request(kind, step, v, h) ==
  [Idle EXCEPT !.kind = kind, !.step = step, !.vm = v, !.hv = h, !.to = h]

Asked(kind) == kind \in Requests
Keep(p, r) == req' = [req EXCEPT ![p] = r]
Begin(p, r) == req[p] = Idle /\ Keep(p, r)
Finish(p) == Keep(p, Idle)
Goto(p, step) == Keep(p, [req[p] EXCEPT !.step = step])

\* Go on with the name of the VM and its hypervisor only.
GotoPlain(p, step) == Keep(p, Request(req[p].kind, step, req[p].vm, req[p].hv))

\* Read the record again and go on with it.
GotoWith(p, step, row) == Keep(p, [req[p] EXCEPT !.step = step, !.seen = row])

\* Bug: the write puts the row there also when it was deleted meanwhile.
UpsertAlways(v, row) == vms' = [vms EXCEPT ![v] = row]

\* VMStore.UpdateExisting: a whole row, if there is a row of that name.
UpdateExisting(v, row) ==
  vms' = IF vms[v].exists THEN [vms EXCEPT ![v] = row] ELSE vms

Init ==
  /\ vms = [v \in VMs |-> NoVM]
  /\ hvs = {}
  /\ domain = [v \in VMs |-> {}]
  /\ req = [p \in Handlers |-> Idle]
  /\ sync = [v \in VMs |-> NotSyncing]
  /\ status = {}
  /\ lastToken = 0
  /\ started = {}

----------------------------------------------------------------------------
(* Hypervisor records *)

\* Register or create a hypervisor: an Upsert.
RegisterHypervisor(h) ==
  /\ h \notin hvs
  /\ hvs' = hvs \cup {h}
  /\ UNCHANGED <<vms, domain, req, sync, status, lastToken, started>>

\* DeleteHypervisor: with its record first a sweep of its VMs, then the record,
\* then another sweep; without the record only the sweep.
CascadeBegin(p, h) ==
  /\ Asked("cascade")
  /\ Begin(p, Request("cascade", IF h \in hvs THEN "list" ELSE "relist", Idle.vm, h))
  /\ UNCHANGED <<vms, hvs, domain, sync, status, lastToken, started>>

\* ListByHypervisor.
CascadeList(p) ==
  LET owned == {v \in VMs : vms[v].exists /\ vms[v].hv = req[p].hv} IN
  /\ req[p].step \in {"list", "relist"}
  /\ Keep(p, [req[p] EXCEPT !.names = owned,
                            !.step = IF req[p].step = "list" THEN "sweep" ELSE "resweep"])
  /\ UNCHANGED <<vms, hvs, domain, sync, status, lastToken, started>>

\* DeleteOwned of one listed record.
CascadeDelete(p, v) ==
  /\ req[p].step \in {"sweep", "resweep"} /\ v \in req[p].names
  /\ vms' = IF vms[v].exists /\ vms[v].hv = req[p].hv THEN [vms EXCEPT ![v] = NoVM] ELSE vms
  /\ Keep(p, [req[p] EXCEPT !.names = req[p].names \ {v}])
  /\ UNCHANGED <<hvs, domain, sync, status, lastToken, started>>

CascadeUnlist(p) ==
  /\ req[p].step = "sweep" /\ req[p].names = {}
  /\ hvs' = hvs \ {req[p].hv}
  /\ Goto(p, "relist")
  /\ UNCHANGED <<vms, domain, sync, status, lastToken, started>>

CascadeEnd(p) ==
  /\ req[p].step = "resweep" /\ req[p].names = {}
  /\ Finish(p)
  /\ UNCHANGED <<vms, hvs, domain, sync, status, lastToken, started>>

----------------------------------------------------------------------------
(* CreateVirtualMachine *)

\* The hypervisor is chosen and found.
CreateCheck(p, v, h) ==
  /\ Asked("create")
  /\ h \in hvs
  /\ lastToken < MaxTokens
  /\ lastToken' = lastToken + 1
  /\ Begin(p, [Request("create", "insert", v, h) EXCEPT !.token = lastToken + 1])
  /\ UNCHANGED <<vms, hvs, domain, sync, status, started>>

\* CreateExclusive: the primary key refuses a name in use.
CreateInsert(p) ==
  LET r == req[p] IN
  /\ r.step = "insert"
  /\ IF vms[r.vm].exists
       THEN UNCHANGED vms /\ Finish(p)
       ELSE vms' = [vms EXCEPT ![r.vm] = NewRow(r.hv, r.token)] /\ Goto(p, "recheck")
  /\ UNCHANGED <<hvs, domain, sync, status, lastToken, started>>

\* Is the hypervisor still there?  A read that fails is a no.
CreateRecheck(p) ==
  /\ req[p].step = "recheck"
  /\ \/ req[p].hv \in hvs /\ Goto(p, "prepare")
     \/ Goto(p, "rollback")
  /\ UNCHANGED <<vms, hvs, domain, sync, status, lastToken, started>>

\* rollbackCreatedVM: DeleteCreatedToken.
CreateRollback(p) ==
  LET r == req[p] IN
  /\ r.step = "rollback"
  /\ vms' = IF vms[r.vm].exists /\ vms[r.vm].token = r.token
              THEN [vms EXCEPT ![r.vm] = NoVM] ELSE vms
  /\ Finish(p)
  /\ UNCHANGED <<hvs, domain, sync, status, lastToken, started>>

\* After the deploy: was the record deleted meanwhile?
CreateVerify(p) ==
  /\ req[p].step = "check"
  /\ IF vms[req[p].vm].exists THEN Finish(p) ELSE Goto(p, "cleanup")
  /\ UNCHANGED <<vms, hvs, domain, sync, status, lastToken, started>>

\* teardownVMRuntimeForCleanup, on the hypervisor resolved before the deploy; an
\* error is only logged.
Cleanup(p) ==
  LET r == req[p] IN
  /\ r.step = "cleanup"
  /\ domain' \in {domain, [domain EXCEPT ![r.vm] = @ \ {r.hv}]}
  /\ Finish(p)
  /\ UNCHANGED <<vms, hvs, sync, status, lastToken, started>>

----------------------------------------------------------------------------
(* ReinstallVM up to the redeploy *)

\* The record is read; the request may name another hypervisor.
RedeployRead(p, v, h) ==
  /\ Asked("redeploy")
  /\ vms[v].exists
  /\ lastToken < MaxTokens
  /\ lastToken' = lastToken + 1
  /\ Begin(p, [Request("redeploy", "resolve", v, h) EXCEPT
                 !.token = lastToken + 1, !.seen = Rearmed(vms[v], h, lastToken + 1)])
  /\ UNCHANGED <<vms, hvs, domain, sync, status, started>>

\* Where a request goes on that has found its hypervisors.
Resolved ==
  {<<"redeploy", "arm">>, <<"delete", "teardown">>, <<"power", "act">>, <<"migrate", "announce">>}

\* Hypervisors.Get in redeploy, delete, power and migrate.  Delete takes a
\* hypervisor without a record for one that has nothing left to clean up.
Resolve(p) ==
  LET r == req[p]
      known == {r.hv, r.to} \subseteq hvs
  IN
  /\ r.step = "resolve"
  /\ \/ known /\ \E next \in Resolved : next[1] = r.kind /\ Goto(p, next[2])
     \/ ~known /\ r.kind = "delete" /\ GotoPlain(p, "delete")
     \/ ~known /\ r.kind # "delete" /\ Finish(p)
  /\ UNCHANGED <<vms, hvs, domain, sync, status, lastToken, started>>

RedeployArm(p) ==
  LET r == req[p] IN
  /\ r.step = "arm"
  /\ UpdateExisting(r.vm, r.seen)
  /\ IF vms[r.vm].exists THEN GotoWith(p, "prepare", NoVM) ELSE Finish(p)
  /\ UNCHANGED <<hvs, domain, sync, status, lastToken, started>>

----------------------------------------------------------------------------
(* Deployer.Deploy and Deployer.Redeploy *)

\* The hypervisor is found and connected; a redeploy removes the old domain.
Prepare(p) ==
  LET r == req[p] IN
  /\ r.step = "prepare"
  /\ r.hv \in hvs
  /\ domain' = IF r.kind = "redeploy" THEN [domain EXCEPT ![r.vm] = @ \ {r.hv}] ELSE domain
  /\ Goto(p, "define")
  /\ UNCHANGED <<vms, hvs, sync, status, lastToken, started>>

\* DefineDomain: libvirt refuses a second domain of the same name.
DefineDomain(p) ==
  LET r == req[p] IN
  /\ r.step = "define" /\ r.hv \notin domain[r.vm]
  /\ domain' = [domain EXCEPT ![r.vm] = @ \cup {r.hv}]
  /\ started' = started \cup {r.token}
  /\ Goto(p, "mark")
  /\ UNCHANGED <<vms, hvs, sync, status, lastToken>>

\* Any libvirt or image error on the way ends in FailDeploy.
DeployFails(p) ==
  /\ req[p].step \in {"prepare", "define", "boot"}
  /\ Goto(p, "fail")
  /\ UNCHANGED <<vms, hvs, domain, sync, status, lastToken, started>>

\* The token check of markDomainDefined, UpdateDeployStatus and FailDeploy.
OwnsWindow(row, t) == row.exists /\ row.token = t

\* markDomainDefined: read ...  The snapshot that learns of the mark is the
\* caller's own in a create, and a copy the caller never sees in a redeploy.
MarkRead(p) ==
  LET r == req[p]
      row == vms[r.vm]
  IN
  /\ r.step = "mark"
  /\ IF OwnsWindow(row, r.token)
       THEN IF row.done \/ row.defined
              THEN Keep(p, [r EXCEPT !.step = "boot",
                                     !.defined = r.kind = "create" /\ row.defined])
              ELSE GotoWith(p, "marking", MarkedDefined(row))
       ELSE Goto(p, "boot")
  /\ UNCHANGED <<vms, hvs, domain, sync, status, lastToken, started>>

\* ... and write.
MarkWrite(p) ==
  LET r == req[p] IN
  /\ r.step = "marking"
  /\ UpdateExisting(r.vm, r.seen)
  /\ Keep(p, [r EXCEPT !.step = "boot", !.seen = NoVM,
                       !.defined = r.kind = "create" /\ vms[r.vm].exists])
  /\ UNCHANGED <<hvs, domain, sync, status, lastToken, started>>

\* StartDomain and SetDomainBootDevice succeed on a domain that is there.
BootDomain(p) ==
  /\ req[p].step = "boot"
  /\ req[p].hv \in domain[req[p].vm]
  /\ Goto(p, "restore")
  /\ UNCHANGED <<vms, hvs, domain, sync, status, lastToken, started>>

\* Where a deploy goes on when it has recorded its outcome, and when it found no
\* record to do so.
AfterDeploy(p) == IF req[p].kind = "create" THEN GotoPlain(p, "check") ELSE Finish(p)
RecordGone(p) == GotoPlain(p, IF req[p].kind = "create" THEN "check" ELSE "cleanup")

\* UpdateDeployStatus and FailDeploy: read ...
OutcomeRead(p) ==
  LET r == req[p]
      row == vms[r.vm]
  IN
  /\ r.step \in {"restore", "fail"}
  /\ IF ~row.exists THEN RecordGone(p)
     ELSE IF ~OwnsWindow(row, r.token) \/ (r.step = "restore" /\ StaysEnded(row))
       THEN AfterDeploy(p)
     ELSE IF r.step = "restore" THEN GotoWith(p, "restoring", Restored(row, r.defined))
     ELSE GotoWith(p, "failing", FailedRow(row))
  /\ UNCHANGED <<vms, hvs, domain, sync, status, lastToken, started>>

\* ... and write.
OutcomeWrite(p) ==
  LET r == req[p] IN
  /\ r.step \in {"restoring", "failing"}
  /\ UpdateExisting(r.vm, r.seen)
  /\ IF vms[r.vm].exists THEN AfterDeploy(p) ELSE RecordGone(p)
  /\ UNCHANGED <<hvs, domain, sync, status, lastToken, started>>

----------------------------------------------------------------------------
(* DeleteVirtualMachine *)

DeleteRead(p, v) ==
  /\ Asked("delete")
  /\ vms[v].exists
  /\ Begin(p, [Request("delete", "resolve", v, vms[v].hv) EXCEPT !.seen.phase = vms[v].phase])
  /\ UNCHANGED <<vms, hvs, domain, sync, status, lastToken, started>>

Teardown(p) ==
  LET r == req[p] IN
  /\ r.step = "teardown"
  /\ domain' = [domain EXCEPT ![r.vm] = @ \ {r.hv}]
  /\ GotoPlain(p, "delete")
  /\ UNCHANGED <<vms, hvs, sync, status, lastToken, started>>

\* No connection to the hypervisor: only a Missing VM is deleted all the same.
TeardownUnreachable(p) ==
  /\ req[p].step = "teardown"
  /\ IF req[p].seen.phase = "Missing" THEN GotoPlain(p, "delete") ELSE Finish(p)
  /\ UNCHANGED <<vms, hvs, domain, sync, status, lastToken, started>>

\* An error once the teardown has started keeps the record, whatever is left of
\* the domain.
TeardownFails(p) ==
  LET r == req[p] IN
  /\ r.step = "teardown"
  /\ domain' \in {domain, [domain EXCEPT ![r.vm] = @ \ {r.hv}]}
  /\ Finish(p)
  /\ UNCHANGED <<vms, hvs, sync, status, lastToken, started>>

DeleteRecord(p) ==
  /\ req[p].step = "delete"
  /\ vms' = [vms EXCEPT ![req[p].vm] = NoVM]
  /\ Finish(p)
  /\ UNCHANGED <<hvs, domain, sync, status, lastToken, started>>

----------------------------------------------------------------------------
(* runVMPowerAction *)

PowerRead(p, v) ==
  /\ Asked("power")
  /\ vms[v].exists
  /\ Begin(p, Request("power", "resolve", v, vms[v].hv))
  /\ UNCHANGED <<vms, hvs, domain, sync, status, lastToken, started>>

\* The libvirt call: the phase to record is kept in seen.
PowerAct(p) ==
  LET r == req[p] IN
  /\ r.step = "act"
  /\ \E phase \in {"Error"} \cup IF r.hv \in domain[r.vm] THEN {"Running", "Stopped"}
                                                         ELSE {"Missing"} :
       GotoWith(p, "record", [NoVM EXCEPT !.phase = phase])
  /\ UNCHANGED <<vms, hvs, domain, sync, status, lastToken, started>>

\* UpdateStatus or MarkMissing: read ...
PowerRecord(p) ==
  LET r == req[p]
      row == vms[r.vm]
  IN
  /\ r.step = "record"
  /\ \/ row.exists /\ r.seen.phase # "Missing"
        /\ GotoWith(p, "write", [row EXCEPT !.phase = r.seen.phase])
     \/ row.exists /\ r.seen.phase = "Missing" /\ GotoWith(p, "write", MissingRow(row))
     \/ ~row.exists /\ Finish(p)
     \/ row.exists /\ r.seen.phase = "Missing" /\ InDefineGap(row) /\ Finish(p)
  /\ UNCHANGED <<vms, hvs, domain, sync, status, lastToken, started>>

\* ... and write.  The guest's install-complete ends in the same statement.
WriteRow(p) ==
  /\ req[p].step = "write"
  /\ UpdateExisting(req[p].vm, req[p].seen)
  /\ Finish(p)
  /\ UNCHANGED <<hvs, domain, sync, status, lastToken, started>>

\* PXEInstallComplete: found by its token, the window still open; the SSH probe
\* lies between this and the write.
InstallComplete(p, v) ==
  /\ Asked("complete")
  /\ vms[v].exists /\ vms[v].active
  /\ vms[v].token \in started
  /\ Begin(p, [Request("complete", "write", v, vms[v].hv) EXCEPT !.seen = CompletedRow(vms[v])])
  /\ UNCHANGED <<vms, hvs, domain, sync, status, lastToken, started>>

----------------------------------------------------------------------------
(* MigrateVM and Migrator.Migrate *)

MigrateRead(p, v, h) ==
  /\ Asked("migrate")
  /\ vms[v].exists /\ vms[v].phase = "Running"
  /\ h # vms[v].hv
  /\ Begin(p, [Request("migrate", "resolve", v, vms[v].hv) EXCEPT !.to = h, !.first = vms[v]])
  /\ UNCHANGED <<vms, hvs, domain, sync, status, lastToken, started>>

\* UpdateStatus(Migrating): read ...
MigrateAnnounce(p) ==
  LET r == req[p]
      row == vms[r.vm]
  IN
  /\ r.step = "announce"
  /\ IF row.exists THEN GotoWith(p, "announcing", [row EXCEPT !.phase = "Migrating"])
                   ELSE GotoWith(p, "move", r.first)
  /\ UNCHANGED <<vms, hvs, domain, sync, status, lastToken, started>>

\* ... and write.  When the record is gone the migration goes on with the row the
\* request started from.
MigrateAnnounced(p) ==
  LET r == req[p] IN
  /\ r.step = "announcing"
  /\ UpdateExisting(r.vm, r.seen)
  /\ GotoWith(p, "move", IF vms[r.vm].exists THEN r.seen ELSE r.first)
  /\ UNCHANGED <<hvs, domain, sync, status, lastToken, started>>

MigrateDomain(p) ==
  LET r == req[p] IN
  /\ r.step = "move"
  /\ r.hv \in domain[r.vm] /\ r.to \notin domain[r.vm]
  /\ domain' = [domain EXCEPT ![r.vm] = (@ \ {r.hv}) \cup {r.to}]
  /\ Goto(p, "moved")
  /\ UNCHANGED <<vms, hvs, sync, status, lastToken, started>>

\* The migration fails: UpdateStatus(Error), as after a failed power action.
MigrateFails(p) ==
  /\ req[p].step = "move"
  /\ GotoWith(p, "record", [NoVM EXCEPT !.phase = "Error"])
  /\ UNCHANGED <<vms, hvs, domain, sync, status, lastToken, started>>

\* Store.Upsert of the row read before the migration.
MigrateUpsert(p) ==
  LET r == req[p] IN
  /\ r.step = "moved"
  /\ vms' = [vms EXCEPT ![r.vm] = [r.seen EXCEPT !.hv = r.to, !.phase = "Running"]]
  /\ Finish(p)
  /\ UNCHANGED <<hvs, domain, sync, status, lastToken, started>>

----------------------------------------------------------------------------
(* RuntimeSyncer.SyncAll *)

\* SyncAll lists the VMs ...
SyncList ==
  /\ \A v \in VMs : sync[v].step = "idle"
  /\ sync' = [v \in VMs |-> IF vms[v].exists THEN [step |-> "listed", row |-> vms[v]]
                                             ELSE sync[v]]
  /\ UNCHANGED <<vms, hvs, domain, req, status, lastToken, started>>

\* ... and then the hypervisors; a VM on an unknown one is passed over.
SyncHypervisors ==
  /\ \E v \in VMs : sync[v].step = "listed"
  /\ sync' = [v \in VMs |->
       IF sync[v].step = "listed" /\ sync[v].row.hv \in hvs
         THEN [sync[v] EXCEPT !.step = "look"] ELSE NotSyncing]
  /\ UNCHANGED <<vms, hvs, domain, req, status, lastToken, started>>

SyncIdle(v) == sync' = [sync EXCEPT ![v] = NotSyncing]

\* persistSyncedVM writes only what changed; addresses may have.
SyncPersist(v, row) ==
  \/ row = sync[v].row /\ SyncIdle(v)
  \/ sync' = [sync EXCEPT ![v] = [step |-> "write", row |-> row]]

\* DomainInfo finds the domain ...
SyncObserve(v) ==
  LET row == sync[v].row IN
  /\ sync[v].step = "look" /\ row.hv \in domain[v]
  /\ \E next \in ObservedRows(row) : SyncPersist(v, next)
  /\ UNCHANGED <<vms, hvs, domain, req, status, lastToken, started>>

\* Bug: the deadline is looked at only once there is a domain.
ExpiresWhenFound(row, found) == Installing(row) /\ found

\* IsProvisioningTimedOut bounds the define gap as well as the installation.
MayExpire(row, found) == Installing(row)

\* ... or the deadline of the window has passed, whether there is a domain or not.
SyncExpire(v) ==
  LET row == sync[v].row
      found == row.hv \in domain[v]
  IN
  /\ sync[v].step = "look" /\ MayExpire(row, found)
  /\ SyncPersist(v, IF found THEN ExpiredRow(row) ELSE MissingRow(row))
  /\ UNCHANGED <<vms, hvs, domain, req, status, lastToken, started>>

\* No domain: in the define gap that is expected, otherwise the VM is Missing.
SyncMissing(v) ==
  LET row == sync[v].row IN
  /\ sync[v].step = "look" /\ row.hv \notin domain[v]
  /\ IF InDefineGap(row) THEN SyncIdle(v) ELSE SyncPersist(v, MissingRow(row))
  /\ UNCHANGED <<vms, hvs, domain, req, status, lastToken, started>>

\* The hypervisor does not answer, or the server stops.
SyncSkip(v) ==
  /\ sync[v].step # "idle"
  /\ SyncIdle(v)
  /\ UNCHANGED <<vms, hvs, domain, req, status, lastToken, started>>

SyncWrite(v) ==
  /\ sync[v].step = "write"
  /\ UpdateExisting(v, sync[v].row)
  /\ SyncIdle(v)
  /\ UNCHANGED <<hvs, domain, req, status, lastToken, started>>

\* markHypervisorReachable and -Unreachable: hypervisor.Service.UpdateStatus reads
\* the hypervisor and Upserts it.
StatusRead(h) ==
  /\ Asked("status")
  /\ h \in hvs \ status
  /\ status' = status \cup {h}
  /\ UNCHANGED <<vms, hvs, domain, req, sync, lastToken, started>>

StatusUpsert(h) ==
  /\ h \in status
  /\ hvs' = hvs \cup {h}
  /\ status' = status \ {h}
  /\ UNCHANGED <<vms, domain, req, sync, lastToken, started>>

----------------------------------------------------------------------------
(* Failures *)

Abort(p) ==
  /\ Asked("abort")
  /\ req[p] # Idle
  /\ Finish(p)
  /\ UNCHANGED <<vms, hvs, domain, sync, status, lastToken, started>>

\* Somebody removes a domain with virsh.
Vanish(v, h) ==
  /\ Asked("vanish")
  /\ h \in domain[v]
  /\ domain' = [domain EXCEPT ![v] = @ \ {h}]
  /\ UNCHANGED <<vms, hvs, req, sync, status, lastToken, started>>

----------------------------------------------------------------------------
Receive(p) ==
  \/ \E h \in Hypervisors : CascadeBegin(p, h)
  \/ \E v \in VMs :
       \/ DeleteRead(p, v) \/ PowerRead(p, v) \/ InstallComplete(p, v)
       \/ \E h \in Hypervisors :
            CreateCheck(p, v, h) \/ RedeployRead(p, v, h) \/ MigrateRead(p, v, h)

Cascade(p) ==
  \/ CascadeList(p) \/ CascadeUnlist(p) \/ CascadeEnd(p)
  \/ \E v \in VMs : CascadeDelete(p, v)

Deploy(p) ==
  \/ CreateInsert(p) \/ CreateRecheck(p) \/ CreateRollback(p) \/ CreateVerify(p)
  \/ Cleanup(p) \/ Resolve(p) \/ RedeployArm(p) \/ Prepare(p) \/ DefineDomain(p)
  \/ DeployFails(p) \/ MarkRead(p) \/ MarkWrite(p) \/ BootDomain(p)
  \/ OutcomeRead(p) \/ OutcomeWrite(p)

Operate(p) ==
  \/ Teardown(p) \/ TeardownUnreachable(p) \/ TeardownFails(p) \/ DeleteRecord(p)
  \/ PowerAct(p) \/ PowerRecord(p) \/ WriteRow(p)
  \/ MigrateAnnounce(p) \/ MigrateAnnounced(p) \/ MigrateDomain(p)
  \/ MigrateFails(p) \/ MigrateUpsert(p)

Continue(p) == Cascade(p) \/ Deploy(p) \/ Operate(p)

SyncVM(v) ==
  SyncObserve(v) \/ SyncExpire(v) \/ SyncMissing(v) \/ SyncSkip(v) \/ SyncWrite(v)

Syncer ==
  \/ SyncList \/ SyncHypervisors
  \/ \E v \in VMs : SyncVM(v)
  \/ \E h \in Hypervisors : StatusRead(h) \/ StatusUpsert(h)

Next ==
  \/ \E p \in Handlers : Receive(p) \/ Continue(p) \/ Abort(p)
  \/ Syncer
  \/ \E h \in Hypervisors : RegisterHypervisor(h) \/ \E v \in VMs : Vanish(v, h)

Spec == Init /\ [][Next]_vars

(* A received request ends.  The sync loop runs every five seconds; some of its
   passes reach the hypervisor and are not interrupted, and a window that stays
   open is past its deadline at some time. *)
Fairness ==
  /\ \A p \in Handlers : WF_vars(Continue(p))
  /\ WF_vars(SyncList) /\ SF_vars(SyncHypervisors)
  /\ \A v \in VMs : /\ WF_vars(SyncVM(v))
                   /\ SF_vars(SyncExpire(v))
                   /\ SF_vars(SyncObserve(v))
                   /\ SF_vars(SyncWrite(v) /\ ~sync[v].row.active)
                   /\ SF_vars(SyncWrite(v) /\ sync[v].row.phase # "Missing")

FairSpec == Spec /\ Fairness

----------------------------------------------------------------------------
(* Properties *)

\* The tables, everything a request or the sync loop keeps, and the history are typed.
TypeOK ==
  /\ vms \in [VMs -> VMRows]
  /\ hvs \subseteq Hypervisors
  /\ domain \in [VMs -> SUBSET Hypervisors]
  /\ req \in [Handlers -> Reqs]
  /\ sync \in [VMs -> [step : {"idle", "listed", "look", "write"}, row : VMRows]]
  /\ status \subseteq Hypervisors
  /\ lastToken \in Nat
  /\ started \subseteq Nat

\* A record says that the domain of its window was defined only if the deploy of
\* that very window defined it, however the deploys of several windows overlap.
\* The sync loop relies on it: with the mark of an older window a redeploy between
\* undefine and define would be taken for a VM whose domain was removed.
DefinedIsReal ==
  \A v \in VMs : vms[v].exists /\ vms[v].defined => vms[v].token \in started

\* Only a create adds a record, with a window of its own: a deploy, a power action, a
\* callback or the sync loop that works on a record deleted or swept meanwhile does
\* not bring it back.  The Upsert at the end of a migration is the one exception.
NoResurrection ==
  [][\A v \in VMs :
       ~vms[v].exists /\ vms'[v].exists
         => \E p \in Handlers :
              /\ req[p].vm = v
              /\ \/ req[p].step = "insert" /\ vms'[v] = NewRow(req[p].hv, req[p].token)
                 \/ req[p].step = "moved"]_vars

\* Every provisioning window ends while its hypervisor is known, also when the
\* deploy that opened it was abandoned before it defined a domain: PXE does not
\* serve an installer for ever.
WindowEnds ==
  \A v \in VMs, t \in 1..MaxTokens :
    (vms[v].exists /\ vms[v].active /\ vms[v].token = t)
      ~> (~vms[v].active \/ vms[v].token # t \/ vms[v].hv \notin hvs)

\* A VM is not kept Missing while its domain is there: a delete would leave the
\* storage of a live domain alone.
MissingHeals ==
  \A v \in VMs :
    (vms[v].exists /\ vms[v].phase = "Missing" /\ vms[v].hv \in domain[v] \cap hvs)
      ~> (vms[v].phase # "Missing" \/ vms[v].hv \notin domain[v] \cap hvs)

----------------------------------------------------------------------------
(* What a comment says, and the deployer does not ensure *)

\* A deploy that records its outcome does not touch the window of a newer one.
NewerWindowSurvives ==
  [][\A p \in Handlers :
       LET v == req[p].vm IN
       req[p].step \in {"marking", "restoring", "failing"} /\ req'[p] # req[p]
         => vms'[v].token = vms[v].token]_vars
=============================================================================
