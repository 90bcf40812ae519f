--------------------------- MODULE ClusterMachine ---------------------------
(***************************************************************************)
(* The Cluster API provider: src/providers/cluster-api, the reconciler of  *)
(* a GomiMachine.  It commits an identity and a finalizer, then creates a  *)
(* bootstrap template and a virtual machine, or acquires and deploys a     *)
(* bare-metal claim, reports it as provisioned, and on deletion takes all  *)
(* of it down again before it removes the finalizer.                       *)
(*                                                                         *)
(* A reconcile reads the object from a cache that lags behind the API      *)
(* server and makes one GOMI call per step.  A call may fail, may take     *)
(* effect although its answer is lost, and may take effect after the       *)
(* caller gave up.  Nothing outlives a reconcile, so that a crash or a     *)
(* change of leader is a call that got no answer.                          *)
(***************************************************************************)
EXTENDS Naturals, FiniteSets

CONSTANTS
    Kinds,        \* of "VM", "BM" and "BMConfig" (with a provisioning config)
    MaxFaults     \* bound on failed calls and on what others do to the instance

VARIABLES
    kind,         \* what the GomiMachine asks for
    obj,          \* the GomiMachine in the API server
    view,         \* the GomiMachine in the controller's cache
    rec,          \* the reconcile under way: where it is and what it read
    secret,       \* the bootstrap data is there
    linked,       \* Machine, Cluster, GomiCluster and credentials are there
    inst,         \* the VM or claim under the machine's id
    template,     \* the cloud-init template under the id: its owner
    pending,      \* calls that were given up and may still take effect
    faults,
    straggled,    \* a call took effect after it was given up         (history)
    crossed_,     \* somebody took the id under a running reconcile  (history)
    marred        \* what happened to things that are not ours,      (history)
                  \* and what was created a second time

cmVars == <<kind, obj, view, rec, secret, linked, inst, template, pending, faults, straggled, crossed_, marred>>
server == <<inst, template, pending, straggled, marred>>

Fresh_ == [exists |-> TRUE, deleting |-> FALSE, committed |-> FALSE, provided |-> FALSE,
           provisioned |-> FALSE]
Idle == [at |-> "idle", obj |-> Fresh_]
Nothing == [owner |-> "none", state |-> ""]
Ours(state) == [owner |-> "ours", state |-> state]

CMInit ==
    /\ kind \in Kinds
    /\ obj = Fresh_ /\ view = Fresh_ /\ rec = Idle
    /\ secret = FALSE /\ linked = TRUE
    /\ inst = Nothing /\ template = "none"
    /\ pending = {} /\ faults = 0
    /\ straggled = FALSE /\ crossed_ = FALSE /\ marred = {}

At(step) == rec.at = step
To(step) == rec' = [rec EXCEPT !.at = step]
Ends_ == rec' = Idle
Goes_(then) == IF then = "idle" THEN Ends_ ELSE To(then)
Fault == faults < MaxFaults /\ faults' = faults + 1
OnlyRec == UNCHANGED <<kind, obj, view, secret, linked, server, crossed_>>

-----------------------------------------------------------------------------
(* What the calls do to the GOMI server.  The creation of a template        *)
(* overwrites, that of a VM and of a claim under a name in use does         *)
(* nothing, and deletions go by name.                                       *)
Touched(owner) == marred' = IF owner = "foreign" THEN marred \cup {"foreign"} ELSE marred
CreateTemplate ==
    /\ template' = "ours"
    /\ Touched(template)
    /\ UNCHANGED inst
CreateInstance(provided) ==
    /\ inst' = IF inst # Nothing THEN inst ELSE Ours(IF kind = "VM" THEN "provisioning" ELSE "Claimed")
    /\ marred' = IF inst = Nothing /\ provided THEN marred \cup {"again"} ELSE marred
    /\ UNCHANGED template
DeployClaim ==
    /\ inst' = IF inst = Ours("Claimed") THEN Ours("Deploying") ELSE inst
    /\ UNCHANGED <<template, marred>>
DeleteTemplate ==
    /\ template' = "none"
    /\ Touched(template)
    /\ UNCHANGED inst
(* The release of a claim: one that was not deployed is free again after    *)
(* two statements, and releasing for ever if only the first was made; one   *)
(* whose disk holds its identity again starts a cleanup; anything else is   *)
(* accepted or refused and stays as it is.  The states are those of the     *)
(* claim and its machine: "Applied" is deploying with the image on the      *)
(* disk, "Unproven" failed without, "CleanFailed" a cleanup that failed.    *)
DeleteClaim(i) ==
    CASE i.owner = "foreign" -> {Nothing, i}
      [] i = Ours("Claimed") -> {Nothing, Ours("Aborted")}
      [] i \in {Ours("Applied"), Ours("Ready"), Ours("Failed")} -> {Ours("Releasing")}
      [] OTHER -> {i}
DeleteInstance ==
    /\ inst' \in IF kind = "VM" THEN {Nothing} ELSE DeleteClaim(inst)
    /\ Touched(inst.owner)
    /\ UNCHANGED template
Effect(call, provided) ==
    CASE call = "createTemplate" -> CreateTemplate
      [] call = "create" -> CreateInstance(provided)
      [] call = "deploy" -> DeployClaim
      [] call = "deleteTemplate" -> DeleteTemplate
      [] call = "delete" -> DeleteInstance
(* A call that succeeds... *)
Calls(call, then) ==
    /\ Effect(call, rec.obj.provided)
    /\ Goes_(then)
    /\ UNCHANGED <<kind, obj, view, secret, linked, pending, faults, straggled, crossed_>>
(* ...and one without an answer: not done, done, or still to be done.       *)
NoAnswer(call) ==
    /\ Fault
    /\ \/ UNCHANGED server
       \/ Effect(call, rec.obj.provided) /\ UNCHANGED <<pending, straggled>>
       \/ pending' = pending \cup {call} /\ UNCHANGED <<inst, template, straggled, marred>>
    /\ Ends_
    /\ UNCHANGED <<kind, obj, view, secret, linked, crossed_>>
(* The step "at" of a reconcile is this call. *)
Step(at, call, then) == At(at) /\ (Calls(call, then) \/ NoAnswer(call))
Straggle(call) ==
    /\ call \in pending
    /\ pending' = pending \ {call}
    /\ Effect(call, FALSE)
    /\ straggled' = TRUE
    /\ UNCHANGED <<kind, obj, view, rec, secret, linked, faults, crossed_>>

-----------------------------------------------------------------------------
(* Identity and finalizer come before anything is created. *)
NeedsCommit(o) == ~o.committed

(* Reconcile: the object as the cache has it.  Without a Machine, a Cluster *)
(* or the credentials it reports that, or does nothing, whatever the object *)
(* asks for.                                                                *)
Begin ==
    /\ At("idle") /\ view.exists
    /\ LET where == CASE ~linked -> "report"
                      [] linked /\ view.deleting -> IF view.committed THEN "removeGet" ELSE "idle"
                      [] linked /\ ~view.deleting /\ NeedsCommit(view) -> "commit"
                      [] OTHER -> "get"
       IN where # "idle" /\ rec' = [at |-> where, obj |-> view]
    /\ UNCHANGED faults /\ OnlyRec

(* Patches of the object; the API server refuses to patch an object that is *)
(* gone, and to add a finalizer to one that is being deleted.               *)
Patch(new, then) ==
    /\ \/ /\ obj.exists
          /\ obj' = new
          /\ rec' = IF then = "idle" THEN Idle ELSE [at |-> then, obj |-> [rec.obj EXCEPT !.provided = new.provided]]
          /\ UNCHANGED faults
       \/ /\ (~obj.exists /\ UNCHANGED faults) \/ Fault
          /\ Ends_ /\ UNCHANGED obj
    /\ UNCHANGED <<kind, view, secret, linked, server, crossed_>>
Commit ==
    /\ At("commit")
    /\ Patch(IF obj.deleting THEN obj ELSE [obj EXCEPT !.committed = TRUE], "idle")

(* Bug: on removal a failed read of the instance counts as its absence. *)
FailureIsAbsence(at) == IF at = "removeGet" THEN "removeTemplate" ELSE "idle"
(* A read that fails, with anything but a 404, ends the reconcile. *)
OnFailure(at) == "idle"
Read(at, then) ==
    /\ At(at)
    /\ \/ Goes_(then) /\ UNCHANGED faults
       \/ Goes_(OnFailure(at)) /\ Fault
    /\ OnlyRec

(* Bug: an instance that vanished after it was provisioned is created anew. *)
AnyMayCreate(o) == secret
MayCreate(o) == secret /\ ~o.provided
(* OwnedBy, and the owner and pool of a claim. *)
OwnedBy(i) == i.owner = "ours"
HasTemplate == kind # "BM"
FirstStep == IF HasTemplate THEN "templateGet" ELSE "create"

(* GetVM and observe; GetBareMetal and the switch on the claim's state. *)
Get ==
    Read("get", IF inst = Nothing THEN IF MayCreate(rec.obj) THEN FirstStep ELSE "report"
                ELSE IF ~OwnedBy(inst) THEN "report"
                ELSE IF inst.state \in {"done", "Ready"} THEN "provide"
                ELSE IF inst.state = "Claimed" /\ secret THEN IF HasTemplate THEN "verifyGet" ELSE "deploy"
                ELSE "report")
(* ensureTemplate and ensureProvisioningTemplate, before the creation and   *)
(* again before the deployment of a claim.                                  *)
TemplateGet(at, create, next) ==
    Read(at, CASE template = "none" -> create
               [] template = "ours" -> next
               [] OTHER -> "report")
(* The provider id goes into the spec, then the status says provisioned;    *)
(* every report repeats that, once the id is there.                         *)
Provide == At("provide") /\ Patch([obj EXCEPT !.provided = TRUE], "report")
Report == At("report") /\ Patch([obj EXCEPT !.provisioned = @ \/ rec.obj.provided], "idle")

-----------------------------------------------------------------------------
(* remove and removeBareMetal *)
RemoveGet ==
    Read("removeGet", CASE inst = Nothing -> IF HasTemplate THEN "removeTemplate" ELSE "finalize"
                        [] OwnedBy(inst) /\ inst.state # "Aborted" -> "delete"   \* a GET of that is a conflict
                        [] OTHER -> "idle")
(* Where the removal goes when the deletion is accepted: a VM must be seen  *)
(* to be gone, a claim is looked at by the next reconcile.                  *)
AfterDelete == IF kind = "VM" THEN "confirm" ELSE "idle"
Confirm == Read("confirm", IF inst = Nothing THEN "removeTemplate" ELSE "idle")
(* removeOwnedTemplate: a template that is gone already is fine. *)
WhenGone == "finalize"
RemoveTemplate ==
    Read("removeTemplate", CASE template = "none" -> WhenGone
                             [] template = "ours" -> "deleteTemplate"
                             [] OTHER -> "idle")
Finalize ==
    /\ At("finalize")
    /\ Patch([obj EXCEPT !.exists = ~obj.deleting, !.committed = FALSE], "idle")

ReconcileStep ==
    \/ Begin \/ Commit \/ Get \/ Provide \/ Report
    \/ TemplateGet("templateGet", "createTemplate", "create")
    \/ Step("createTemplate", "createTemplate", "create")
    \/ Step("create", "create", IF kind = "VM" THEN "report" ELSE "idle")
    \/ TemplateGet("verifyGet", "verifyCreate", "deploy")
    \/ Step("verifyCreate", "createTemplate", "deploy")
    \/ Step("deploy", "deploy", "report")
    \/ RemoveGet \/ Confirm \/ RemoveTemplate \/ Finalize
    \/ Step("delete", "delete", AfterDelete)
    \/ Step("deleteTemplate", "deleteTemplate", "finalize")

-----------------------------------------------------------------------------
(* The cache catches up. *)
CatchUp ==
    /\ view # obj
    /\ view' = obj
    /\ UNCHANGED <<kind, obj, rec, secret, linked, server, faults, crossed_>>
(* Somebody deletes the GomiMachine: without a finalizer it is gone at once. *)
DeleteObject ==
    /\ obj.exists /\ ~obj.deleting
    /\ obj' = [obj EXCEPT !.deleting = TRUE, !.exists = obj.committed]
    /\ UNCHANGED <<kind, view, rec, secret, linked, server, faults, crossed_>>
BootstrapReady ==
    /\ ~secret
    /\ secret' = TRUE
    /\ UNCHANGED <<kind, obj, view, rec, linked, server, faults, crossed_>>
(* The Machine, the Cluster or the credentials go away, or come back. *)
LinkChanges ==
    /\ \/ linked /\ Fault
       \/ ~linked /\ UNCHANGED faults
    /\ linked' = ~linked
    /\ UNCHANGED <<kind, obj, view, rec, secret, server, crossed_>>

(* GOMI moves the instance on; a poll of the claim sees it.  An attempt ends, *)
(* by its deadline at the latest.                                             *)
Outcomes(state) ==
    CASE state = "provisioning" -> {"done", "error"}
      [] state = "Deploying" -> {"Applied", "Unproven"}
      [] state = "Applied" -> {"Ready", "Failed"}
      [] state = "Releasing" -> {"Released", "CleanFailed"}
      [] OTHER -> {}
Turns(s) ==
    /\ inst.owner = "ours"
    /\ inst' = IF s = "Released" THEN Nothing ELSE Ours(s)
    /\ UNCHANGED <<kind, obj, view, rec, secret, linked, template, pending, straggled, crossed_, marred>>
InstanceMoves == UNCHANGED faults /\ \E s \in Outcomes(inst.state) : Turns(s)
(* RetryBareMetalClaim: an administrator repeats what failed. *)
Retried(state) ==
    CASE state \in {"Applied", "Failed"} -> {"Deploying"}
      [] state = "CleanFailed" -> {"Releasing"}
      [] OTHER -> {}
RetryClaim == Fault /\ \E s \in Retried(inst.state) : Turns(s)
(* Somebody removes the instance, or uses the id for something else. *)
InstanceVanishes ==
    /\ Fault
    /\ inst.owner = "ours"
    /\ inst' = Nothing
    /\ UNCHANGED <<kind, obj, view, rec, secret, linked, template, pending, straggled, crossed_, marred>>
ForeignAppears ==
    /\ Fault
    /\ \/ inst = Nothing /\ inst' = [Nothing EXCEPT !.owner = "foreign"] /\ UNCHANGED template
       \/ template = "none" /\ template' = "foreign" /\ UNCHANGED inst
    /\ crossed_' = (crossed_ \/ ~At("idle") \/ pending # {})
    /\ UNCHANGED <<kind, obj, view, rec, secret, linked, pending, straggled, marred>>

CMNext ==
    \/ ReconcileStep \/ CatchUp \/ DeleteObject \/ BootstrapReady \/ LinkChanges
    \/ InstanceMoves \/ RetryClaim \/ InstanceVanishes \/ ForeignAppears
    \/ \E call \in pending : Straggle(call)
CMSpec == CMInit /\ [][CMNext]_cmVars

-----------------------------------------------------------------------------
(* Things go in the order of their use, whatever call failed and whatever   *)
(* the cache showed: an instance goes before the template it was made from, *)
(* because a cleanup may still need that, and both before the GomiMachine.  *)
(* Only a call that took effect after it was given up may leave something   *)
(* behind.                                                                  *)
NoOrphans ==
    /\ ~obj.exists => (inst.owner # "ours" /\ template # "ours") \/ straggled
    /\ (inst.owner = "ours" /\ HasTemplate) => template # "none" \/ straggled

(* However often calls are repeated, what somebody else put under the id is *)
(* neither deleted nor overwritten, unless it appeared under a running      *)
(* reconcile (calls go by name), and an instance that vanished is not       *)
(* created again by a reconcile that knew it had been provisioned.          *)
RetriesAreHarmless == marred = {} \/ (marred = {"foreign"} /\ crossed_)

=============================================================================
