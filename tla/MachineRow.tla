----------------------------- MODULE MachineRow -----------------------------
(***************************************************************************)
(* The part of a row of the SQL table "machines" that decides what a       *)
(* machine does: its current provisioning attempt and the sealed bootstrap *)
(* that a bare-metal claim stores beside it.  The operators are the pure   *)
(* row transformations of internal/machine, internal/app and               *)
(* internal/infra/pxehttp; the modules that EXTEND this one say when a     *)
(* handler reads a row and when it writes the transformed row back.        *)
(*                                                                         *)
(* Attempt IDs and completion tokens are random strings in the code.  Here *)
(* they are naturals drawn from a counter, 0 standing for "no attempt":    *)
(* freshness is the only thing the code uses them for.  PrepareReinstall   *)
(* draws both at once, but they are two fields: a lookup goes by token,    *)
(* the fence goes by attempt ID.                                           *)
(***************************************************************************)
EXTENDS Naturals

CONSTANTS
  Owners,   \* stable claim owners ("capi-..." identities)
  None      \* the NULL owner

ASSUME OwnersAssumption == None \notin Owners

NoAttempt == 0

Phases == {"Discovered", "Ready", "Provisioning", "Error"}

MachineRows ==
  [attempt : Nat,        \* Provision.AttemptID
   token : Nat,          \* Provision.CompletionToken
   active : BOOLEAN,     \* Provision.Active
   phase : Phases,
   completed : BOOLEAN,  \* Provision.CompletedAt is set
   finished : BOOLEAN,   \* Provision.FinishedAt is set
   applied : BOOLEAN,    \* Provision.Artifacts["imageApplied"] = "true"
   sealed : Owners \cup {None},  \* SealedBootstrap.Owner
   cleanup : BOOLEAN]    \* SealedBootstrap.Cleanup

\* A machine known to the inventory that was never provisioned.
UnprovisionedRow ==
  [attempt |-> NoAttempt, token |-> NoAttempt, active |-> FALSE,
   phase |-> "Ready", completed |-> FALSE, finished |-> FALSE,
   applied |-> FALSE, sealed |-> None, cleanup |-> FALSE]

----------------------------------------------------------------------------
\* Bug: the progress of the previous attempt is reused with its artifacts.
PrepareReinstallInPlace(m, fresh) ==
  [m EXCEPT !.attempt = fresh, !.token = fresh, !.active = TRUE,
            !.phase = "Provisioning", !.completed = FALSE, !.finished = FALSE]

\* machine.PrepareReinstall: a new attempt replaces the whole ProvisionProgress
\* (so the artifacts of the previous one are gone) and keeps SealedBootstrap.
PrepareReinstall(m, fresh) ==
  [m EXCEPT !.attempt = fresh, !.token = fresh, !.active = TRUE,
            !.phase = "Provisioning", !.completed = FALSE,
            !.finished = FALSE, !.applied = FALSE]

\* The sealed bootstrap a claim attaches before PrepareReinstall.
SealFor(m, owner, wipe) == [m EXCEPT !.sealed = owner, !.cleanup = wipe]

\* syncProvisioningStates, the deadline branch.
TimedOut(m) == [m EXCEPT !.active = FALSE, !.phase = "Error"]

\* machine.SyncState on a row in phase Provisioning: artifacts were generated,
\* or generating them failed.
SyncStates(m) ==
  {[m EXCEPT !.finished = TRUE],
   [m EXCEPT !.finished = TRUE, !.active = FALSE, !.phase = "Error"]}

\* The closure PXEDeployEvents hands to updateProvisionEvent.
ApplyEvent(m, event) ==
  CASE event = "failed" ->
         [m EXCEPT !.active = FALSE, !.phase = "Error", !.finished = TRUE]
    [] event = "image_applied" -> [m EXCEPT !.applied = TRUE]
    [] OTHER -> m

\* The machine branch of PXEInstallComplete.
Completed(m) ==
  [m EXCEPT !.active = FALSE, !.completed = TRUE, !.phase = "Ready"]

\* PXEInventory's closure: the attempt ID read before the hardware report was
\* stored is written over whatever attempt ID the row has by now.
WithInventory(m, attemptRead) == [m EXCEPT !.attempt = attemptRead]

DeployEvents == {"progress", "failed", "image_applied"}

\* The check PXEDeployEvents makes and updateProvisionEvent repeats on the row
\* it re-reads: once inactive, only restoration evidence of a sealed attempt.
AcceptsEvent(m, event) ==
  m.active \/ (event = "image_applied" /\ m.sealed # None)
=============================================================================
