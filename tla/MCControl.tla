----------------------------- MODULE MCControl ------------------------------
(***************************************************************************)
(* Small instances of the components that bring images and cluster nodes   *)
(* about: the Cluster API provider, the boot environment manager, the      *)
(* image agent and the backing volumes.  They share no state, so focus     *)
(* names the one that moves while the others stay in an initial state.     *)
(***************************************************************************)
EXTENDS ClusterMachine, BootEnvironment, ImageSync, BackingVolumes

VARIABLE focus
vars == <<cmVars, beVars, isVars, bvVars, focus>>

CMIdle == CMInit /\ kind = "VM"
(* Contents are interchangeable: the payloads are "a" at first, and named by *)
(* their checksums where images move.                                       *)
A == Sum_("a", "plain")
ISStarts == ISInit /\ payload[1] = "a" /\ row[1].sum = A /\ row[1].root \in {A, NoSum}
ISIdle == ISInit /\ payload[1] = "a" /\ row[1].sum = NoSum /\ ~artifact[1]
BVIdle == BVInit /\ image.checked

Init ==
    \/ focus = "machine" /\ CMInit /\ BEInit /\ ISIdle /\ BVIdle
    \/ focus = "bootenv" /\ CMIdle /\ BEInit /\ ISIdle /\ BVIdle
    \/ focus = "images"  /\ CMIdle /\ BEInit /\ ISStarts /\ BVIdle
    \/ focus = "backing" /\ CMIdle /\ BEInit /\ ISIdle /\ BVInit
(* The second image may be deleted; the first one is edited in every way,   *)
(* with checksums that the server and the agent take alike and unlike.      *)
B(form) == Sum_("b", form)
OneEdited ==
    /\ row'[2] \in {row[2], NoRow} /\ (edit'.at # "idle" => edit'.img = 1)
    /\ row'[1].sum \in (IF artifact[1] THEN {NoSum, A} ELSE {NoSum, A, B("plain"), B("upper")})
    /\ row'[1].root \in {NoSum, A, B("padded")}
Next ==
    /\ \/ focus = "machine" /\ CMNext /\ UNCHANGED <<beVars, isVars, bvVars>>
       \/ focus = "bootenv" /\ BENext /\ UNCHANGED <<cmVars, isVars, bvVars>>
       \/ focus = "images"  /\ ISNext /\ OneEdited /\ UNCHANGED <<cmVars, beVars, bvVars>>
       \/ focus = "backing" /\ BVNext /\ UNCHANGED <<cmVars, beVars, isVars>>
    /\ UNCHANGED focus

(* A controller that is asked to reconcile does so and its cache catches    *)
(* up; attempts of the server end (its deadlines see to that); the agent's  *)
(* ticker ticks and its requests end, unless RequestHangs.                  *)
Fairness ==
    /\ WF_cmVars(focus = "machine" /\ ReconcileStep) /\ WF_cmVars(focus = "machine" /\ CatchUp)
    /\ WF_cmVars(focus = "machine" /\ InstanceMoves)
    /\ WF_isVars(focus = "images" /\ AgentStep)
Spec == Init /\ [][Next]_vars /\ Fairness
=============================================================================
