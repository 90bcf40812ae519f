------------------------------ MODULE MCAccess ------------------------------
(***************************************************************************)
(* Small instances of the components that grant something to those who     *)
(* ask: the account tables, the hypervisor credentials, the DHCP leases    *)
(* and the changes to Cluster API resources.  They share no state: focus   *)
(* names the one that moves, the others stay in an initial state.          *)
(***************************************************************************)
EXTENDS Accounts, HypervisorTokens, DHCPLeases, ClusterChanges

VARIABLE focus
vars == <<accVars, htVars, leaseVars, ccVars, focus>>

(* A pool of one address and one of two, and a reservation within both. *)
SmallRanges == {[lo |-> 1, hi |-> 1], [lo |-> 1, hi |-> 2]}
OneReservation == {NoMap, [m \in {"m1"} |-> 1]}

(* Leases start with the shortest time; a reconfiguration may lengthen it. *)
LeaseStart == LeaseInit /\ config.lease = 1
LeaseIdle == LeaseStart /\ config.range.hi = 1
CCIdle == CCInit /\ res.kind = "clusters"

Init ==
    \/ focus \in {"accounts", "hypervisors"} /\ AccInit /\ HTInit /\ LeaseIdle /\ CCIdle
    \/ focus = "leases" /\ AccInit /\ HTInit /\ LeaseStart /\ CCIdle
    \/ focus = "changes" /\ AccInit /\ HTInit /\ LeaseIdle /\ CCInit
Next ==
    /\ \/ focus = "accounts" /\ AccNext /\ UNCHANGED <<htVars, leaseVars, ccVars>>
       \/ focus = "hypervisors" /\ HTNext /\ UNCHANGED <<accVars, leaseVars, ccVars>>
       \/ focus = "leases" /\ LeaseNext /\ UNCHANGED <<accVars, htVars, ccVars>>
       \/ focus = "changes" /\ CCNext /\ UNCHANGED <<accVars, htVars, leaseVars>>
    /\ UNCHANGED focus
Spec == Init /\ [][Next]_vars
=============================================================================
