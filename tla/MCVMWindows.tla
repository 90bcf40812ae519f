---------------------------- MODULE MCVMWindows -----------------------------
(* The fair behaviours of virtual machines in three groups of requests,     *)
(* explored next to each other: two windows with callbacks, aborted deploys *)
(* and removed domains; deletes, cascades and power requests; and moves     *)
(* between two hypervisors.                                                 *)
EXTENDS VMLifecycle

VARIABLE scope

Sends(kinds) == \A p \in Handlers : req'[p].kind \in kinds \cup {"idle"}
OneHypervisor ==
    /\ hvs' \subseteq {AnyHypervisor}
    /\ \A p \in Handlers : {req'[p].hv, req'[p].to} = {AnyHypervisor}
OneWindow == lastToken' < 2
(* Domains come and go by requests only. *)
NoVanish == req' = req => domain' = domain

MCInit == Init /\ scope \in {"windows", "removals", "moves"}
MCNext ==
    /\ Next
    /\ UNCHANGED scope
    /\ CASE scope = "windows" -> Sends({"create", "redeploy", "complete"}) /\ OneHypervisor
         [] scope = "removals" ->
              Sends({"create", "delete", "cascade", "power"}) /\ OneHypervisor /\ OneWindow
         [] scope = "moves" -> Sends({"create", "migrate"}) /\ OneWindow /\ NoVanish
MCFairSpec == MCInit /\ [][MCNext]_<<vars, scope>> /\ Fairness
=============================================================================
