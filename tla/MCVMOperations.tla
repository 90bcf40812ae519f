--------------------------- MODULE MCVMOperations ---------------------------
(* Four groups of requests on virtual machines, explored next to each       *)
(* other: two requests at a time on one hypervisor, with deletes or with    *)
(* the cascade of a deleted hypervisor; moves between two hypervisors and   *)
(* the sync loop's status updates, one request at a time.                   *)
EXTENDS MCVMLifecycle

VARIABLE scope

Sends(kinds) ==
    /\ \A p \in Handlers : req'[p].kind \in kinds \cup {"idle"}
    /\ "status" \notin kinds => status' = {}
OneHypervisor ==
    /\ hvs' \subseteq {AnyHypervisor}
    /\ \A p \in Handlers : {req'[p].hv, req'[p].to} = {AnyHypervisor}
OneRequest == \A p, q \in Handlers : p # q => req'[p] = Idle \/ req'[q] = Idle

MCInit == Init /\ scope \in {"deletes", "cascades", "moves", "updates"}
MCNext ==
    /\ Next
    /\ UNCHANGED scope
    /\ CASE scope = "deletes" -> Sends({"create", "redeploy", "delete"}) /\ OneHypervisor
         [] scope = "cascades" -> Sends({"create", "redeploy", "cascade"}) /\ OneHypervisor
         [] scope = "moves" -> Sends({"create", "redeploy", "migrate"}) /\ OneRequest
         [] scope = "updates" ->
              Sends({"create", "migrate", "power", "status"}) /\ OneRequest /\ lastToken' < 2
MCSpec == MCInit /\ [][MCNext]_<<vars, scope>>
=============================================================================
