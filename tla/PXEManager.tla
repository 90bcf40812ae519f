----------------------------- MODULE PXEManager -----------------------------
(***************************************************************************)
(* The goroutine that runs the PXE services: runPXEManager, reconcilePXE,  *)
(* startPXE (src/internal/app/pxe_manager.go), stopPXE, clearPXEIfCurrent, *)
(* syncDHCPReservations (src/internal/app/pxe_state.go), and what the DHCP *)
(* handler of src/internal/pxe/dhcp.go tells a client to boot.             *)
(*                                                                         *)
(* A store changes its row first and notifies afterwards; the notification *)
(* goes through a channel of capacity one and is dropped when the channel  *)
(* is full.  The commit of a claim (CommitDeployment of                    *)
(* src/internal/infra/sql/baremetal_deployment.go) notifies nobody.  The   *)
(* manager reads the tables one by one, so a change may fall between two   *)
(* reads, or between the reads and the push to the server.                 *)
(***************************************************************************)
EXTENDS Naturals, FiniteSets

CONSTANTS
    Machines,     \* machine records
    VMs,          \* virtual machine records
    AllMACs,      \* node -> the hardware addresses it lists
    StaticIP,     \* the nodes with a static address
    MaxChanges,   \* bound on the changes of the inventory and the subnet
    MaxFailures   \* bound on failing reads and starts, dying servers and
                  \* changes of the server's own address

(* A machine and a virtual machine are rows of two tables. *)
ASSUME TablesApart == Machines \cap VMs = {}

VARIABLES
    node,         \* node -> "absent", "idle", "active" or "applied"
    subnet,       \* the first subnet: "none", or whether the configured mode
                  \* can serve it, "unready" or "ready" (pxeSubnetReady)
    silent,       \* store changes whose notification is still to come
    untold,       \* the machines CommitDeployment wrote since they were listed
    trigger,      \* the channel of capacity one holds a notification
    pc,           \* where the manager's goroutine is
    seen,         \* what syncDHCPReservations has collected so far
    cur,          \* r.dhcpServer: the generation of the server, 0: nil
    live,         \* the generations whose listeners run uncancelled
    failing,      \* the listeners that failed and are about to clean up
    gen,          \* generations used so far
    told,         \* the sets the current server was given
    changes, failures

pxeVars == <<node, subnet, silent, untold, trigger, pc, seen, cur, live, failing, gen,
             told, changes, failures>>

Nodes == Machines \cup VMs
MACsOf(S) == UNION {AllMACs[n] : n \in S}
AllKnownMACs == MACsOf(Nodes)

NoSets == [registered |-> {}, local |-> {}, static |-> {}]

(* shouldDirectLocalBoot: the node is not being provisioned, or it is a     *)
(* machine whose image has been applied.                                    *)
DirectLocalBoot(n) ==
    \/ node[n] = "idle"
    \/ n \in Machines /\ node[n] = "applied"

(* What one pass over a listed table contributes. *)
Listed(S) ==
    LET here == {n \in S : node[n] # "absent"}
    IN [registered   |-> MACsOf(here),
        static       |-> here \cap StaticIP,
        local        |-> MACsOf({n \in here : DirectLocalBoot(n)}),
        provisioning |-> MACsOf({n \in here : node[n] # "idle" /\ ~DirectLocalBoot(n)})]
Unlisted == [registered |-> {}, static |-> {}, local |-> {}, provisioning |-> {}]
Joined(a, b) == [f \in DOMAIN a |-> a[f] \cup b[f]]

(* Bug: a machine that shares an address with an idle record boots locally. *)
LocalKeptShared(s) == s.local
(* removeProvisioningLocalBootMACs *)
LocalBootMACs(s) == s.local \ s.provisioning

-----------------------------------------------------------------------------
(* selectBootFile, for a registered client of the given kind. *)
BootFile(mac, client) ==
    CASE client = "ipxe" -> "script"
      [] client = "uefi" -> IF mac \in told.local THEN "localboot" ELSE "installer"
      [] client = "bios" -> "undionly"

(* handleFull and handleProxy: boot information only for a registered PXE   *)
(* client; a client of another vendor class gets an address at most.        *)
Boots(mac, client) ==
    IF cur # 0 /\ mac \in told.registered /\ client # "other"
    THEN BootFile(mac, client) ELSE "nothing"

-----------------------------------------------------------------------------
PXEInit ==
    /\ node \in [Nodes -> {"absent", "idle"}]
    /\ subnet = "none"
    /\ silent = 0 /\ untold = {} /\ trigger = FALSE
    /\ pc = "reconcile"
    /\ seen = [ok |-> TRUE, sets |-> Unlisted]
    /\ cur = 0 /\ live = {} /\ failing = {} /\ gen = 0
    /\ told = NoSets
    /\ changes = 0 /\ failures = 0

Fail == failures < MaxFailures /\ failures' = failures + 1

(* The machine, virtual machine and subnet stores commit a change; their    *)
(* notify() runs afterwards.                                                *)
ChangeNode(n, s) ==
    /\ changes < MaxChanges
    /\ s # node[n]
    /\ node' = [node EXCEPT ![n] = s]
    /\ changes' = changes + 1
    /\ silent' = silent + 1
    /\ UNCHANGED <<subnet, untold, trigger, pc, seen, cur, live, failing, gen, told, failures>>
(* CommitDeployment of a claim starts an attempt in the machine's row, and   *)
(* nobody is notified.  (Unregister writes the row silently too, but only   *)
(* what the sync does not read.)                                            *)
CommitDeployment(n) ==
    /\ changes < MaxChanges
    /\ node[n] # "absent"
    /\ node' = [node EXCEPT ![n] = "active"]
    /\ untold' = untold \cup {n}
    /\ changes' = changes + 1
    /\ UNCHANGED <<subnet, silent, trigger, pc, seen, cur, live, failing, gen, told, failures>>
ChangeSubnet(s) ==
    /\ changes < MaxChanges
    /\ s # subnet
    /\ subnet' = s
    /\ changes' = changes + 1
    /\ silent' = silent + 1
    /\ UNCHANGED <<node, untold, trigger, pc, seen, cur, live, failing, gen, told, failures>>
(* The non-blocking send of the subscriber. *)
Notify ==
    /\ silent > 0
    /\ silent' = silent - 1
    /\ trigger' = TRUE
    /\ UNCHANGED <<node, subnet, untold, pc, seen, cur, live, failing, gen, told, changes,
                   failures>>

(* The manager's select: a notification or the 30 second tick. *)
Wake ==
    /\ pc = "idle"
    /\ pc' = "reconcile"
    /\ trigger' = FALSE
    /\ UNCHANGED <<node, subnet, silent, untold, seen, cur, live, failing, gen, told, changes,
                   failures>>

(* stopPXE forgets the server and cancels its listeners. *)
Stopped ==
    /\ cur' = 0
    /\ live' = live \ {cur}
    /\ told' = NoSets

(* reconcilePXE, the ways that end without a server: no subnet the mode can *)
(* serve, or a failing read, interface or boot asset.                       *)
ReconcileStops ==
    /\ pc = "reconcile"
    /\ \/ subnet # "ready" /\ UNCHANGED failures
       \/ Fail
    /\ Stopped
    /\ pc' = "idle"
    /\ UNCHANGED <<node, subnet, silent, untold, trigger, seen, failing, gen, changes>>

(* A server with the wanted state exists: Reconfigure, then the sync. *)
ReconcileKeeps ==
    /\ pc = "reconcile"
    /\ subnet = "ready"
    /\ cur # 0
    /\ pc' = "machines"
    /\ UNCHANGED <<node, subnet, silent, untold, trigger, seen, cur, live, failing, gen, told,
                   changes, failures>>

(* startPXE: the new server is current at once, its listeners start after   *)
(* the sync.  A server on another interface or address is stopped first.    *)
ReconcileStarts ==
    /\ pc = "reconcile"
    /\ subnet = "ready"
    /\ IF cur = 0 THEN UNCHANGED failures ELSE Fail
    /\ live' = live \ {cur}
    /\ gen' = gen + 1
    /\ cur' = gen'
    /\ told' = NoSets
    /\ pc' = "machines"
    /\ UNCHANGED <<node, subnet, silent, untold, trigger, seen, failing, changes>>

(* syncDHCPReservations: list the machines, list the virtual machines (a    *)
(* failing list contributes nothing), push.  Without a server it returns.   *)
Reads(S, next) ==
    /\ \/ /\ seen' = [seen EXCEPT !.sets = Joined(@, Listed(S))]
          /\ untold' = untold \ S
          /\ UNCHANGED failures
       \/ /\ Fail
          /\ seen' = [seen EXCEPT !.ok = FALSE]
          /\ UNCHANGED untold
    /\ pc' = next
    /\ UNCHANGED <<node, subnet, silent, trigger, cur, live, failing, gen, told, changes>>
ListMachines == pc = "machines" /\ cur # 0 /\ Reads(Machines, "vms")
ListVMs == pc = "vms" /\ Reads(VMs, "push")
SyncNothing ==
    /\ pc = "machines"
    /\ cur = 0
    /\ pc' = "idle"
    /\ UNCHANGED <<node, subnet, silent, untold, trigger, seen, cur, live, failing, gen, told,
                   changes, failures>>
(* Bug: a failed list is held against every later sync. *)
FreshButFailed == [ok |-> seen.ok, sets |-> Unlisted]
(* The local variables of the next sync. *)
Fresh == [ok |-> TRUE, sets |-> Unlisted]

(* The push: the registered addresses only when both lists succeeded.  A    *)
(* server started by this reconcile begins to listen.                       *)
Push ==
    /\ pc = "push"
    /\ told' = IF cur = 0 THEN told
               ELSE [registered |-> IF seen.ok THEN seen.sets.registered ELSE told.registered,
                     static     |-> seen.sets.static,
                     local      |-> LocalBootMACs(seen.sets)]
    /\ live' = IF cur = 0 THEN live ELSE live \cup {cur}
    /\ seen' = Fresh
    /\ pc' = "idle"
    /\ UNCHANGED <<node, subnet, silent, untold, trigger, cur, failing, gen, changes, failures>>

(* A listener of generation g returns an error although nobody cancelled it,*)
(* and its goroutine then calls clearPXEIfCurrent.                          *)
ServerFails(g) ==
    /\ g \in live
    /\ g \notin failing
    /\ Fail
    /\ failing' = failing \cup {g}
    /\ UNCHANGED <<node, subnet, silent, untold, trigger, pc, seen, cur, live, gen, told, changes>>
(* Bug: the failed server clears whichever server is current. *)
ClearCurrent(g) ==
    /\ g \in failing
    /\ failing' = failing \ {g}
    /\ cur' = 0
    /\ live' = live \ {g}
    /\ told' = NoSets
    /\ UNCHANGED <<node, subnet, silent, untold, trigger, pc, seen, gen, changes, failures>>
ClearIfCurrent(g) ==
    /\ g \in failing
    /\ failing' = failing \ {g}
    /\ IF cur = g
       THEN Stopped
       ELSE UNCHANGED <<cur, live, told>>
    /\ UNCHANGED <<node, subnet, silent, untold, trigger, pc, seen, gen, changes, failures>>

Manager == Wake \/ ReconcileStops \/ ReconcileKeeps \/ ReconcileStarts
               \/ ListMachines \/ ListVMs \/ SyncNothing \/ Push
PXENext ==
    \/ \E n \in Nodes, s \in {"absent", "idle", "active", "applied"} : ChangeNode(n, s)
    \/ \E n \in Machines : CommitDeployment(n)
    \/ \E s \in {"none", "unready", "ready"} : ChangeSubnet(s)
    \/ Notify
    \/ Manager
    \/ \E g \in live : ServerFails(g)
    \/ \E g \in failing : ClearIfCurrent(g)
PXESpec == PXEInit /\ [][PXENext]_pxeVars

-----------------------------------------------------------------------------
(* What the inventory wants a client to boot, whoever else lists its        *)
(* address: the installer while one of its records is being provisioned     *)
(* and, being a machine, has not got its image yet.                         *)
Wanted(mac) ==
    LET owners == {n \in Nodes : node[n] # "absent" /\ mac \in AllMACs[n]}
    IN CASE owners = {} -> "nothing"
         [] \E n \in owners : ~DirectLocalBoot(n) -> "installer"
         [] OTHER -> "localboot"

(* No listener is left running that the manager does not know of, so the    *)
(* next server finds the ports free: clearPXEIfCurrent of a server that     *)
(* failed earlier must not take its successor out of the manager's hands.   *)
NoOrphanServer == \A g \in live : g = cur

(* No change of the inventory is lost between a commit, its notification    *)
(* through the channel of capacity one and the piecewise reads: when the    *)
(* manager waits with nothing to be notified of, every UEFI client is told  *)
(* to boot what the inventory wants.  The one exception are the addresses   *)
(* of a machine whose claim was deployed, retried or released since the     *)
(* last list: CommitDeployment notifies nobody, so they wait for the next   *)
(* notification or for the tick.                                            *)
NoLostChange ==
    (pc = "idle" /\ ~trigger /\ silent = 0 /\ failures = 0)
        => IF subnet = "ready"
           THEN \A mac \in AllKnownMACs \ MACsOf(untold) : Boots(mac, "uefi") = Wanted(mac)
           ELSE cur = 0

(* Once changes and failures cease, the periodic tick brings the server     *)
(* up, or down, and in line with the inventory, for good, whatever failed   *)
(* before (a failed list leaves partial sets behind, a failed listener no   *)
(* server) and although the commit of a claim notified nobody.              *)
EventuallyInSync ==
    <>[](IF subnet = "ready" THEN \A mac \in AllKnownMACs : Boots(mac, "uefi") = Wanted(mac)
         ELSE cur = 0)
=============================================================================
