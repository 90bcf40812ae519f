--------------------------- MODULE NetworkProofs ----------------------------
(***************************************************************************)
(* Proofs about the network services: the PXE manager (PXEManager), the    *)
(* embedded DNS server (EmbeddedDNS) and a transfer of the TFTP server     *)
(* (TFTPServer), each under its own specification and for every value of   *)
(* the constants.                                                          *)
(***************************************************************************)
EXTENDS Integers, PXEManager, EmbeddedDNS, TFTPServer, SequenceTheorems, TLAPS

(***************************************************************************)
(* The PXE manager.                                                        *)
(***************************************************************************)

(* Whatever fails, restarts or cleans up late, no listener runs that the    *)
(* manager does not hold: stopPXE and startPXE cancel the server they       *)
(* replace, and clearPXEIfCurrent leaves a successor alone.                 *)
THEOREM NoServerIsOrphaned == PXESpec => []NoOrphanServer
<1>1. PXEInit => NoOrphanServer
  BY DEF PXEInit, NoOrphanServer
<1>2. ASSUME NoOrphanServer, [PXENext]_pxeVars PROVE NoOrphanServer'
  <2>1. ASSUME UNCHANGED <<cur, live>> PROVE NoOrphanServer'
    BY <2>1, <1>2 DEF NoOrphanServer
  <2>2. ASSUME Stopped PROVE NoOrphanServer'
    BY <2>2, <1>2 DEF NoOrphanServer, Stopped
  <2>3. CASE UNCHANGED pxeVars \/ Notify
    BY <2>3, <2>1 DEF pxeVars, Notify
  <2>4. ASSUME NEW n \in Nodes, NEW s \in {"absent", "idle", "active", "applied"}, ChangeNode(n, s)
        PROVE  NoOrphanServer'
    BY <2>4, <2>1 DEF ChangeNode
  <2>5. ASSUME NEW s \in {"none", "unready", "ready"}, ChangeSubnet(s) PROVE NoOrphanServer'
    BY <2>5, <2>1 DEF ChangeSubnet
  <2>6. CASE Wake \/ ReconcileKeeps \/ SyncNothing
    BY <2>6, <2>1 DEF Wake, ReconcileKeeps, SyncNothing
  <2>7. CASE ListMachines \/ ListVMs
    BY <2>7, <2>1 DEF ListMachines, ListVMs, Reads
  <2>8. CASE ReconcileStops
    BY <2>8, <2>2 DEF ReconcileStops
  <2>9. CASE ReconcileStarts
    BY <2>9, <1>2 DEF ReconcileStarts, NoOrphanServer
  <2>10. CASE Push
    BY <2>10, <1>2 DEF Push, NoOrphanServer
  <2>11. ASSUME NEW g \in live, ServerFails(g) PROVE NoOrphanServer'
    BY <2>11, <2>1 DEF ServerFails
  <2>12. ASSUME NEW g \in failing, ClearIfCurrent(g) PROVE NoOrphanServer'
    BY <2>12, <2>1, <2>2 DEF ClearIfCurrent
  <2>13. ASSUME NEW n \in Machines, CommitDeployment(n) PROVE NoOrphanServer'
    BY <2>13, <2>1 DEF CommitDeployment
  <2> QED
    BY <1>2, <2>3, <2>4, <2>5, <2>6, <2>7, <2>8, <2>9, <2>10, <2>11, <2>12, <2>13 DEF PXENext, Manager
<1> QED
  BY <1>1, <1>2, PTL DEF PXESpec

-----------------------------------------------------------------------------
(* Sets that a sync has collected from the nodes of S and holds still, but  *)
(* for the addresses U.                                                     *)
Fields == {"registered", "static", "local", "provisioning"}
Here(S) == {n \in S : node[n] # "absent"}
LocalHere(S) == {n \in Here(S) : DirectLocalBoot(n)}
OtherHere(S) == {n \in Here(S) : ~DirectLocalBoot(n)}
Same(A, B, U) == \A mac : mac \notin U => (mac \in A <=> mac \in B)
Collected(s, S, U) ==
    /\ DOMAIN s = Fields
    /\ Same(s.registered, MACsOf(Here(S)), U)
    /\ Same(s.local, MACsOf(LocalHere(S)), U)
    /\ Same(s.provisioning, MACsOf(OtherHere(S)), U)
Empty(s) == DOMAIN s = Fields /\ s.registered = {} /\ s.local = {} /\ s.provisioning = {}
(* The server was told what the inventory says, but for the addresses U. *)
ToldAll(U) ==
    /\ Same(told.registered, MACsOf(Here(Nodes)), U)
    /\ Same(told.local, MACsOf(LocalHere(Nodes)) \ MACsOf(OtherHere(Nodes)), U)
(* Every change so far has been notified, and the notification consumed. *)
Clean == ~trigger /\ silent = 0

(* Unless something failed, the passes of the manager are in step with the  *)
(* inventory whenever no notification is on its way.                        *)
SyncInv ==
    /\ silent \in Nat /\ gen \in Nat /\ failures \in Nat /\ untold \subseteq Machines
    /\ failures = 0 =>
         /\ failing = {} /\ seen.ok = TRUE
         /\ DOMAIN seen = {"ok", "sets"}
         /\ pc \in {"idle", "reconcile", "machines"} => Empty(seen.sets)
         /\ pc \in {"machines", "vms", "push"} => cur # 0
         /\ pc \in {"machines", "vms", "push", "idle", "reconcile"}
         /\ Clean => /\ pc \in {"machines", "vms", "push"} => subnet = "ready"
                     /\ pc = "vms" => Collected(seen.sets, Machines, MACsOf(untold))
                     /\ pc = "push" => Collected(seen.sets, Nodes, MACsOf(untold))
                     /\ pc = "idle" => IF subnet = "ready" THEN cur # 0 /\ ToldAll(MACsOf(untold))
                                       ELSE cur = 0

LEMMA MACsJoin ==
    ASSUME NEW S, NEW T
    PROVE  MACsOf(S) \cup MACsOf(T) = MACsOf(S \cup T)
BY Zenon DEF MACsOf

LEMMA SameJoin ==
    ASSUME NEW A, NEW B, NEW S, NEW T, NEW U, Same(A, MACsOf(S), U), Same(B, MACsOf(T), U)
    PROVE  Same(A \cup B, MACsOf(S \cup T), U)
BY MACsJoin DEF Same

(* A pass over another table adds what that table holds. *)
LEMMA Collecting ==
    ASSUME NEW s, NEW S, NEW T, NEW U, Collected(s, S, U)
    PROVE  Collected(Joined(s, Listed(T)), S \cup T, U)
<1> DEFINE l == Listed(T)
           j == Joined(s, l)
<1>1. /\ l.registered = MACsOf(Here(T))
      /\ l.local = MACsOf(LocalHere(T))
      /\ l.provisioning = MACsOf({n \in Here(T) : node[n] # "idle" /\ ~DirectLocalBoot(n)})
  BY DEF Listed, Here, LocalHere
<1>2. {n \in Here(T) : node[n] # "idle" /\ ~DirectLocalBoot(n)} = OtherHere(T)
  BY DEF DirectLocalBoot, OtherHere
<1>3. /\ Same(l.registered, MACsOf(Here(T)), U)
      /\ Same(l.local, MACsOf(LocalHere(T)), U)
      /\ Same(l.provisioning, MACsOf(OtherHere(T)), U)
  <2> HIDE DEF l
  <2> QED
    BY <1>1, <1>2 DEF Same
<1>4. DOMAIN s = Fields
  BY DEF Collected
<1> HIDE DEF l
<1>5. /\ DOMAIN j = Fields
      /\ j.registered = s.registered \cup l.registered
      /\ j.local = s.local \cup l.local
      /\ j.provisioning = s.provisioning \cup l.provisioning
  BY <1>4 DEF Joined, Fields
<1> HIDE DEF j
<1>6. /\ Here(S) \cup Here(T) = Here(S \cup T)
      /\ LocalHere(S) \cup LocalHere(T) = LocalHere(S \cup T)
      /\ OtherHere(S) \cup OtherHere(T) = OtherHere(S \cup T)
  BY DEF Here, LocalHere, OtherHere
<1>7. /\ Same(j.registered, MACsOf(Here(S \cup T)), U)
      /\ Same(j.local, MACsOf(LocalHere(S \cup T)), U)
      /\ Same(j.provisioning, MACsOf(OtherHere(S \cup T)), U)
  <2>1. /\ Same(s.registered \cup l.registered, MACsOf(Here(S) \cup Here(T)), U)
        /\ Same(s.local \cup l.local, MACsOf(LocalHere(S) \cup LocalHere(T)), U)
        /\ Same(s.provisioning \cup l.provisioning, MACsOf(OtherHere(S) \cup OtherHere(T)), U)
    BY <1>3, SameJoin DEF Collected
  <2> QED
    BY <2>1, <1>5, <1>6
<1>8. Collected(j, S \cup T, U)
  BY <1>5, <1>7 DEF Collected
<1> QED
  BY <1>8 DEF j, l

LEMMA NothingCollected ==
    ASSUME NEW s, Empty(s), NEW U
    PROVE  Collected(s, {}, U)
<1>1. MACsOf({}) = {} /\ Here({}) = {}
  BY DEF MACsOf, Here
<1>2. LocalHere({}) = {} /\ OtherHere({}) = {}
  BY <1>1 DEF LocalHere, OtherHere
<1> QED
  BY <1>1, <1>2 DEF Collected, Empty, Same

(* Only the addresses of a machine that a claim commits may differ by it. *)
LEMMA CommitStays ==
    ASSUME NEW n \in Machines, CommitDeployment(n)
    PROVE  /\ \A s, S : Collected(s, S, MACsOf(untold)) => Collected(s, S, MACsOf(untold))'
           /\ ToldAll(MACsOf(untold)) => ToldAll(MACsOf(untold))'
<1>1. /\ node[n] # "absent" /\ node' = [node EXCEPT ![n] = "active"]
      /\ untold' = untold \cup {n} /\ told' = told
  BY DEF CommitDeployment
<1>2. ASSUME NEW m, m # n PROVE node'[m] = node[m] /\ (DirectLocalBoot(m)' <=> DirectLocalBoot(m))
  BY <1>1, <1>2 DEF DirectLocalBoot
<1>3. node'[n] # "absent"
  <2>1. CASE n \in DOMAIN node
    BY <1>1, <2>1
  <2>2. CASE n \notin DOMAIN node
    BY <1>1, <2>2
  <2> QED
    BY <2>1, <2>2
<1>4. \A S : Here(S)' = Here(S)
  BY <1>1, <1>2, <1>3 DEF Here
<1>5. \A S, m : m # n => (m \in LocalHere(S)' <=> m \in LocalHere(S)) /\ (m \in OtherHere(S)' <=> m \in OtherHere(S))
  BY <1>2, <1>4 DEF LocalHere, OtherHere
<1>6. \A mac : mac \notin MACsOf(untold)' => mac \notin MACsOf(untold) /\ mac \notin AllMACs[n]
  BY <1>1 DEF MACsOf
<1>7. \A S, mac : mac \notin MACsOf(untold)' =>
          /\ mac \in MACsOf(LocalHere(S))' <=> mac \in MACsOf(LocalHere(S))
          /\ mac \in MACsOf(OtherHere(S))' <=> mac \in MACsOf(OtherHere(S))
          /\ mac \in MACsOf(Here(S))' <=> mac \in MACsOf(Here(S))
  BY <1>4, <1>5, <1>6 DEF MACsOf
<1> QED
  BY <1>1, <1>6, <1>7 DEF Collected, ToldAll, Same

(* A notification is on its way, or the manager is about to look. *)
LEMMA SyncLater ==
    ASSUME SyncInv, ~Clean' \/ pc' = "reconcile", silent' \in Nat,
           UNCHANGED <<untold, seen, cur, failing, gen, failures>>, pc' = pc \/ (pc = "idle" /\ pc' = "reconcile")
    PROVE  SyncInv'
BY DEF SyncInv, Clean, Empty

(* The inventory, as far as it matters here, does not move. *)
LEMMA SameInventory ==
    ASSUME node' = node
    PROVE  \A S : Here(S)' = Here(S) /\ LocalHere(S)' = LocalHere(S) /\ OtherHere(S)' = OtherHere(S)
<1>1. \A S : Here(S)' = Here(S)
  BY DEF Here
<1>2. \A n : DirectLocalBoot(n)' <=> DirectLocalBoot(n)
  BY DEF DirectLocalBoot
<1> QED
  BY <1>1, <1>2 DEF LocalHere, OtherHere

LEMMA SyncReading ==
    ASSUME SyncInv, NEW S, NEW T, NEW next, Reads(T, next), untold \subseteq Machines,
           failures = 0 => cur # 0,
           \/ pc = "machines" /\ S = {} /\ T = Machines /\ next = "vms"
           \/ pc = "vms" /\ S = Machines /\ T = VMs /\ next = "push"
    PROVE  SyncInv'
<1>1. UNCHANGED <<node, subnet, silent, trigger, cur, live, failing, gen, told, changes>> /\ pc' = next
  BY DEF Reads
<1>2. CASE failures' = failures + 1
  <2>1. failures' \in Nat /\ failures' # 0
    BY <1>2 DEF SyncInv
  <2>2. untold' \subseteq Machines
    BY DEF Reads
  <2> QED
    BY <2>1, <2>2, <1>1 DEF SyncInv
<1>3. CASE failures' # failures + 1
  <2> DEFINE j == Joined(seen.sets, Listed(T))
             U == IF T = Machines THEN {} ELSE MACsOf(untold)
  <2>1. failures' = failures /\ seen' = [seen EXCEPT !.sets = j] /\ untold' = untold \ T
    BY <1>3 DEF Reads, Fail
  <2>2. SUFFICES ASSUME failures = 0
                 PROVE  /\ failing' = {} /\ seen'.ok = TRUE /\ DOMAIN seen' = {"ok", "sets"}
                        /\ cur' # 0
                        /\ Clean => subnet' = "ready" /\ Collected(seen.sets, S \cup T, MACsOf(untold))'
    <3>1. untold' \subseteq Machines
      BY <2>1
    <3> QED
      BY <1>1, <2>1, <3>1 DEF SyncInv, Clean, Nodes
  <2>3. seen'.ok = TRUE /\ DOMAIN seen' = {"ok", "sets"} /\ seen'.sets = j
    <3> HIDE DEF j
    <3> QED
      BY <2>1, <2>2 DEF SyncInv
  <2>4. ASSUME Clean PROVE subnet = "ready" /\ Collected(seen.sets, S, MACsOf(untold)')
    <3>1. CASE pc = "machines"
      BY <3>1, <2>4, <2>2, NothingCollected DEF SyncInv
    <3>2. CASE pc = "vms"
      <4>1. untold' = untold
        BY <2>1, <3>2, TablesApart
      <4>2. MACsOf(untold)' = MACsOf(untold)
        BY <4>1 DEF MACsOf
      <4> QED
        BY <3>2, <2>4, <2>2, <4>2 DEF SyncInv
    <3> QED
      BY <3>1, <3>2
  <2>5. ASSUME Clean PROVE Collected(seen.sets, S \cup T, MACsOf(untold))'
    <3>1. Collected(j, S \cup T, MACsOf(untold)')
      BY <2>4, <2>5, Collecting
    <3>2. Collected(seen.sets, S \cup T, MACsOf(untold))' <=> Collected(j, S \cup T, MACsOf(untold)')
      <4> HIDE DEF j
      <4>1. \A R : Here(R)' = Here(R) /\ LocalHere(R)' = LocalHere(R) /\ OtherHere(R)' = OtherHere(R)
        BY <1>1, SameInventory
      <4> QED
        BY <4>1, <2>3 DEF Collected, MACsOf, Same
    <3> QED
      BY <3>1, <3>2
  <2> QED
    BY <2>2, <2>3, <2>4, <2>5, <1>1 DEF SyncInv
<1> QED
  BY <1>2, <1>3

LEMMA SyncPush ==
    ASSUME SyncInv, Push
    PROVE  SyncInv'
<1>1. /\ pc = "push" /\ pc' = "idle" /\ seen' = Fresh
      /\ UNCHANGED <<node, subnet, silent, untold, trigger, cur, failing, gen, changes, failures>>
  BY DEF Push
<1>2. seen'.ok = TRUE /\ DOMAIN seen' = {"ok", "sets"} /\ Empty(seen'.sets)
  BY <1>1 DEF Fresh, Unlisted, Empty, Fields
<1>3. SUFFICES ASSUME failures = 0, Clean
               PROVE  IF subnet = "ready" THEN cur # 0 /\ ToldAll(MACsOf(untold))' ELSE cur = 0
  BY <1>1, <1>2 DEF SyncInv, Clean, Empty
<1>4. /\ cur # 0 /\ subnet = "ready" /\ seen.ok = TRUE
      /\ Collected(seen.sets, Nodes, MACsOf(untold))
  BY <1>1, <1>3 DEF SyncInv
<1>5. /\ told'.registered = seen.sets.registered
      /\ told'.local = seen.sets.local \ seen.sets.provisioning
  BY <1>4 DEF Push, LocalBootMACs
<1>6. ToldAll(MACsOf(untold))'
  <2>1. \A R : Here(R)' = Here(R) /\ LocalHere(R)' = LocalHere(R) /\ OtherHere(R)' = OtherHere(R)
    BY <1>1, SameInventory
  <2> QED
    BY <1>1, <1>4, <1>5, <2>1 DEF ToldAll, Collected, Same, MACsOf, Nodes
<1> QED
  BY <1>4, <1>6

LEMMA SyncSteps ==
    ASSUME SyncInv, [PXENext]_pxeVars
    PROVE  SyncInv'
<1>0. silent \in Nat /\ gen \in Nat /\ failures \in Nat /\ untold \subseteq Machines
  BY DEF SyncInv
<1>1. ASSUME failures' \in Nat, failures' # 0, silent' \in Nat, gen' \in Nat, untold' = untold
      PROVE  SyncInv'
  BY <1>0, <1>1 DEF SyncInv
<1>2. CASE UNCHANGED pxeVars
  <2>1. \A R : Here(R)' = Here(R) /\ LocalHere(R)' = LocalHere(R) /\ OtherHere(R)' = OtherHere(R)
    BY <1>2, SameInventory DEF pxeVars
  <2> QED
    BY <1>2, <2>1 DEF pxeVars, SyncInv, Clean, Empty, Collected, ToldAll, MACsOf, Same, Nodes
<1>3. ASSUME NEW n \in Nodes, NEW s \in {"absent", "idle", "active", "applied"}, ChangeNode(n, s)
      PROVE  SyncInv'
  <2>1. silent' \in Nat /\ ~Clean'
    BY <1>0, <1>3 DEF ChangeNode, Clean
  <2> QED
    BY <2>1, <1>3, SyncLater DEF ChangeNode
<1>16. ASSUME NEW n \in Machines, CommitDeployment(n) PROVE SyncInv'
  <2>1. UNCHANGED <<subnet, silent, trigger, pc, seen, cur, failing, gen, failures>>
    BY <1>16 DEF CommitDeployment
  <2>2. untold' \subseteq Machines
    BY <1>0, <1>16 DEF CommitDeployment
  <2>3. /\ \A s, S : Collected(s, S, MACsOf(untold)) => Collected(s, S, MACsOf(untold))'
        /\ ToldAll(MACsOf(untold)) => ToldAll(MACsOf(untold))'
    BY <1>16, CommitStays
  <2>4. /\ Collected(seen.sets, Machines, MACsOf(untold)) => Collected(seen.sets, Machines, MACsOf(untold))'
        /\ Collected(seen.sets, Nodes, MACsOf(untold)) => Collected(seen.sets, Nodes, MACsOf(untold))'
    BY <2>1, <2>3 DEF Collected, Nodes
  <2> QED
    BY <2>1, <2>2, <2>3, <2>4 DEF SyncInv, Clean, Empty
<1>4. ASSUME NEW s \in {"none", "unready", "ready"}, ChangeSubnet(s) PROVE SyncInv'
  <2>1. silent' \in Nat /\ ~Clean'
    BY <1>0, <1>4 DEF ChangeSubnet, Clean
  <2> QED
    BY <2>1, <1>4, SyncLater DEF ChangeSubnet
<1>5. CASE Notify
  <2>1. silent' \in Nat /\ ~Clean'
    BY <1>0, <1>5 DEF Notify, Clean
  <2> QED
    BY <2>1, <1>5, SyncLater DEF Notify
<1>6. CASE Wake
  BY <1>0, <1>6, SyncLater DEF Wake
<1>7. CASE ReconcileStops
  <2>1. CASE Fail
    BY <2>1, <1>0, <1>1, <1>7 DEF Fail, ReconcileStops
  <2>2. CASE ~Fail
    <3>1. /\ pc = "reconcile" /\ pc' = "idle" /\ subnet # "ready" /\ cur' = 0
          /\ UNCHANGED <<node, subnet, silent, untold, trigger, seen, failing, gen, failures>>
      BY <2>2, <1>7 DEF ReconcileStops, Stopped
    <3> QED
      BY <3>1 DEF SyncInv, Clean, Empty
  <2> QED
    BY <2>1, <2>2
<1>8. CASE ReconcileKeeps
  BY <1>8 DEF ReconcileKeeps, SyncInv, Clean, Empty
<1>9. CASE ReconcileStarts
  <2>1. gen' \in Nat /\ cur' # 0
    BY <1>9, <1>0 DEF ReconcileStarts
  <2>2. CASE cur = 0
    <3>1. /\ pc = "reconcile" /\ pc' = "machines" /\ subnet = "ready"
          /\ UNCHANGED <<node, subnet, silent, untold, trigger, seen, failing, failures>>
      BY <2>2, <1>9 DEF ReconcileStarts
    <3> QED
      BY <3>1, <2>1 DEF SyncInv, Clean, Empty
  <2>3. CASE cur # 0
    BY <2>1, <2>3, <1>0, <1>1, <1>9 DEF Fail, ReconcileStarts
  <2> QED
    BY <2>2, <2>3
<1>10. CASE ListMachines
  BY <1>0, <1>10, SyncReading DEF ListMachines
<1>11. CASE ListVMs
  <2>1. failures = 0 => cur # 0
    BY <1>11 DEF SyncInv, ListVMs
  <2> QED
    BY <1>0, <2>1, <1>11, SyncReading DEF ListVMs
<1>12. CASE SyncNothing
  <2>1. failures # 0 /\ UNCHANGED <<silent, untold, gen, failures>>
    BY <1>12 DEF SyncInv, SyncNothing
  <2> QED
    BY <2>1, <1>0, <1>1
<1>13. CASE Push
  BY <1>13, SyncPush
<1>14. ASSUME NEW g \in live, ServerFails(g) PROVE SyncInv'
  BY <1>0, <1>1, <1>14 DEF ServerFails, Fail
<1>15. ASSUME NEW g \in failing, ClearIfCurrent(g) PROVE SyncInv'
  <2>1. failures # 0 /\ UNCHANGED <<silent, untold, gen, failures>>
    BY <1>15 DEF SyncInv, ClearIfCurrent
  <2> QED
    BY <2>1, <1>0, <1>1
<1> QED
  BY <1>2, <1>3, <1>4, <1>5, <1>6, <1>7, <1>8, <1>9, <1>10, <1>11, <1>12, <1>13, <1>14, <1>15, <1>16
     DEF PXENext, Manager

LEMMA SyncInvariant == PXESpec => []SyncInv
<1>1. PXEInit => SyncInv
  BY DEF PXEInit, SyncInv, Empty, Unlisted, Fields
<1>2. SyncInv /\ [PXENext]_pxeVars => SyncInv'
  BY SyncSteps
<1> QED
  BY <1>1, <1>2, PTL DEF PXESpec

(* What a server that was told everything makes a UEFI client boot. *)
LEMMA ToldIsWanted ==
    ASSUME cur # 0, NEW mac, NEW U, ToldAll(U), mac \notin U
    PROVE  Boots(mac, "uefi") = Wanted(mac)
<1> DEFINE owners == {n \in Nodes : node[n] # "absent" /\ mac \in AllMACs[n]}
<1>1. mac \in told.registered <=> owners # {}
  BY DEF ToldAll, Same, MACsOf, Here
<1>2. mac \in MACsOf(LocalHere(Nodes)) <=> \E n \in owners : DirectLocalBoot(n)
  BY DEF MACsOf, Here, LocalHere
<1>3. mac \in MACsOf(OtherHere(Nodes)) <=> \E n \in owners : ~DirectLocalBoot(n)
  BY DEF MACsOf, Here, OtherHere
<1>4. mac \in told.local <=> /\ \E n \in owners : DirectLocalBoot(n)
                             /\ ~\E n \in owners : ~DirectLocalBoot(n)
  BY <1>2, <1>3 DEF ToldAll, Same
<1>5. Wanted(mac) = CASE owners = {} -> "nothing"
                      [] \E n \in owners : ~DirectLocalBoot(n) -> "installer"
                      [] OTHER -> "localboot"
  BY DEF Wanted
<1> HIDE DEF owners
<1>6. CASE owners = {}
  <2>1. Wanted(mac) = "nothing"
    BY <1>5, <1>6
  <2>2. Boots(mac, "uefi") = "nothing"
    BY <1>1, <1>6 DEF Boots
  <2> QED
    BY <2>1, <2>2
<1>7. CASE owners # {} /\ \E n \in owners : ~DirectLocalBoot(n)
  <2>1. Wanted(mac) = "installer"
    BY <1>5, <1>7
  <2>2. Boots(mac, "uefi") = "installer"
    BY <1>1, <1>4, <1>7 DEF Boots, BootFile
  <2> QED
    BY <2>1, <2>2
<1>8. CASE owners # {} /\ ~\E n \in owners : ~DirectLocalBoot(n)
  <2>1. Wanted(mac) = "localboot"
    BY <1>5, <1>8
  <2>2. mac \in told.local
    BY <1>4, <1>8
  <2>3. Boots(mac, "uefi") = "localboot"
    BY <1>1, <2>2, <1>8 DEF Boots, BootFile
  <2> QED
    BY <2>1, <2>3
<1> QED
  BY <1>6, <1>7, <1>8

(* No change of the inventory is lost, with any machines sharing any        *)
(* addresses: a change that falls between the reads of syncDHCPReservations *)
(* or after them has its notification still to come or in the channel, and  *)
(* the manager waits without one only after a pass that read everything     *)
(* the inventory holds now, but for the machines that a claim's             *)
(* CommitDeployment has written since: those alone are told to nobody.      *)
THEOREM NoChangeIsLost == PXESpec => []NoLostChange
<1>1. SyncInv => NoLostChange
  <2>1. SUFFICES ASSUME SyncInv, pc = "idle", ~trigger, silent = 0, failures = 0
                 PROVE  IF subnet = "ready"
                        THEN \A mac \in AllKnownMACs \ MACsOf(untold) : Boots(mac, "uefi") = Wanted(mac)
                        ELSE cur = 0
    BY DEF NoLostChange
  <2>2. IF subnet = "ready" THEN cur # 0 /\ ToldAll(MACsOf(untold)) ELSE cur = 0
    BY <2>1 DEF SyncInv, Clean
  <2> QED
    BY <2>2, ToldIsWanted
<1> QED
  BY <1>1, SyncInvariant, PTL

(***************************************************************************)
(* The embedded DNS server.                                                *)
(***************************************************************************)
RecordMap == [Names -> [Types -> SUBSET Values]]
ValueMap == [Types -> SUBSET Values]

(* Only a set that was given such a value holds one with blanks around it,  *)
(* or without text.                                                         *)
Odd(recs) ==
    \A n \in Names, t \in Types, v \in Values :
        v \in recs[n][t] /\ ~Plain(v) => <<n, t>> \in padded
(* The records agree with what was confirmed. *)
Agree(recs) ==
    \A n \in Names, t \in Types : <<n, t>> \notin doubtful =>
        \A v \in Values :
            /\ Plain(v) /\ v \in acked[n][t] => v \in recs[n][t]
            /\ <<n, t>> \notin padded /\ v \in recs[n][t] => v \in acked[n][t]
DynInv ==
    /\ dyn \in RecordMap /\ file \in RecordMap /\ acked \in RecordMap
    /\ Odd(dyn) /\ Odd(file) /\ Odd(acked)
    /\ Agree(file)
    /\ loaded => Agree(dyn)

LEMMA DynIsAcked ==
    ASSUME DynInv
    PROVE  AckedSurvives
BY DEF DynInv, Agree, AckedSurvives

LEMMA ValueChanges ==
    ASSUME NEW r \in RecordMap, NEW n \in Names, NEW del \in SUBSET Types,
           NEW none \in ValueMap, NEW add \in ValueMap
    PROVE  LET c == ChangedRecords(r, n, del, none, add)
           IN  /\ c \in RecordMap
               /\ \A m \in Names, t \in Types, v \in Values :
                     v \in c[m][t] <=> IF m = n THEN \/ t \notin del /\ v \in r[m][t] /\ v \notin none[t]
                                                    \/ v \in add[t]
                                       ELSE v \in r[m][t]
BY DEF ChangedRecords, RecordMap, ValueMap

LEMMA NormalizedValues ==
    ASSUME NEW vs \in SUBSET Values
    PROVE  /\ Normalized(vs) \in SUBSET Values
           /\ \A v \in Normalized(vs) : Plain(v)
           /\ \A v \in vs : Plain(v) => v \in Normalized(vs)
           /\ (\A v \in vs : Plain(v)) => Normalized(vs) \subseteq vs
<1>1. ASSUME NEW v \in Values, Plain(v) PROVE [text |-> v.text, blanks |-> FALSE] = v
  BY <1>1 DEF Plain, Values
<1>2. ASSUME NEW v \in Values, v.text # ""
      PROVE  [text |-> v.text, blanks |-> FALSE] \in Values /\ Plain([text |-> v.text, blanks |-> FALSE])
  BY <1>2 DEF Plain, Values
<1>3. \A v \in vs : Plain(v) => v.text # ""
  BY DEF Plain
<1> QED
  BY <1>1, <1>2, <1>3 DEF Normalized

(* The records an operation starts from agree with what was confirmed. *)
LEMMA LoadAgrees ==
    ASSUME DynInv
    PROVE  Load \in RecordMap /\ Agree(Load) /\ Odd(Load)
<1>1. CASE loaded
  BY <1>1 DEF Load, DynInv
<1>2. CASE ~loaded
  <2>1. Load = FromFile
    BY <1>2 DEF Load
  <2>2. ASSUME NEW n \in Names, NEW t \in Types
        PROVE  /\ FromFile[n][t] = Normalized(file[n][t])
               /\ file[n][t] \in SUBSET Values
    BY <2>2 DEF FromFile, DynInv, RecordMap
  <2>3. \A n \in Names, t \in Types :
            /\ FromFile[n][t] \in SUBSET Values
            /\ \A v \in FromFile[n][t] : Plain(v)
            /\ \A v \in file[n][t] : Plain(v) => v \in FromFile[n][t]
            /\ (\A v \in file[n][t] : Plain(v)) => FromFile[n][t] \subseteq file[n][t]
    BY <2>2, NormalizedValues
  <2>4. FromFile \in RecordMap
    BY <2>3 DEF FromFile, RecordMap
  <2>5. Odd(FromFile)
    BY <2>3 DEF Odd
  <2>6. ASSUME NEW n \in Names, NEW t \in Types, <<n, t>> \notin padded
        PROVE  \A v \in file[n][t] : Plain(v)
    BY <2>2, <2>6 DEF DynInv, Odd
  <2>7. Agree(FromFile)
    <3> SUFFICES ASSUME NEW n \in Names, NEW t \in Types, <<n, t>> \notin doubtful, NEW v \in Values
                 PROVE  /\ Plain(v) /\ v \in acked[n][t] => v \in FromFile[n][t]
                        /\ <<n, t>> \notin padded /\ v \in FromFile[n][t] => v \in acked[n][t]
      BY DEF Agree
    <3>1. /\ Plain(v) /\ v \in acked[n][t] => v \in file[n][t]
          /\ <<n, t>> \notin padded /\ v \in file[n][t] => v \in acked[n][t]
      BY DEF DynInv, Agree
    <3>2. Plain(v) /\ v \in file[n][t] => v \in FromFile[n][t]
      BY <2>3
    <3>3. <<n, t>> \notin padded /\ v \in FromFile[n][t] => v \in file[n][t]
      BY <2>3, <2>6
    <3> QED
      BY <3>1, <3>2, <3>3
  <2> QED
    BY <2>1, <2>4, <2>5, <2>7
<1> QED
  BY <1>1, <1>2

(* Every operation: its change is applied to the records and, once the file *)
(* is written, to what was confirmed.                                       *)
LEMMA Committing ==
    ASSUME DynInv, NEW n \in Names, NEW del \in SUBSET Types, NEW none \in ValueMap,
           NEW add \in ValueMap, NEW written \in BOOLEAN,
           Commit(n, del, none, add, written)
    PROVE  DynInv'
<1> DEFINE r == ChangedRecords(Load, n, del, none, add)
           c == ChangedRecords(acked, n, del, none, add)
           In(old, m, t, v) == IF m = n THEN \/ t \notin del /\ v \in old[m][t] /\ v \notin none[t]
                                            \/ v \in add[t]
                               ELSE v \in old[m][t]
           touched == {<<n, t>> : t \in {u \in Types : u \in del \/ none[u] # {} \/ add[u] # {}}}
           odd == {<<n, t>> : t \in {u \in Types : ~(add[u] \subseteq Texted)}}
           gone == {<<n, t>> : t \in del}
<1>1. Load \in RecordMap /\ Agree(Load) /\ Odd(Load) /\ acked \in RecordMap /\ file \in RecordMap
  BY LoadAgrees DEF DynInv
<1>2. r \in RecordMap /\ \A m \in Names, t \in Types, v \in Values : v \in r[m][t] <=> In(Load, m, t, v)
  BY <1>1, ValueChanges
<1>3. c \in RecordMap /\ \A m \in Names, t \in Types, v \in Values : v \in c[m][t] <=> In(acked, m, t, v)
  BY <1>1, ValueChanges
<1>4. /\ dyn' = r /\ loaded' = TRUE /\ padded' = padded \cup odd
      /\ \/ file' = r /\ acked' = c /\ doubtful' = doubtful \ gone
         \/ file' = file /\ acked' = acked /\ doubtful' = doubtful \cup touched
  BY DEF Commit
<1>5. ASSUME NEW m \in Names, NEW t \in Types, NEW v \in add[t], ~Plain(v), m = n
      PROVE  <<m, t>> \in odd
  <2>1. v \notin Texted
    BY <1>5 DEF Texted
  <2> QED
    BY <1>5, <2>1
<1>6. ASSUME NEW m \in Names, NEW t \in Types
      PROVE  /\ <<m, t>> \in gone <=> m = n /\ t \in del
             /\ <<m, t>> \notin touched => m # n \/ (t \notin del /\ none[t] = {} /\ add[t] = {})
  BY <1>6
<1> HIDE DEF r, c, touched, odd, gone
<1>7. ASSUME NEW old \in RecordMap, Odd(old), NEW new \in RecordMap,
             \A m \in Names, t \in Types, v \in Values : v \in new[m][t] <=> In(old, m, t, v)
      PROVE  \A m \in Names, t \in Types, v \in Values : v \in new[m][t] /\ ~Plain(v) => <<m, t>> \in padded'
  <2> SUFFICES ASSUME NEW m \in Names, NEW t \in Types, NEW v \in Values, v \in new[m][t], ~Plain(v)
               PROVE  <<m, t>> \in padded \cup odd
    BY <1>4
  <2>1. v \in old[m][t] \/ (m = n /\ v \in add[t])
    BY <1>7
  <2> QED
    BY <2>1, <1>5, <1>7 DEF Odd
<1>8. Odd(dyn)' /\ Odd(file)' /\ Odd(acked)'
  <2>1. \A m \in Names, t \in Types, v \in Values : v \in r[m][t] /\ ~Plain(v) => <<m, t>> \in padded'
    BY <1>1, <1>2, <1>7
  <2>2. \A m \in Names, t \in Types, v \in Values : v \in c[m][t] /\ ~Plain(v) => <<m, t>> \in padded'
    <3>1. Odd(acked)
      BY DEF DynInv
    <3> QED
      BY <3>1, <1>1, <1>3, <1>7
  <2>3. \A m \in Names, t \in Types, v \in Values :
           /\ v \in file[m][t] /\ ~Plain(v) => <<m, t>> \in padded'
           /\ v \in acked[m][t] /\ ~Plain(v) => <<m, t>> \in padded'
    BY <1>4 DEF DynInv, Odd
  <2> QED
    BY <1>4, <2>1, <2>2, <2>3 DEF Odd
<1>9. CASE file' = r /\ acked' = c /\ doubtful' = doubtful \ gone
  <2>1. Agree(file)' /\ Agree(dyn)'
    <3> SUFFICES ASSUME NEW m \in Names, NEW t \in Types, <<m, t>> \notin doubtful', NEW v \in Values
                 PROVE  /\ Plain(v) /\ v \in c[m][t] => v \in r[m][t]
                        /\ <<m, t>> \notin padded' /\ v \in r[m][t] => v \in c[m][t]
      BY <1>4, <1>9 DEF Agree
    <3>1. CASE m = n /\ t \in del
      BY <3>1, <1>2, <1>3
    <3>2. CASE ~(m = n /\ t \in del)
      <4>1. <<m, t>> \notin doubtful
        BY <3>2, <1>6, <1>9
      <4>2. /\ Plain(v) /\ v \in acked[m][t] => v \in Load[m][t]
            /\ <<m, t>> \notin padded /\ v \in Load[m][t] => v \in acked[m][t]
        BY <4>1, <1>1 DEF Agree
      <4> QED
        BY <4>2, <1>2, <1>3, <1>4
    <3> QED
      BY <3>1, <3>2
  <2> QED
    BY <2>1, <1>2, <1>3, <1>4, <1>8, <1>9 DEF DynInv
<1>10. CASE file' = file /\ acked' = acked /\ doubtful' = doubtful \cup touched
  <2>1. Agree(file)'
    BY <1>4, <1>10 DEF DynInv, Agree
  <2>2. Agree(dyn)'
    <3> SUFFICES ASSUME NEW m \in Names, NEW t \in Types, <<m, t>> \notin doubtful', NEW v \in Values
                 PROVE  /\ Plain(v) /\ v \in acked[m][t] => v \in r[m][t]
                        /\ <<m, t>> \notin padded' /\ v \in r[m][t] => v \in acked[m][t]
      BY <1>4, <1>10 DEF Agree
    <3>1. v \in r[m][t] <=> v \in Load[m][t]
      BY <1>2, <1>6, <1>10
    <3>2. /\ Plain(v) /\ v \in acked[m][t] => v \in Load[m][t]
          /\ <<m, t>> \notin padded /\ v \in Load[m][t] => v \in acked[m][t]
      BY <1>1, <1>10 DEF Agree
    <3> QED
      BY <3>1, <3>2, <1>4
  <2> QED
    BY <2>1, <2>2, <1>1, <1>2, <1>4, <1>8, <1>10 DEF DynInv
<1> QED
  BY <1>4, <1>9, <1>10

LEMMA DynSteps ==
    ASSUME DynInv, [DNSNext]_dnsVars
    PROVE  DynInv'
<1>1. ASSUME UNCHANGED recordVars PROVE DynInv'
  BY <1>1 DEF recordVars, DynInv, Agree, Odd
<1>2. CASE UNCHANGED dnsVars
  BY <1>1, <1>2 DEF dnsVars, recordVars
<1>3. ASSUME NEW i, EditInventory(i) PROVE DynInv'
  BY <1>1, <1>3 DEF EditInventory
<1>4. ASSUME NEW s \in Syncers, SyncReadsZones(s) \/ SyncReadsHosts(s) \/ SyncFails(s) PROVE DynInv'
  BY <1>1, <1>4 DEF SyncReadsZones, SyncReadsHosts, SyncFails
<1>5. ASSUME NEW s \in Syncers, SyncInstalls(s) PROVE DynInv'
  <2>1. dyn' = Load /\ loaded' = TRUE /\ UNCHANGED <<file, acked, doubtful, padded>>
    BY <1>5 DEF SyncInstalls
  <2>2. Load \in RecordMap /\ Agree(Load) /\ Odd(Load)
    BY LoadAgrees
  <2> QED
    BY <2>1, <2>2 DEF DynInv, Agree, Odd
<1>6. ASSUME NEW ok \in BOOLEAN, StartListens(ok) \/ ListenerEnds PROVE DynInv'
  BY <1>1, <1>6 DEF StartListens, ListenerEnds
<1>7. /\ NoValues \in ValueMap /\ {} \in SUBSET Types /\ Types \in SUBSET Types /\ {"A"} \in SUBSET Types
      /\ Texted \subseteq Values
      /\ \A t \in Types, v \in Values : OfType(t, {v}) \in ValueMap /\ {t} \in SUBSET Types
  BY DEF NoValues, ValueMap, OfType, Types, Texted
<1>8. ASSUME NEW v \in Values, NEW w \in Values PROVE [OfType("A", {v}) EXCEPT !["TXT"] = {w}] \in ValueMap
  BY DEF OfType, ValueMap, Types
<1>9. ASSUME NEW n \in Names, NEW t \in Types, NEW v \in Texted, UpsertDynamicRecord(n, t, v) PROVE DynInv'
  BY <1>7, <1>9, Committing DEF UpsertDynamicRecord
<1>10. ASSUME NEW n \in Names, NEW t \in Types, DeleteDynamicRecord(n, t) PROVE DynInv'
  BY <1>7, <1>10, Committing DEF DeleteDynamicRecord
<1>11. ASSUME NEW n \in Names, NEW del \in SUBSET Types, NEW none \in ValueMap, NEW add \in ValueMap,
              ServeUpdate(n, del, none, add)
       PROVE  DynInv'
  BY <1>11, Committing DEF ServeUpdate
<1>12. ASSUME NEW n \in Names, Update(n) PROVE DynInv'
  <2>1. CASE \E v \in Texted : ServeUpdate(n, {"A"}, NoValues, OfType("CNAME", {v}))
    <3>1. "CNAME" \in Types
      BY DEF Types
    <3> QED
      BY <2>1, <3>1, <1>7, <1>11
  <2>2. CASE ServeUpdate(n, Types, NoValues, NoValues)
    BY <2>2, <1>7, <1>11
  <2>3. CASE \E t \in Types, v \in Values : ServeUpdate(n, {}, OfType(t, {v}), NoValues)
    BY <2>3, <1>7, <1>11
  <2>4. CASE \E v \in Texted, w \in Values :
                ServeUpdate(n, {}, NoValues, [OfType("A", {v}) EXCEPT !["TXT"] = {w}])
    BY <2>4, <1>7, <1>8, <1>11
  <2> QED
    BY <2>1, <2>2, <2>3, <2>4, <1>12 DEF Update
<1>13. CASE DNSRestart
  <2>1. dyn' = NoRecords /\ ~loaded' /\ UNCHANGED <<file, acked, doubtful, padded>>
    BY <1>13 DEF DNSRestart
  <2>2. NoRecords \in RecordMap /\ \A n \in Names, t \in Types : NoRecords[n][t] = {}
    BY DEF NoRecords, RecordMap
  <2> QED
    BY <2>1, <2>2 DEF DynInv, Agree, Odd
<1> QED
  BY <1>2, <1>3, <1>4, <1>5, <1>6, <1>9, <1>10, <1>12, <1>13 DEF DNSNext, SyncStep

(* What the API or a DNS UPDATE confirmed is in the file, and in memory     *)
(* once loaded, for any names and texts and any interleaving of syncs,      *)
(* operations, failed writes and restarts: every operation starts from      *)
(* loadDynamicRecordsLocked and writes the file before it answers.  What    *)
(* the load changes are the values with blanks around them or no text.      *)
THEOREM ConfirmedRecordsSurvive == DNSSpec => []AckedSurvives
<1>1. DNSInit => DynInv
  <2>1. NoRecords \in RecordMap /\ \A n \in Names, t \in Types : NoRecords[n][t] = {}
    BY DEF NoRecords, RecordMap
  <2> QED
    BY <2>1 DEF DNSInit, DNSBegins, DynInv, Agree, Odd
<1>2. DynInv /\ [DNSNext]_dnsVars => DynInv'
  BY DynSteps
<1>3. DynInv => AckedSurvives
  BY DynIsAcked
<1> QED
  BY <1>1, <1>2, <1>3, PTL DEF DNSSpec

(***************************************************************************)
(* A transfer of the TFTP server.                                          *)
(***************************************************************************)

LEMMA DivMod ==
    ASSUME NEW n \in Nat
    PROVE  \E a, r \in Int : r = n % Wrap /\ n = Wrap * a + r
<1>1. n \div Wrap \in Int /\ n % Wrap \in Int
  BY TFTPAssumption
<1>2. n = Wrap * (n \div Wrap) + (n % Wrap)
  BY TFTPAssumption
<1> QED
  BY <1>1, <1>2

(* Block numbers that differ by one or two are told apart modulo Wrap. *)
LEMMA ModDiffers ==
    ASSUME NEW n \in Nat, NEW m \in Nat, n < m, m <= n + 2
    PROVE  n % Wrap # m % Wrap
<1> SUFFICES ASSUME n % Wrap = m % Wrap PROVE FALSE
  OBVIOUS
<1>0. Wrap \in Nat /\ Wrap >= 3
  BY TFTPAssumption
<1>1. PICK a \in Int, r \in Int : r = n % Wrap /\ n = Wrap * a + r
  BY DivMod
<1>2. PICK b \in Int, q \in Int : q = m % Wrap /\ m = Wrap * b + q
  BY DivMod
<1>3. n = Wrap * a + r /\ m = Wrap * b + r
  BY <1>1, <1>2
<1>4. m - n = Wrap * (b - a)
  BY <1>3, <1>0
<1>5. b - a >= 1
  <2>1. ASSUME b - a <= 0 PROVE FALSE
    BY <2>1, <1>4, <1>0
  <2> QED
    BY <2>1
<1>6. PICK d \in Nat : d = b - a - 1
  BY <1>5
<1>7. Wrap * (b - a) = Wrap * d + Wrap /\ Wrap * d >= 0
  BY <1>6, <1>0
<1> QED
  BY <1>4, <1>7, <1>0

LEMMA ModZero == 0 % Wrap = 0
BY TFTPAssumption

(* A queue that holds copies of x and, after them, copies of y. *)
Runs(s, x, y) ==
    /\ \A k \in 1..Len(s) : s[k] = x \/ s[k] = y
    /\ \A k, l \in 1..Len(s) : k < l /\ s[k] = y => s[l] = y
Only(s, y) == \A k \in 1..Len(s) : s[k] = y
Without(s, y) == \A k \in 1..Len(s) : s[k] # y

LEMMA TailRuns ==
    ASSUME NEW S, NEW s \in Seq(S), s # <<>>, NEW x, NEW y, Runs(s, x, y)
    PROVE  /\ Tail(s) \in Seq(S) /\ Runs(Tail(s), x, y)
           /\ Head(s) = x \/ Head(s) = y
           /\ Head(s) = y => Only(s, y) /\ Only(Tail(s), y)
           /\ Only(s, y) => Head(s) = y /\ Only(Tail(s), y)
           /\ Without(s, y) => Head(s) # y /\ Without(Tail(s), y)
<1>1. /\ Tail(s) \in Seq(S) /\ Len(s) \in Nat /\ Len(s) >= 1 /\ Len(Tail(s)) = Len(s) - 1
      /\ Head(s) = s[1]
  OBVIOUS
<1>2. \A k \in 1..Len(Tail(s)) : Tail(s)[k] = s[k + 1] /\ k + 1 \in 1..Len(s)
  BY <1>1
<1>3. 1 \in 1..Len(s) /\ \A k \in 1..Len(s) : k # 1 => 1 < k
  BY <1>1
<1>4. Runs(Tail(s), x, y)
  BY <1>1, <1>2 DEF Runs
<1>5. Head(s) = y => Only(s, y)
  BY <1>1, <1>3 DEF Runs, Only
<1>6. Only(s, y) => Head(s) = y /\ Only(Tail(s), y)
  BY <1>1, <1>2, <1>3 DEF Only
<1>7. Without(s, y) => Head(s) # y /\ Without(Tail(s), y)
  BY <1>1, <1>2, <1>3 DEF Without
<1>8. Head(s) = x \/ Head(s) = y
  BY <1>1, <1>3 DEF Runs
<1> QED
  BY <1>1, <1>4, <1>5, <1>6, <1>7, <1>8

LEMMA SendSeq ==
    ASSUME NEW S, NEW s \in Seq(S), NEW v \in S
    PROVE  /\ Send(s, v) \in Seq(S)
           /\ \/ Send(s, v) = s
              \/ /\ Len(Send(s, v)) = Len(s) + 1 /\ Len(s) \in Nat
                 /\ \A k \in 1..Len(s) : Send(s, v)[k] = s[k]
                 /\ Send(s, v)[Len(s) + 1] = v
<1>1. CASE Len(s) < MaxPackets
  <2>1. Send(s, v) = Append(s, v)
    BY <1>1 DEF Send
  <2> QED
    BY <2>1
<1>2. CASE ~(Len(s) < MaxPackets)
  BY <1>2 DEF Send
<1> QED
  BY <1>1, <1>2

LEMMA SendRuns ==
    ASSUME NEW S, NEW s \in Seq(S), NEW x, NEW y, Runs(s, x, y), y \in S
    PROVE  /\ Send(s, y) \in Seq(S) /\ Runs(Send(s, y), x, y)
           /\ Only(s, y) => Only(Send(s, y), y)
<1> DEFINE t == Send(s, y)
<1>1. /\ t \in Seq(S)
      /\ \/ t = s
         \/ /\ Len(t) = Len(s) + 1 /\ Len(s) \in Nat
            /\ \A k \in 1..Len(s) : t[k] = s[k]
            /\ t[Len(s) + 1] = y
  BY SendSeq
<1> HIDE DEF t
<1>2. CASE t = s
  BY <1>1, <1>2 DEF t
<1>3. CASE t # s
  <2>1. \A k \in 1..Len(t) : k = Len(s) + 1 \/ k \in 1..Len(s)
    BY <1>1, <1>3
  <2>2. \A k, l \in 1..Len(t) : k < l => k \in 1..Len(s)
    BY <1>1, <1>3
  <2>3. Runs(t, x, y)
    BY <1>1, <1>3, <2>1, <2>2 DEF Runs
  <2>4. Only(s, y) => Only(t, y)
    BY <1>1, <1>3, <2>1 DEF Only
  <2> QED
    BY <1>1, <2>3, <2>4 DEF t
<1> QED
  BY <1>2, <1>3

LEMMA SendOld ==
    ASSUME NEW S, NEW s \in Seq(S), NEW x, NEW y, x # y, Runs(s, x, y), Without(s, y), x \in S
    PROVE  Send(s, x) \in Seq(S) /\ Runs(Send(s, x), x, y) /\ Without(Send(s, x), y)
<1> DEFINE t == Send(s, x)
<1>1. /\ t \in Seq(S)
      /\ \/ t = s
         \/ /\ Len(t) = Len(s) + 1 /\ Len(s) \in Nat
            /\ \A k \in 1..Len(s) : t[k] = s[k]
            /\ t[Len(s) + 1] = x
  BY SendSeq
<1> HIDE DEF t
<1>2. CASE t = s
  BY <1>1, <1>2 DEF t
<1>3. CASE t # s
  <2>1. \A k \in 1..Len(t) : k = Len(s) + 1 \/ k \in 1..Len(s)
    BY <1>1, <1>3
  <2>2. Without(t, y)
    BY <1>1, <1>3, <2>1 DEF Without
  <2>3. \A k \in 1..Len(t) : t[k] = x \/ t[k] = y
    BY <1>1, <1>3, <2>1 DEF Runs
  <2>4. Runs(t, x, y)
    BY <2>2, <2>3 DEF Runs, Without
  <2> QED
    BY <1>1, <2>2, <2>4 DEF t
<1> QED
  BY <1>2, <1>3

LEMMA DuplicateRuns ==
    ASSUME NEW S, NEW s \in Seq(S), s # <<>>, NEW x, NEW y, Runs(s, x, y)
    PROVE  LET t == <<Head(s)>> \o s
           IN  /\ t \in Seq(S) /\ Runs(t, x, y)
               /\ Only(s, y) => Only(t, y)
               /\ Without(s, y) => Without(t, y)
<1> DEFINE t == <<Head(s)>> \o s
<1>1. Len(s) \in Nat /\ Len(s) >= 1 /\ Head(s) = s[1] /\ Head(s) \in S
  OBVIOUS
<1>2. /\ t \in Seq(S) /\ Len(t) = Len(s) + 1 /\ t[1] = s[1]
      /\ \A k \in 1..Len(t) : k # 1 => t[k] = s[k - 1] /\ k - 1 \in 1..Len(s)
  BY <1>1
<1> HIDE DEF t
<1>3. 1 \in 1..Len(s)
  BY <1>1
<1>4. \A k \in 1..Len(t) : \E m \in 1..Len(s) : t[k] = s[m]
  BY <1>2, <1>3
<1>5. (Only(s, y) => Only(t, y)) /\ (Without(s, y) => Without(t, y))
  BY <1>4 DEF Only, Without
<1>6. \A k \in 1..Len(t) : t[k] = x \/ t[k] = y
  BY <1>4 DEF Runs
<1>7. ASSUME NEW k \in 1..Len(t), NEW l \in 1..Len(t), k < l, t[k] = y PROVE t[l] = y
  <2>1. l # 1 /\ t[l] = s[l - 1] /\ l - 1 \in 1..Len(s)
    BY <1>1, <1>2, <1>7
  <2>2. CASE k = 1
    <3>1. s[1] = y
      BY <2>2, <1>2, <1>7
    <3>2. l - 1 = 1 \/ 1 < l - 1
      BY <2>1
    <3> QED
      BY <3>1, <3>2, <2>1, <1>3 DEF Runs
  <2>3. CASE k # 1
    <3>1. t[k] = s[k - 1] /\ k - 1 \in 1..Len(s) /\ k - 1 < l - 1
      BY <2>3, <1>2, <1>7
    <3> QED
      BY <3>1, <2>1, <1>7 DEF Runs
  <2> QED
    BY <2>2, <2>3
<1>8. Runs(t, x, y)
  BY <1>6, <1>7 DEF Runs
<1> QED
  BY <1>2, <1>5, <1>8 DEF t

(* The next round: what was new is old, and nothing is newer. *)
LEMMA NextRuns ==
    ASSUME NEW s, NEW x, NEW y, x # y, Only(s, x)
    PROVE  Runs(s, x, y) /\ Without(s, y)
BY DEF Only, Runs, Without

-----------------------------------------------------------------------------
File == [ver : Nat, size : Nat, partial : {FALSE}]
ChunkSet == [ver : Nat, i : Nat, short : BOOLEAN]
PacketSet == [op : {"data", "oack"}, block : Nat, chunk : SUBSET ChunkSet]
Xfer == [pc : {"idle", "oack", "data", "done", "failed"}, file : Nat, block : Nat,
         chunk : SUBSET ChunkSet, retry : Nat]
Client == [asset : Asset, options : SUBSET Options, acked : Nat, got : Seq(ChunkSet), done : BOOLEAN]

(* The files of a GRUB asset are complete, and never change. *)
FilesOK ==
    /\ inode \in Seq(File) /\ entry \in 1..Len(inode)
    /\ xfer \in Xfer /\ xfer.file \in 1..Len(inode)
QueuesOK == client \in Client /\ down \in Seq(PacketSet) /\ up \in Seq(Nat)

(* What block b of the file f is sent as; block 0 stands for the options. *)
PacketOf(f, b) == IF b = 0 THEN OACK ELSE DataPacket(b, Chunk(f, b))
Before(b) == IF b = 0 THEN 0 ELSE b - 1

(* The client holds the blocks of f up to the one it acknowledged last,     *)
(* which is the block b the server is at or the one before.                 *)
Holds(f, b) ==
    /\ client.acked = b \/ client.acked = Before(b)
    /\ Len(client.got) = client.acked
    /\ \A k \in 1..client.acked : client.got[k] = Chunk(f, k)
    /\ client.done <=> client.acked > f.size
(* Packets and acknowledgements in flight are of these two, in order: none  *)
(* of the older block behind the newer one, none of the older block once    *)
(* the client is past it, and no acknowledgement of what it has not got.    *)
InFlight(f, b) ==
    /\ Runs(down, PacketOf(f, Before(b)), PacketOf(f, b))
    /\ Runs(up, Before(b) % Wrap, b % Wrap)
    /\ client.acked = b => Only(down, PacketOf(f, b))
    /\ client.acked # b => Without(up, b % Wrap)

Transfer(f, b) == b <= f.size + 1 /\ Holds(f, b) /\ InFlight(f, b)
Untouched == down = <<>> /\ up = <<>> /\ client.acked = 0 /\ client.got = <<>> /\ ~client.done
                /\ xfer.block = 0

GrubInv ==
    /\ FilesOK
    /\ xfer.pc # "failed" => QueuesOK
    /\ xfer.pc = "idle" => Untouched
    /\ xfer.pc \in {"oack", "data", "done"} => Transfer(inode[xfer.file], xfer.block)
    /\ xfer.pc = "oack" => xfer.block = 0
    /\ xfer.pc \in {"data", "done"} => xfer.block > 0
    /\ xfer.pc = "data" => xfer.chunk = {Chunk(inode[xfer.file], xfer.block)}
    /\ xfer.pc = "done" => client.acked = xfer.block /\ xfer.block > inode[xfer.file].size
TransferInv ==
    /\ DOMAIN client = {"asset", "options", "acked", "got", "done"}
    /\ client.asset = "grub" => GrubInv

LEMMA ChunkShort ==
    ASSUME NEW f, NEW b
    PROVE  Chunk(f, b).short \in BOOLEAN /\ (Chunk(f, b).short <=> b > f.size)
<1> DEFINE v == b > f.size
<1>1. v \in BOOLEAN
  OBVIOUS
<1>2. Chunk(f, b) = [ver |-> f.ver, i |-> b, short |-> v]
  BY DEF Chunk
<1> HIDE DEF v
<1>3. Chunk(f, b).short = v
  BY <1>2
<1> QED
  BY <1>1, <1>3 DEF v

LEMMA PacketFacts ==
    ASSUME NEW f \in File, NEW b \in Nat
    PROVE  /\ PacketOf(f, b) \in PacketSet /\ Chunk(f, b) \in ChunkSet
           /\ PacketOf(f, b).block = b % Wrap
           /\ b % Wrap \in Nat
           /\ b = 0 => PacketOf(f, b) = OACK /\ PacketOf(f, b).op = "oack"
           /\ b # 0 => PacketOf(f, b).op = "data" /\ PacketOf(f, b).chunk = {Chunk(f, b)}
           /\ Before(b) \in Nat
<1>1. b % Wrap \in Nat
  BY TFTPAssumption
<1>2. Chunk(f, b) \in ChunkSet
  BY DEF Chunk, ChunkSet, File
<1>3. Before(b) \in Nat
  BY DEF Before
<1>4. CASE b = 0
  BY <1>1, <1>2, <1>3, <1>4, ModZero DEF PacketOf, OACK, PacketSet
<1>5. CASE b # 0
  BY <1>1, <1>2, <1>3, <1>5 DEF PacketOf, DataPacket, PacketSet
<1> QED
  BY <1>4, <1>5

LEMMA PacketsDiffer ==
    ASSUME NEW f \in File, NEW b \in Nat
    PROVE  /\ PacketOf(f, b) # PacketOf(f, b + 1)
           /\ b % Wrap # (b + 1) % Wrap
<1>1. b % Wrap # (b + 1) % Wrap
  BY ModDiffers
<1>2. PacketOf(f, b).block # PacketOf(f, b + 1).block
  BY <1>1, PacketFacts
<1> QED
  BY <1>1, <1>2

(* A queue may lose its head, or have it delivered twice, and the server    *)
(* may send the block it is at again.                                       *)
LEMMA QueuesMove ==
    ASSUME NEW f \in File, NEW b \in Nat, Transfer(f, b),
           down \in Seq(PacketSet), up \in Seq(Nat), client' = client,
           \/ down' = down \/ down' = Send(down, PacketOf(f, b))
           \/ down # <<>> /\ (down' = Tail(down) \/ down' = <<Head(down)>> \o down),
           \/ up' = up
           \/ up # <<>> /\ (up' = Tail(up) \/ up' = <<Head(up)>> \o up)
    PROVE  Transfer(f, b)' /\ down' \in Seq(PacketSet) /\ up' \in Seq(Nat)
<1> DEFINE x == PacketOf(f, Before(b))
           y == PacketOf(f, b)
           m == Before(b) % Wrap
           n == b % Wrap
<1>1. y \in PacketSet /\ n \in Nat
  BY PacketFacts
<1>2. Runs(down, x, y) /\ Runs(up, m, n)
  BY DEF Transfer, InFlight
<1> HIDE DEF x, y, m, n
<1>3. down' \in Seq(PacketSet) /\ Runs(down', x, y) /\ (Only(down, y) => Only(down', y))
  <2>1. CASE down' = down
    BY <2>1, <1>2
  <2>2. CASE down' = Send(down, y)
    BY <2>2, <1>1, <1>2, SendRuns
  <2>3. CASE down # <<>> /\ down' = Tail(down)
    BY <2>3, <1>2, TailRuns
  <2>4. CASE down # <<>> /\ down' = <<Head(down)>> \o down
    BY <2>4, <1>2, DuplicateRuns
  <2> QED
    BY <2>1, <2>2, <2>3, <2>4 DEF y
<1>4. up' \in Seq(Nat) /\ Runs(up', m, n) /\ (Without(up, n) => Without(up', n))
  <2>1. CASE up' = up
    BY <2>1, <1>2
  <2>2. CASE up # <<>> /\ up' = Tail(up)
    BY <2>2, <1>2, TailRuns
  <2>3. CASE up # <<>> /\ up' = <<Head(up)>> \o up
    BY <2>3, <1>2, DuplicateRuns
  <2> QED
    BY <2>1, <2>2, <2>3
<1>5. Holds(f, b)'
  BY DEF Transfer, Holds
<1>6. InFlight(f, b)'
  BY <1>3, <1>4 DEF Transfer, InFlight, x, y, m, n
<1> QED
  BY <1>3, <1>4, <1>5, <1>6 DEF Transfer

(* The awaited acknowledgement says that the client has block b; with it    *)
(* gone, everything in flight is of block b.                                *)
LEMMA AckIsTrue ==
    ASSUME NEW f \in File, NEW b \in Nat, Transfer(f, b), up \in Seq(Nat), up # <<>>,
           Head(up) = b % Wrap
    PROVE  client.acked = b /\ Only(Tail(up), b % Wrap) /\ Tail(up) \in Seq(Nat)
<1>1. Runs(up, Before(b) % Wrap, b % Wrap) /\ (client.acked # b => Without(up, b % Wrap))
  BY DEF Transfer, InFlight
<1> QED
  BY <1>1, TailRuns

LEMMA ServerAdvances ==
    ASSUME NEW f \in File, NEW b \in Nat, Transfer(f, b), b <= f.size,
           down \in Seq(PacketSet), up \in Seq(Nat), up # <<>>, Head(up) = b % Wrap,
           client' = client, up' = Tail(up), down' = Send(down, PacketOf(f, b + 1))
    PROVE  Transfer(f, b + 1)' /\ down' \in Seq(PacketSet) /\ up' \in Seq(Nat)
<1> DEFINE x == PacketOf(f, b)
           y == PacketOf(f, b + 1)
           m == b % Wrap
           n == (b + 1) % Wrap
<1>1. client.acked = b /\ Only(Tail(up), m) /\ Tail(up) \in Seq(Nat)
  BY AckIsTrue
<1>2. x # y /\ m # n /\ y \in PacketSet /\ f.size \in Nat
  <2>1. x # y /\ m # n
    BY PacketsDiffer
  <2>2. b + 1 \in Nat
    OBVIOUS
  <2>3. y \in PacketSet
    BY <2>2, PacketFacts
  <2>4. f.size \in Nat
    BY DEF File
  <2> QED
    BY <2>1, <2>3, <2>4
<1>3. Only(down, x)
  BY <1>1 DEF Transfer, InFlight
<1> HIDE DEF x, y, m, n
<1>4. Runs(down, x, y) /\ Runs(up', m, n) /\ Without(up', n)
  BY <1>1, <1>2, <1>3, NextRuns
<1>5. Runs(down', x, y) /\ down' \in Seq(PacketSet)
  BY <1>2, <1>4, SendRuns DEF y
<1>6. Before(b + 1) = b /\ b # b + 1 /\ b + 1 <= f.size + 1
  BY <1>2 DEF Before
<1>7. Holds(f, b + 1)'
  BY <1>1, <1>6 DEF Transfer, Holds
<1>8. InFlight(f, b + 1)'
  BY <1>1, <1>4, <1>5, <1>6 DEF InFlight, x, y, m, n
<1> QED
  BY <1>1, <1>5, <1>6, <1>7, <1>8 DEF Transfer

(* The client takes the block it waits for, or repeats an acknowledgement. *)
LEMMA ClientSteps ==
    ASSUME NEW f \in File, NEW b \in Nat, Transfer(f, b),
           client \in Client, down \in Seq(PacketSet), up \in Seq(Nat), ClientReceives
    PROVE  /\ Transfer(f, b)' /\ client' \in Client /\ client'.asset = client.asset
           /\ down' \in Seq(PacketSet) /\ up' \in Seq(Nat)
           /\ client.acked = b => client'.acked = b
<1> DEFINE a == Before(b)
           pkt == Head(down)
<1>1. /\ Runs(down, PacketOf(f, a), PacketOf(f, b)) /\ Runs(up, a % Wrap, b % Wrap)
      /\ client.acked = b => Only(down, PacketOf(f, b))
      /\ client.acked # b => Without(up, b % Wrap)
      /\ client.acked = b \/ client.acked = a
      /\ Holds(f, b) /\ b <= f.size + 1
  BY DEF Transfer, InFlight, Holds
<1>2. down # <<>> /\ down' = Tail(down)
  BY DEF ClientReceives
<1>3. /\ down' \in Seq(PacketSet) /\ Runs(down', PacketOf(f, a), PacketOf(f, b))
      /\ pkt = PacketOf(f, a) \/ pkt = PacketOf(f, b)
      /\ pkt = PacketOf(f, b) => Only(down', PacketOf(f, b))
      /\ client.acked = b => pkt = PacketOf(f, b)
  BY <1>1, <1>2, TailRuns
<1>4. /\ a \in Nat /\ a % Wrap \in Nat /\ b % Wrap \in Nat
      /\ b # 0 => b = a + 1 /\ a % Wrap # b % Wrap
  <2>1. a \in Nat
    BY PacketFacts
  <2>2. b # 0 => b = a + 1
    BY DEF Before
  <2> HIDE DEF a
  <2> QED
    BY <2>1, <2>2, PacketFacts, PacketsDiffer
<1>5. b = 0 => a = 0 /\ client.acked = 0
  BY <1>1 DEF Before
<1> HIDE DEF a
(* An acknowledgement of what the client acknowledged last. *)
<1>6. ASSUME client' = client, up' = up \/ up' = Send(up, client.acked % Wrap)
      PROVE  Transfer(f, b)' /\ up' \in Seq(Nat)
  <2>1. /\ up' \in Seq(Nat) /\ Runs(up', a % Wrap, b % Wrap)
        /\ client.acked # b => Without(up', b % Wrap)
    <3>1. CASE up' = up
      BY <3>1, <1>1
    <3>2. CASE up' = Send(up, client.acked % Wrap) /\ client.acked = b
      BY <3>2, <1>1, <1>4, SendRuns
    <3>3. CASE up' = Send(up, client.acked % Wrap) /\ client.acked # b
      <4>1. client.acked = a /\ b # 0 /\ Without(up, b % Wrap)
        BY <3>3, <1>1, <1>5
      <4> QED
        BY <4>1, <3>3, <1>1, <1>4, SendOld
    <3> QED
      BY <3>1, <3>2, <3>3, <1>6
  <2>2. Holds(f, b)'
    BY <1>6, <1>1 DEF Holds
  <2>3. client'.acked = b => Only(down', PacketOf(f, b))
    BY <1>6, <1>3
  <2>4. InFlight(f, b)'
    BY <2>1, <2>3, <1>3, <1>6 DEF InFlight, a
  <2> QED
    BY <2>1, <2>2, <2>4, <1>1 DEF Transfer
<1>7. CASE pkt.op = "oack" /\ up' = Send(up, 0) /\ UNCHANGED client
  <2>1. client.acked = 0
    <3>1. CASE client.acked = b
      <4>1. PacketOf(f, b).op = "oack"
        BY <3>1, <1>3, <1>7
      <4> QED
        BY <4>1, <3>1, PacketFacts
    <3>2. CASE client.acked # b
      <4>1. b # 0 /\ client.acked = a
        BY <3>2, <1>1, <1>5
      <4>2. PacketOf(f, b).op = "data"
        BY <4>1, PacketFacts
      <4>3. PacketOf(f, a).op = "oack"
        BY <4>2, <1>3, <1>7
      <4>4. a = 0
        BY <4>3, <1>4, PacketFacts
      <4> QED
        BY <4>1, <4>4
    <3> QED
      BY <3>1, <3>2
  <2>2. up' = Send(up, client.acked % Wrap)
    BY <2>1, <1>7, ModZero
  <2> QED
    BY <2>2, <1>3, <1>6, <1>7
<1>8. CASE /\ pkt.op = "data" /\ UNCHANGED client
           /\ up' = IF pkt.block = client.acked % Wrap THEN Send(up, pkt.block) ELSE up
  <2>1. up' = up \/ up' = Send(up, client.acked % Wrap)
    BY <1>8
  <2> QED
    BY <2>1, <1>3, <1>6, <1>8
<1>9. CASE /\ pkt.op = "data" /\ pkt.block = (client.acked + 1) % Wrap /\ ~client.done
           /\ LET c == CHOOSE c \in pkt.chunk : TRUE
              IN client' = [client EXCEPT !.acked = client.acked + 1,
                                          !.got = Append(@, c), !.done = c.short]
           /\ up' = Send(up, pkt.block)
  <2>1. client.acked \in Nat
    BY DEF Client
  <2>2. client.acked # b
    <3>1. SUFFICES ASSUME client.acked = b PROVE FALSE
      OBVIOUS
    <3>2. pkt.block = b % Wrap /\ pkt.block = (b + 1) % Wrap
      BY <3>1, <1>3, <1>9, PacketFacts
    <3> QED
      BY <3>2, PacketsDiffer
  <2>3. client.acked = a /\ b # 0 /\ b = a + 1 /\ a % Wrap # b % Wrap
    BY <2>2, <1>1, <1>4, <1>5
  <2>4. pkt = PacketOf(f, b)
    <3>1. pkt.block = b % Wrap
      BY <2>3, <1>9
    <3>2. PacketOf(f, a).block = a % Wrap
      BY <1>4, PacketFacts
    <3> QED
      BY <3>1, <3>2, <2>3, <1>3
  <2>5. pkt.block = b % Wrap /\ pkt.chunk = {Chunk(f, b)} /\ Chunk(f, b) \in ChunkSet
    <3>1. /\ PacketOf(f, b).block = b % Wrap /\ PacketOf(f, b).chunk = {Chunk(f, b)}
          /\ Chunk(f, b) \in ChunkSet
      BY <2>3, PacketFacts
    <3> HIDE DEF pkt
    <3> QED
      BY <3>1, <2>4
  <2> DEFINE g == Append(client.got, Chunk(f, b))
             h == Chunk(f, b).short
  <2>6. client' = [client EXCEPT !.acked = b, !.got = g, !.done = h] /\ up' = Send(up, b % Wrap)
    BY <2>3, <2>5, <1>9
  <2>7. /\ client.got \in Seq(ChunkSet) /\ Len(client.got) = a
        /\ \A k \in 1..a : client.got[k] = Chunk(f, k)
    BY <2>3, <1>1 DEF Holds, Client
  <2>8. /\ g \in Seq(ChunkSet) /\ Len(g) = b
        /\ \A k \in 1..b : g[k] = Chunk(f, k)
    <3>1. g \in Seq(ChunkSet) /\ Len(g) = a + 1 /\ g[a + 1] = Chunk(f, b)
      BY <2>5, <2>7
    <3>2. \A k \in 1..a : g[k] = client.got[k]
      BY <2>5, <2>7
    <3>3. \A k \in 1..b : k = b \/ k \in 1..a
      BY <2>3, <1>4
    <3> QED
      BY <3>1, <3>2, <3>3, <2>3, <2>7
  <2>9. h \in BOOLEAN /\ (h <=> b > f.size)
    BY ChunkShort
  <2> HIDE DEF g, h
  <2>10. /\ client' \in Client /\ client'.asset = client.asset /\ client'.acked = b
         /\ client'.got = g /\ client'.done = h
    BY <2>6, <2>8, <2>9 DEF Client
  <2>11. Holds(f, b)'
    BY <2>8, <2>9, <2>10 DEF Holds
  <2>12. up' \in Seq(Nat) /\ Runs(up', a % Wrap, b % Wrap)
    BY <2>6, <1>1, <1>4, SendRuns
  <2>13. InFlight(f, b)'
    BY <2>4, <2>10, <2>12, <1>3 DEF InFlight, a
  <2> QED
    BY <2>2, <2>10, <2>11, <2>12, <2>13, <1>1, <1>3 DEF Transfer
<1> QED
  BY <1>7, <1>8, <1>9 DEF ClientReceives

(* The file of the transfer, and the block it is at. *)
LEMMA GrubFile ==
    ASSUME GrubInv
    PROVE  inode[xfer.file] \in File /\ inode[entry] \in File /\ xfer.block \in Nat /\ xfer \in Xfer
BY DEF GrubInv, FilesOK, Xfer

(* A step that leaves the server and the files alone. *)
LEMMA GrubOutside ==
    ASSUME GrubInv, UNCHANGED <<inode, entry, xfer>>,
           xfer.pc \notin {"failed", "idle"} =>
               /\ QueuesOK'
               /\ \A f \in File, b \in Nat : Transfer(f, b) => Transfer(f, b)'
               /\ client.acked = xfer.block => client'.acked = xfer.block,
           xfer.pc # "idle"
    PROVE  GrubInv'
<1>1. FilesOK'
  BY DEF GrubInv, FilesOK
<1>2. CASE xfer.pc = "failed"
  BY <1>1, <1>2 DEF GrubInv
<1>3. CASE xfer.pc # "failed"
  <2>1. inode[xfer.file] \in File /\ xfer.block \in Nat
    BY GrubFile
  <2>2. xfer.pc \in {"oack", "data", "done"}
    BY <1>3 DEF GrubInv, FilesOK, Xfer
  <2>3. Transfer(inode[xfer.file], xfer.block)
    BY <2>2 DEF GrubInv
  <2>4. PICK f \in File, b \in Nat : f = inode[xfer.file] /\ b = xfer.block
    BY <2>1
  <2>5. Transfer(f, b)'
    BY <2>2, <2>3, <2>4
  <2>6. Transfer(inode[xfer.file], xfer.block)'
    BY <2>4, <2>5
  <2> QED
    BY <1>1, <1>3, <2>2, <2>6 DEF GrubInv
<1> QED
  BY <1>2, <1>3

LEMMA GrubNetwork ==
    ASSUME GrubInv, Lose \/ Duplicate
    PROVE  GrubInv'
<1>1. UNCHANGED <<inode, entry, xfer, client>>
  BY DEF Lose, Duplicate
<1>2. xfer.pc # "idle"
  BY DEF GrubInv, Untouched, Lose, Duplicate
<1>3. ASSUME xfer.pc # "failed", NEW f \in File, NEW b \in Nat, Transfer(f, b)
      PROVE  Transfer(f, b)' /\ down' \in Seq(PacketSet) /\ up' \in Seq(Nat)
  <2>1. down \in Seq(PacketSet) /\ up \in Seq(Nat)
    BY <1>3 DEF GrubInv, QueuesOK
  <2> QED
    BY <2>1, <1>1, <1>3, QueuesMove DEF Lose, Duplicate
<1>4. xfer.pc # "failed" => QueuesOK'
  <2>1. xfer.pc # "failed" => Transfer(inode[xfer.file], xfer.block)
    BY <1>2 DEF GrubInv, FilesOK, Xfer
  <2> QED
    BY <2>1, <1>1, <1>3, GrubFile DEF GrubInv, QueuesOK
<1> QED
  BY <1>1, <1>2, <1>3, <1>4, GrubOutside

LEMMA GrubClient ==
    ASSUME GrubInv, ClientReceives
    PROVE  GrubInv'
<1>1. UNCHANGED <<inode, entry, xfer>>
  BY DEF ClientReceives
<1>2. xfer.pc # "idle"
  BY DEF GrubInv, Untouched, ClientReceives
<1>3. ASSUME xfer.pc # "failed", NEW f \in File, NEW b \in Nat, Transfer(f, b)
      PROVE  /\ Transfer(f, b)' /\ client' \in Client
             /\ down' \in Seq(PacketSet) /\ up' \in Seq(Nat)
             /\ client.acked = b => client'.acked = b
  <2>1. client \in Client /\ down \in Seq(PacketSet) /\ up \in Seq(Nat)
    BY <1>3 DEF GrubInv, QueuesOK
  <2> QED
    BY <2>1, <1>3, ClientSteps
<1>4. xfer.pc # "failed" => QueuesOK' /\ (client.acked = xfer.block => client'.acked = xfer.block)
  <2>1. xfer.pc # "failed" => Transfer(inode[xfer.file], xfer.block)
    BY <1>2 DEF GrubInv, FilesOK, Xfer
  <2> QED
    BY <2>1, <1>3, GrubFile DEF QueuesOK
<1> QED
  BY <1>1, <1>2, <1>3, <1>4, GrubOutside

(* The asset is replaced: a file is added, the open one stays as it is. *)
LEMMA GrubInstalls ==
    ASSUME GrubInv, NEW n \in Sizes, InstallGRUB(n)
    PROVE  GrubInv'
<1> DEFINE new == [ver |-> Len(inode) + 1, size |-> n, partial |-> FALSE]
<1>1. inode' = Append(inode, new) /\ entry' = Len(inode') /\ UNCHANGED <<xfer, down, up, client>>
  BY DEF InstallGRUB
<1>2. inode \in Seq(File) /\ xfer.file \in 1..Len(inode) /\ xfer \in Xfer /\ Len(inode) \in Nat
  BY DEF GrubInv, FilesOK
<1>3. new \in File
  BY <1>2, TFTPAssumption DEF File
<1> HIDE DEF new
<1>4. /\ inode' \in Seq(File) /\ Len(inode') = Len(inode) + 1
      /\ inode'[xfer.file] = inode[xfer.file]
  BY <1>1, <1>2, <1>3
<1>5. FilesOK'
  BY <1>1, <1>2, <1>4 DEF FilesOK
<1>6. xfer.pc \in {"oack", "data", "done"} => Transfer(inode[xfer.file], xfer.block)'
  BY <1>1, <1>4 DEF GrubInv, Transfer, Holds, InFlight
<1>7. (xfer.pc # "failed" => QueuesOK') /\ (xfer.pc = "idle" => Untouched')
  BY <1>1 DEF GrubInv, QueuesOK, Untouched
<1> QED
  BY <1>1, <1>4, <1>5, <1>6, <1>7 DEF GrubInv

LEMMA GrubServes ==
    ASSUME GrubInv, ServeRRQ
    PROVE  GrubInv'
<1>1. /\ xfer.pc = "idle" /\ Untouched /\ QueuesOK /\ FilesOK /\ xfer \in Xfer /\ xfer.block = 0
      /\ UNCHANGED <<inode, entry, up, client>>
  BY DEF GrubInv, ServeRRQ, FilesOK, Untouched
<1>2. PICK f \in File : f = inode[entry]
  BY GrubFile
<1>3. /\ Runs(<<>>, OACK, OACK) /\ Only(<<>>, OACK)
      /\ Runs(<<>>, PacketOf(f, 0), PacketOf(f, 1)) /\ <<>> \in Seq(PacketSet)
  BY DEF Runs, Only
<1>4. /\ PacketOf(f, 0) = OACK /\ OACK \in PacketSet
      /\ PacketOf(f, 1) = DataPacket(1, Chunk(f, 1)) /\ PacketOf(f, 1) \in PacketSet
      /\ Chunk(f, 1) \in ChunkSet /\ f.size \in Nat
  <2>1. PacketOf(f, 1) = DataPacket(1, Chunk(f, 1))
    BY DEF PacketOf
  <2>2. PacketOf(f, 0) = OACK
    BY DEF PacketOf
  <2>3. PacketOf(f, 0) \in PacketSet /\ PacketOf(f, 1) \in PacketSet /\ Chunk(f, 1) \in ChunkSet
    BY PacketFacts
  <2> QED
    BY <2>1, <2>2, <2>3 DEF File
<1>5. Before(0) = 0 /\ Before(1) = 0
  BY DEF Before
<1>6. entry \in Nat /\ entry \in 1..Len(inode)
  BY <1>1 DEF FilesOK
<1>7. /\ client'.acked = 0 /\ client'.got = <<>> /\ ~client'.done /\ up' = <<>> /\ down = <<>>
      /\ Len(<<>>) = 0
  BY <1>1 DEF Untouched
<1>8. CASE Accepted(client.options) # {}
  <2>1. xfer' = [xfer EXCEPT !.pc = "oack", !.file = entry] /\ down' = Send(<<>>, OACK)
    BY <1>1, <1>8 DEF ServeRRQ, Untouched
  <2>2. /\ xfer' \in Xfer /\ xfer'.pc = "oack" /\ xfer'.file = entry /\ xfer'.block = 0
    BY <2>1, <1>1, <1>6 DEF Xfer
  <2>3. down' \in Seq(PacketSet) /\ Runs(down', OACK, OACK) /\ Only(down', OACK)
    BY <2>1, <1>3, <1>4, SendRuns
  <2>4. Transfer(f, 0)'
    <3>1. Holds(f, 0)'
      BY <1>4, <1>7 DEF Holds
    <3>2. InFlight(f, 0)'
      BY <2>3, <1>4, <1>5, <1>7 DEF InFlight, Runs
    <3> QED
      BY <3>1, <3>2, <1>4 DEF Transfer
  <2>5. Transfer(inode[xfer.file], xfer.block)'
    BY <2>2, <2>4, <1>1, <1>2
  <2>6. FilesOK' /\ QueuesOK'
    BY <2>2, <2>3, <1>1, <1>6 DEF FilesOK, QueuesOK
  <2> QED
    BY <2>2, <2>5, <2>6 DEF GrubInv
<1>9. CASE ~(Accepted(client.options) # {})
  <2>1. /\ xfer' = [xfer EXCEPT !.pc = "data", !.file = entry, !.block = 1, !.chunk = {Chunk(f, 1)}]
        /\ down' = Send(<<>>, PacketOf(f, 1))
    BY <1>1, <1>2, <1>4, <1>9 DEF ServeRRQ, Untouched
  <2>2. /\ xfer' \in Xfer /\ xfer'.pc = "data" /\ xfer'.file = entry /\ xfer'.block = 1
        /\ xfer'.chunk = {Chunk(f, 1)}
    <3> DEFINE c == {Chunk(f, 1)}
    <3>1. c \in SUBSET ChunkSet
      BY <1>4
    <3> HIDE DEF c
    <3>2. /\ xfer' \in Xfer /\ xfer'.pc = "data" /\ xfer'.file = entry /\ xfer'.block = 1
          /\ xfer'.chunk = c
      BY <3>1, <2>1, <1>1, <1>6 DEF Xfer, c
    <3> QED
      BY <3>2 DEF c
  <2>3. down' \in Seq(PacketSet) /\ Runs(down', PacketOf(f, 0), PacketOf(f, 1))
    BY <2>1, <1>3, <1>4, SendRuns
  <2>4. Transfer(f, 1)'
    <3>1. Holds(f, 1)'
      BY <1>4, <1>5, <1>7 DEF Holds
    <3>2. Runs(up', 0 % Wrap, 1 % Wrap) /\ Without(up', 1 % Wrap)
      BY <1>7 DEF Runs, Without
    <3>3. InFlight(f, 1)'
      BY <3>2, <2>3, <1>5, <1>7 DEF InFlight
    <3> QED
      BY <3>1, <3>3, <1>4 DEF Transfer
  <2>5. Transfer(inode[xfer.file], xfer.block)'
    BY <2>2, <2>4, <1>1, <1>2
  <2>6. FilesOK' /\ QueuesOK'
    BY <2>2, <2>3, <1>1, <1>6 DEF FilesOK, QueuesOK
  <2> QED
    BY <2>2, <2>5, <2>6, <1>1, <1>2 DEF GrubInv
<1> QED
  BY <1>8, <1>9

(* The server gives up: what happens to the client no longer matters. *)
LEMMA GrubFails ==
    ASSUME GrubInv, xfer' = [xfer EXCEPT !.pc = "failed"], UNCHANGED <<inode, entry>>
    PROVE  GrubInv'
<1>1. xfer \in Xfer /\ FilesOK
  BY DEF GrubInv, FilesOK
<1>2. xfer' \in Xfer /\ xfer'.pc = "failed" /\ xfer'.file = xfer.file
  BY <1>1 DEF Xfer
<1> QED
  BY <1>1, <1>2 DEF GrubInv, FilesOK

LEMMA GrubRetries ==
    ASSUME GrubInv, Waiting, Retry, UNCHANGED <<inode, entry, client>>,
           up' = up \/ (up # <<>> /\ up' = Tail(up))
    PROVE  GrubInv'
<1>1. CASE xfer' = [xfer EXCEPT !.pc = "failed"]
  BY <1>1, GrubFails
<1>2. CASE xfer' # [xfer EXCEPT !.pc = "failed"]
  <2>1. xfer' = [xfer EXCEPT !.retry = @ + 1] /\ down' = Send(down, Outstanding)
    BY <1>2 DEF Retry
  <2>2. PICK f \in File, b \in Nat : f = inode[xfer.file] /\ b = xfer.block
    BY GrubFile
  <2>3. /\ FilesOK /\ xfer \in Xfer /\ QueuesOK /\ Transfer(f, b) /\ xfer.pc \in {"oack", "data"}
        /\ xfer.pc = "oack" => b = 0
        /\ xfer.pc = "data" => b > 0 /\ xfer.chunk = {Chunk(f, b)}
    BY <2>2 DEF GrubInv, FilesOK, Waiting
  <2>4. Outstanding = PacketOf(f, b)
    <3>1. CASE xfer.pc = "oack"
      BY <3>1, <2>3 DEF Outstanding, PacketOf
    <3>2. CASE xfer.pc = "data"
      <4>1. (CHOOSE c \in xfer.chunk : TRUE) = Chunk(f, b)
        BY <3>2, <2>3
      <4> QED
        BY <4>1, <3>2, <2>2, <2>3 DEF Outstanding, PacketOf
    <3> QED
      BY <3>1, <3>2, <2>3
  <2>5. Transfer(f, b)' /\ down' \in Seq(PacketSet) /\ up' \in Seq(Nat)
    BY <2>1, <2>3, <2>4, QueuesMove DEF QueuesOK
  <2>6. /\ xfer' \in Xfer /\ xfer'.pc = xfer.pc /\ xfer'.file = xfer.file
        /\ xfer'.block = xfer.block /\ xfer'.chunk = xfer.chunk
    <3>1. xfer.retry + 1 \in Nat
      BY <2>3 DEF Xfer
    <3> QED
      BY <3>1, <2>1, <2>3 DEF Xfer
  <2>7. FilesOK' /\ QueuesOK'
    BY <2>3, <2>5, <2>6 DEF FilesOK, QueuesOK
  <2>8. Transfer(inode[xfer.file], xfer.block)'
    BY <2>2, <2>5, <2>6
  <2> QED
    BY <2>2, <2>3, <2>6, <2>7, <2>8 DEF GrubInv
<1> QED
  BY <1>1, <1>2

LEMMA GrubAcks ==
    ASSUME GrubInv, AckArrives
    PROVE  GrubInv'
<1>1. /\ Waiting /\ up # <<>> /\ up' = Tail(up) /\ UNCHANGED <<inode, entry, client>>
  BY DEF AckArrives
<1>2. PICK f \in File, b \in Nat : f = inode[xfer.file] /\ b = xfer.block
  BY GrubFile
<1>3. /\ FilesOK /\ xfer \in Xfer /\ QueuesOK /\ Transfer(f, b) /\ xfer.pc \in {"oack", "data"}
      /\ xfer.pc = "oack" => b = 0
      /\ xfer.pc = "data" => b > 0 /\ xfer.chunk = {Chunk(f, b)}
      /\ f.size \in Nat
  BY <1>1, <1>2 DEF GrubInv, FilesOK, Waiting, File
<1>4. CASE ~AckMatches(Head(up))
  BY <1>1, <1>4, GrubRetries DEF AckArrives
<1>5. CASE AckMatches(Head(up)) /\ xfer.pc = "data" /\ IsLast(inode[xfer.file], xfer.block)
  <2>1. xfer' = [xfer EXCEPT !.pc = "done"] /\ down' = down
    BY <1>5 DEF AckArrives
  <2>2. Head(up) = b % Wrap /\ b > f.size /\ b > 0
    BY <1>2, <1>3, <1>5 DEF AckMatches, IsLast
  <2>3. client.acked = b
    BY <2>2, <1>1, <1>3, AckIsTrue DEF QueuesOK
  <2>4. Transfer(f, b)' /\ down' \in Seq(PacketSet) /\ up' \in Seq(Nat)
    BY <2>1, <1>1, <1>3, QueuesMove DEF QueuesOK
  <2>5. /\ xfer' \in Xfer /\ xfer'.pc = "done" /\ xfer'.file = xfer.file /\ xfer'.block = b
    BY <2>1, <1>2, <1>3 DEF Xfer
  <2>6. FilesOK' /\ QueuesOK'
    BY <2>4, <2>5, <1>1, <1>3 DEF FilesOK, QueuesOK
  <2>7. Transfer(inode[xfer.file], xfer.block)'
    BY <2>4, <2>5, <1>1, <1>2
  <2> QED
    BY <2>2, <2>3, <2>5, <2>6, <2>7, <1>1, <1>2 DEF GrubInv
<1>6. CASE AckMatches(Head(up)) /\ ~(xfer.pc = "data" /\ IsLast(inode[xfer.file], xfer.block))
  <2>1. /\ xfer' = [xfer EXCEPT !.pc = "data", !.block = @ + 1, !.retry = 0,
                                !.chunk = {Chunk(f, b + 1)}]
        /\ down' = Send(down, DataPacket(b + 1, Chunk(f, b + 1)))
    BY <1>2, <1>6 DEF AckArrives
  <2>2. Head(up) = b % Wrap /\ b <= f.size /\ b + 1 \in Nat /\ b + 1 > 0
    BY <1>2, <1>3, <1>6 DEF AckMatches, IsLast
  <2>3. DataPacket(b + 1, Chunk(f, b + 1)) = PacketOf(f, b + 1) /\ Chunk(f, b + 1) \in ChunkSet
    BY <2>2, PacketFacts DEF PacketOf
  <2>4. Transfer(f, b + 1)' /\ down' \in Seq(PacketSet) /\ up' \in Seq(Nat)
    BY <2>1, <2>2, <2>3, <1>1, <1>3, ServerAdvances DEF QueuesOK
  <2>5. /\ xfer' \in Xfer /\ xfer'.pc = "data" /\ xfer'.file = xfer.file /\ xfer'.block = b + 1
        /\ xfer'.chunk = {Chunk(f, b + 1)}
    <3> DEFINE c == {Chunk(f, b + 1)}
    <3>1. c \in SUBSET ChunkSet /\ xfer.block + 1 = b + 1
      BY <2>3, <1>2
    <3>2. xfer' = [xfer EXCEPT !.pc = "data", !.block = b + 1, !.retry = 0, !.chunk = c]
      BY <2>1, <3>1
    <3> HIDE DEF c
    <3>3. /\ xfer' \in Xfer /\ xfer'.pc = "data" /\ xfer'.file = xfer.file /\ xfer'.block = b + 1
          /\ xfer'.chunk = c
      BY <3>1, <3>2, <2>2, <1>3 DEF Xfer
    <3> QED
      BY <3>3 DEF c
  <2>6. FilesOK' /\ QueuesOK'
    BY <2>4, <2>5, <1>1, <1>3 DEF FilesOK, QueuesOK
  <2>7. Transfer(inode[xfer.file], xfer.block)'
    BY <2>4, <2>5, <1>1, <1>2
  <2> QED
    BY <2>2, <2>5, <2>6, <2>7, <1>1, <1>2 DEF GrubInv
<1> QED
  BY <1>4, <1>5, <1>6

LEMMA TransferSteps ==
    ASSUME TransferInv, [TFTPNext]_tftpVars
    PROVE  TransferInv'
<1>1. DOMAIN client' = DOMAIN client /\ client'.asset = client.asset
  <2>1. CASE ClientReceives
    <3>1. \/ client' = client
          \/ \E x, g, d : client' = [client EXCEPT !.acked = x, !.got = g, !.done = d]
      BY <2>1 DEF ClientReceives
    <3> QED
      BY <3>1 DEF TransferInv
  <2>2. CASE client' = client
    BY <2>2
  <2> QED
    BY <2>1, <2>2 DEF TFTPNext, TFTPServerStep, ServeRRQ, AckArrives, AckTimeout, RefuseRRQ,
                      Lose, Duplicate, TruncateIPXE, InstallGRUB, FillIPXE, tftpVars
<1>2. SUFFICES ASSUME client.asset = "grub", GrubInv PROVE GrubInv'
  BY <1>1 DEF TransferInv
<1>3. CASE UNCHANGED tftpVars
  BY <1>2, <1>3 DEF tftpVars, GrubInv, FilesOK, QueuesOK, Untouched, Transfer, Holds, InFlight
<1>4. CASE ServeRRQ
  BY <1>2, <1>4, GrubServes
<1>5. CASE AckArrives
  BY <1>2, <1>5, GrubAcks
<1>6. CASE AckTimeout
  BY <1>2, <1>6, GrubRetries DEF AckTimeout
<1>7. CASE RefuseRRQ
  BY <1>2, <1>7, GrubFails DEF RefuseRRQ
<1>8. CASE ClientReceives
  BY <1>2, <1>8, GrubClient
<1>9. CASE Lose \/ Duplicate
  BY <1>2, <1>9, GrubNetwork
<1>10. CASE TruncateIPXE
  BY <1>2, <1>10 DEF TruncateIPXE
<1>11. ASSUME NEW n \in Sizes, InstallGRUB(n) PROVE GrubInv'
  BY <1>2, <1>11, GrubInstalls
<1>12. ASSUME NEW n \in Sizes, FillIPXE(n) PROVE GrubInv'
  <2>1. inode[entry] \in File
    BY <1>2, GrubFile
  <2> QED
    BY <2>1, <1>12 DEF FillIPXE, File
<1> QED
  BY <1>3, <1>4, <1>5, <1>6, <1>7, <1>8, <1>9, <1>10, <1>11, <1>12 DEF TFTPNext, TFTPServerStep

LEMMA TransferInvariant == TFTPSpec => []TransferInv
<1>1. TFTPInit => TransferInv
  <2>1. SUFFICES ASSUME TFTPInit PROVE TransferInv
    OBVIOUS
  <2>2. PICK n \in Sizes : inode = <<[ver |-> 1, size |-> n, partial |-> FALSE]>>
    BY <2>1 DEF TFTPInit
  <2>3. [ver |-> 1, size |-> n, partial |-> FALSE] \in File
    BY TFTPAssumption DEF File
  <2>4. inode \in Seq(File) /\ Len(inode) = 1
    BY <2>2, <2>3
  <2>5. /\ xfer = [pc |-> "idle", file |-> 1, block |-> 0, chunk |-> {}, retry |-> 0]
        /\ entry = 1 /\ down = <<>> /\ up = <<>>
    BY <2>1 DEF TFTPInit
  <2>6. PICK o \in SUBSET Options, a \in Asset :
            client = [asset |-> a, options |-> o, acked |-> 0, got |-> <<>>, done |-> FALSE]
    BY <2>1 DEF TFTPInit
  <2>7. client \in Client /\ client.acked = 0 /\ client.got = <<>> /\ ~client.done
        /\ DOMAIN client = {"asset", "options", "acked", "got", "done"}
    BY <2>6 DEF Client
  <2>8. xfer \in Xfer /\ xfer.pc = "idle" /\ xfer.block = 0 /\ xfer.file = 1
    BY <2>5 DEF Xfer
  <2>9. FilesOK
    BY <2>4, <2>5, <2>8 DEF FilesOK
  <2>10. QueuesOK /\ Untouched
    BY <2>5, <2>7, <2>8 DEF QueuesOK, Untouched
  <2> QED
    BY <2>7, <2>8, <2>9, <2>10 DEF TransferInv, GrubInv
<1>2. TransferInv /\ [TFTPNext]_tftpVars => TransferInv'
  BY TransferSteps
<1> QED
  BY <1>1, <1>2, PTL DEF TFTPSpec

(* serveRRQ reports a transfer of the GRUB image complete only when the     *)
(* client holds every block of one version of it, once and in order, for    *)
(* files of any size, queues of any length and any wrap of the block number *)
(* from three on: waitForAck takes only the acknowledgement of the block it *)
(* sent, so client and server are never more than one block apart.          *)
THEOREM CompletedTransfersAreWhole == TFTPSpec => []CompletedIsWhole
<1>1. TransferInv => CompletedIsWhole
  <2>1. SUFFICES ASSUME TransferInv, xfer.pc = "done", client.asset = "grub"
                 PROVE  /\ client.done
                        /\ Len(client.got) = inode[xfer.file].size + 1
                        /\ \A k \in DOMAIN client.got :
                               client.got[k].ver = client.got[1].ver /\ client.got[k].i = k
    BY DEF CompletedIsWhole
  <2>2. GrubInv
    BY <2>1 DEF TransferInv
  <2>3. PICK f \in File, b \in Nat : f = inode[xfer.file] /\ b = xfer.block
    BY <2>2, GrubFile
  <2>4. /\ Transfer(f, b) /\ client.acked = b /\ b > f.size /\ f.size \in Nat
        /\ client.got \in Seq(ChunkSet)
    BY <2>1, <2>2, <2>3 DEF GrubInv, QueuesOK, Client, File
  <2>5. b = f.size + 1 /\ b <= f.size + 1 /\ b >= 1
    BY <2>4 DEF Transfer
  <2>6. client.done /\ Len(client.got) = b /\ \A k \in 1..b : client.got[k] = Chunk(f, k)
    BY <2>4 DEF Transfer, Holds
  <2>7. DOMAIN client.got = 1..b /\ 1 \in 1..b
    BY <2>4, <2>5, <2>6
  <2>8. \A k : Chunk(f, k).ver = f.ver /\ Chunk(f, k).i = k
    BY DEF Chunk
  <2> QED
    BY <2>3, <2>5, <2>6, <2>7, <2>8
<1> QED
  BY <1>1, TransferInvariant, PTL
=============================================================================
