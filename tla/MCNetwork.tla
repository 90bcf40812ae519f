----------------------------- MODULE MCNetwork ------------------------------
(***************************************************************************)
(* Small instances of the network services.  The PXE manager, the TFTP     *)
(* server, the embedded DNS server and the RFC 2136 controller share no    *)
(* state, so instead of their product the run explores each of them by     *)
(* itself: focus names the component that moves, the others stay in an     *)
(* initial state of theirs.  Of the embedded DNS server, "zones" explores  *)
(* the syncs and their failures, "records" three operations on dynamic     *)
(* records with one change of the inventory.                               *)
(***************************************************************************)
EXTENDS PXEManager, TFTPServer, EmbeddedDNS, DNSUpdater

VARIABLE focus
vars == <<pxeVars, tftpVars, dnsVars, updVars, focus>>

(* The machine and the virtual machine share the hardware address 1. *)
SharedMACs == [n \in {"m1", "v1"} |-> IF n = "m1" THEN {1} ELSE {1, 2}]

(* The initial states of a component that does not move. *)
PXEIdle == PXEInit /\ \A n \in Nodes : node[n] = "absent"
DNSIdle == DNSBegins("down")
TFTPIdle == TFTPInit /\ inode[1].size = 0 /\ client.options = {} /\ client.asset = "grub"

Init ==
    \/ focus = "pxe" /\ PXEInit /\ TFTPIdle /\ DNSIdle /\ UpdInit
    \/ focus = "tftp" /\ PXEIdle /\ TFTPInit /\ DNSIdle /\ UpdInit
    \/ focus \in {"zones", "records"} /\ PXEIdle /\ TFTPIdle /\ DNSInit /\ UpdInit
    \/ focus = "updater" /\ PXEIdle /\ TFTPIdle /\ DNSIdle /\ UpdInit

Next ==
    /\ \/ focus = "pxe" /\ PXENext /\ UNCHANGED <<tftpVars, dnsVars, updVars>>
       \/ focus = "tftp" /\ TFTPNext /\ UNCHANGED <<pxeVars, dnsVars, updVars>>
       \/ focus = "zones" /\ DNSNext /\ ops' = 0 /\ UNCHANGED <<pxeVars, tftpVars, updVars>>
       \/ /\ focus = "records" /\ DNSNext /\ edits' <= 1 /\ failed' = 0
          /\ reading'["notified"] = NotReading /\ UNCHANGED <<pxeVars, tftpVars, updVars>>
       \/ focus = "updater" /\ UpdNext /\ UNCHANGED <<pxeVars, tftpVars, dnsVars>>
    /\ UNCHANGED focus

(* Fairness: the goroutines keep running.  The PXE manager's select and the *)
(* DNS loops have a ticker, a committed change runs its notification, a     *)
(* failed listener its cleanup, and a TFTP transfer has a read deadline.    *)
(* Nothing is assumed of clients, of the network or of operators.           *)
Fairness ==
    /\ WF_pxeVars(focus = "pxe" /\ Manager)
    /\ WF_pxeVars(focus = "pxe" /\ Notify)
    /\ WF_pxeVars(focus = "pxe" /\ \E g \in failing : ClearIfCurrent(g))
    /\ WF_tftpVars(focus = "tftp" /\ TFTPServerStep)
    /\ \A s \in Syncers :
          WF_dnsVars((focus = "zones" \/ (focus = "records" /\ s # "notified")) /\ SyncStep(s))
    /\ WF_dnsVars(focus \in {"zones", "records"} /\ \E ok \in BOOLEAN : StartListens(ok))
    /\ \A u \in Updaters : WF_updVars(focus = "updater" /\ UpdStep(u))

FairSpec == Init /\ [][Next]_vars /\ Fairness
=============================================================================
