----------------------------- MODULE MCSystems ------------------------------
(***************************************************************************)
(* Small instances of the components that act on machines from outside     *)
(* their installers.  They share no state, so focus names the one that     *)
(* moves while the others stay in an initial state.  The power cycles are  *)
(* explored in four scopes, each with the actors its question needs:       *)
(* claims (two boots of the installer, settings and loops in one attempt), *)
(* wake (two overlapping Windows redeploys over Wake-on-LAN, an installer  *)
(* and a power action, with the older cycle at work), cycles (two          *)
(* overlapping redeploys that change the power settings) and jobs (two     *)
(* jobs that overlap redeploys of any guest).                              *)
(***************************************************************************)
EXTENDS PowerCycles, ShutdownDaemon

VARIABLE focus
vars == <<pcVars, sdVars, focus>>

(* Clocks behind by the window of a second, right, and ahead by the window, *)
(* which is too much for some packets.                                      *)
SmallSkews == {-2, 0, 2}

PCIdle == PCInit /\ row.type = "manual"
SDIdle == SDInit /\ skew = 0

Init ==
    \/ focus \in {"claims", "jobs"} /\ PCIdle /\ SDIdle
    \/ focus \in {"wake", "cycles"} /\ PCInit /\ row.type = "wol" /\ SDIdle
    \/ focus = "daemon" /\ PCIdle /\ SDInit

(* What stays still in each scope of the power cycles. *)
Kinds_(kinds) == \A j \in Jobs : job'[j].kind \in kinds \cup {"none", "begun", "redeploy"}
Scope ==
    /\ focus \in {"claims", "jobs"} => row'.type = "manual"
    /\ focus = "wake" => /\ row'.type = "wol" /\ (drawn' > 0 => row'.windows)
                         /\ Kinds_({"power"}) /\ jobs' <= 1 /\ late' = late
                         /\ cycle'[2].at \in {"none", "check"}
    /\ focus = "cycles" => Kinds_({"attach", "poll"}) /\ inst' = inst
    /\ focus = "claims" => drawn' <= 1 /\ Kinds_({"settings", "timeout", "lease"})
    /\ focus = "jobs" => /\ inst' = inst
                         /\ Kinds_({"settings", "network", "power", "target", "whole", "attach",
                                    "timeout", "lease"})
    /\ focus # "jobs" => job'[2] = job[2] /\ row'.static = FALSE
    /\ focus # "claims" => inst'[2] = inst[2]

(* The secret changes between the two packets. *)
KeyScope == key' # key => Cardinality(wire) = 1

Next ==
    /\ \/ focus # "daemon" /\ PCNext /\ Scope /\ UNCHANGED sdVars
       \/ focus = "daemon" /\ SDNext /\ KeyScope /\ UNCHANGED pcVars
    /\ UNCHANGED focus
Spec == Init /\ [][Next]_vars
=============================================================================
