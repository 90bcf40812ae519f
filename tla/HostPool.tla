------------------------------ MODULE HostPool ------------------------------
(***************************************************************************)
(* What allocation of physical hosts promises: a host has at most one      *)
(* holder, an owner holds at most one host, and a host changes hands only  *)
(* when it is clean.  A host is dirty from the moment a deployment is      *)
(* committed for it until a cleanup has been seen to finish.               *)
(***************************************************************************)
CONSTANTS Hosts, Owners, None

VARIABLES holder, dirty

poolVars == <<holder, dirty>>

Init == holder = [n \in Hosts |-> None] /\ dirty = [n \in Hosts |-> FALSE]

Acquire(n, o) ==
  /\ holder[n] = None /\ ~dirty[n]
  /\ \A k \in Hosts : holder[k] # o
  /\ holder' = [holder EXCEPT ![n] = o]
  /\ UNCHANGED dirty

Deploy(n) ==
  /\ holder[n] # None
  /\ dirty' = [dirty EXCEPT ![n] = TRUE]
  /\ UNCHANGED holder

CleanupFinishes(n) ==
  /\ holder[n] # None
  /\ dirty' = [dirty EXCEPT ![n] = FALSE]
  /\ UNCHANGED holder

Release(n) ==
  /\ holder[n] # None /\ ~dirty[n]
  /\ holder' = [holder EXCEPT ![n] = None]
  /\ UNCHANGED dirty

Next ==
  \E n \in Hosts :
    Deploy(n) \/ CleanupFinishes(n) \/ Release(n) \/ \E o \in Owners : Acquire(n, o)

Spec == Init /\ [][Next]_poolVars
=============================================================================
