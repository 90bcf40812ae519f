----------------------------- MODULE DNSUpdater -----------------------------
(***************************************************************************)
(* The RFC 2136 controller, src/internal/infra/dns/rfc2136.go: it mirrors  *)
(* the inventory in an external DNS server by UPDATE messages, remembering *)
(* in last what the server confirmed so that unchanged records are not     *)
(* sent again.                                                             *)
(*                                                                         *)
(* Several goroutines run Sync.  Each collects the wanted records without  *)
(* the mutex and then sends, under it, what differs from last; the first   *)
(* error ends the sync.  An exchange fails because the request was lost or *)
(* refused, or because the response was lost: in the last case the server  *)
(* did what last does not know.                                            *)
(***************************************************************************)
EXTENDS Naturals, FiniteSets

CONSTANTS
    Hosts,       \* host names
    Addresses,   \* their possible addresses; 0 stands for no record
    Updaters,    \* goroutines that run Sync; "loop" is the periodic one
    MaxHostEdits,   \* bound on the changes of the inventory
    MaxLosses    \* bound on lost messages, refusals and restarts

VARIABLES
    want,        \* the inventory: host -> address
    owed,        \* syncs that a committed change still has to run
    sync,        \* updater -> [pc, desired]
    holder,      \* the updater that holds the mutex, or none
    last,        \* what the controller believes is on the server
    remote,      \* what is on the server (external)
    unsure,      \* hosts whose last exchange was lost after it was applied
    hostEdits, losses

updVars == <<want, owed, sync, holder, last, remote, unsure, hostEdits, losses>>

Empty == [h \in Hosts |-> 0]
Idle == [pc |-> "idle", desired |-> Empty]

UpdInit ==
    /\ want = Empty /\ owed = 0
    /\ sync = [u \in Updaters |-> Idle]
    /\ holder = {}
    /\ last = Empty /\ remote = Empty /\ unsure = {}
    /\ hostEdits = 0 /\ losses = 0

EditHost(h, a) ==
    /\ hostEdits < MaxHostEdits
    /\ a # want[h]
    /\ want' = [want EXCEPT ![h] = a]
    /\ hostEdits' = hostEdits + 1
    /\ owed' = owed + 1
    /\ UNCHANGED <<sync, holder, last, remote, unsure, losses>>

(* collectRecords *)
Collect(u) ==
    /\ sync[u].pc = "idle"
    /\ u = "loop" \/ owed > 0
    /\ owed' = IF u = "loop" THEN owed ELSE owed - 1
    /\ sync' = [sync EXCEPT ![u] = [pc |-> "lock", desired |-> want]]
    /\ UNCHANGED <<want, holder, last, remote, unsure, hostEdits, losses>>
Lock(u) ==
    /\ sync[u].pc = "lock"
    /\ holder = {}
    /\ holder' = {u}
    /\ sync' = [sync EXCEPT ![u].pc = "send"]
    /\ UNCHANGED <<want, owed, last, remote, unsure, hostEdits, losses>>

(* The records Sync still has to replace, and, after those, to delete.      *)
Changed(u) == {h \in Hosts : sync[u].desired[h] # 0 /\ sync[u].desired[h] # last[h]}
(* Bug: records of removed hosts are left alone. *)
StaleNever(u) == {}
Stale(u) == {h \in Hosts : sync[u].desired[h] = 0 /\ last[h] # 0}
ToSend(u) == IF Changed(u) # {} THEN Changed(u) ELSE Stale(u)

(* last after a failed exchange. *)
LastAfterError(h, a) == last

(* replaceA or deleteA: the server's record becomes the desired one.  A     *)
(* request that was lost, or answered with an error, changed nothing.       *)
Exchange(u, h) ==
    /\ sync[u].pc = "send"
    /\ h \in ToSend(u)
    /\ LET a == sync[u].desired[h]
       IN \/ /\ remote' = [remote EXCEPT ![h] = a]
             /\ last' = [last EXCEPT ![h] = a]
             /\ unsure' = unsure \ {h}
             /\ UNCHANGED <<sync, holder, losses>>
          \/ /\ losses < MaxLosses
             /\ losses' = losses + 1
             /\ \/ UNCHANGED <<remote, unsure>>
                \/ /\ remote' = [remote EXCEPT ![h] = a]
                   /\ unsure' = unsure \cup {h}
             /\ last' = LastAfterError(h, a)
             /\ sync' = [sync EXCEPT ![u] = Idle]
             /\ holder' = {}
    /\ UNCHANGED <<want, owed, hostEdits>>
Finish(u) ==
    /\ sync[u].pc = "send"
    /\ ToSend(u) = {}
    /\ sync' = [sync EXCEPT ![u] = Idle]
    /\ holder' = {}
    /\ UNCHANGED <<want, owed, last, remote, unsure, hostEdits, losses>>

(* A restart forgets last: records of hosts that are removed before the     *)
(* next sync are not known any more.                                        *)
UpdRestart ==
    /\ losses < MaxLosses
    /\ losses' = losses + 1
    /\ sync' = [u \in Updaters |-> Idle]
    /\ holder' = {}
    /\ owed' = 0
    /\ last' = Empty
    /\ unsure' = unsure \cup {h \in Hosts : remote[h] # 0}
    /\ UNCHANGED <<want, remote, hostEdits>>

UpdStep(u) == Collect(u) \/ Lock(u) \/ Finish(u) \/ \E h \in Hosts : Exchange(u, h)
UpdNext ==
    \/ \E h \in Hosts, a \in Addresses \cup {0} : EditHost(h, a)
    \/ \E u \in Updaters : UpdStep(u)
    \/ UpdRestart

-----------------------------------------------------------------------------
(* When the inventory stops changing, messages stop being lost and the      *)
(* server refuses no update any more, it eventually mirrors the inventory   *)
(* for good, although overlapping syncs send old readings after newer ones; *)
(* only a host whose last exchange was applied but not confirmed, or that   *)
(* was on the server before a restart, may be left behind.  (A server that  *)
(* keeps refusing one update ends every sync there.)                        *)
EventuallyMirrors ==
    <>[](\A h \in Hosts : remote[h] = want[h] \/ h \in unsure)
=============================================================================
