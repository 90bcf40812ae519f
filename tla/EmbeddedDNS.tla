----------------------------- MODULE EmbeddedDNS ----------------------------
(***************************************************************************)
(* The embedded DNS server, src/internal/infra/dns/embedded*.go: the host  *)
(* records it derives from the inventory (Sync) and the dynamic records it *)
(* is given through the API and by DNS UPDATE and keeps in a file.         *)
(* startDNS (src/internal/app/sync.go) runs Start once and only logs its   *)
(* error, while the sync loop goes on.                                     *)
(*                                                                         *)
(* Sync runs in whatever goroutine changed a store, and in the 30 second   *)
(* loop: it reads the stores without the server's lock and installs what   *)
(* it read under it, so an older reading may be installed last.  Operations*)
(* on dynamic records hold the lock throughout and are single steps; what  *)
(* can split them is a failing write of the file and a restart.            *)
(***************************************************************************)
EXTENDS Naturals, FiniteSets

CONSTANTS
    Names,       \* host names inside the zone
    Texts,       \* the texts of record values
    Syncers,     \* goroutines that run Sync: "start", "tick" and subscribers
    MaxEdits,    \* bound on the changes of the inventory
    MaxOps,      \* bound on the operations on dynamic records
    MaxCrashes,  \* bound on restarts
    MaxFailed    \* bound on syncs that fail

VARIABLES
    inv,         \* the inventory: [zone : BOOLEAN, hosts : SUBSET Names]
    due,         \* syncs a committed change still has to run
    server,      \* how far Start is: "starting", "synced", "listening", "down"
    reading,     \* syncer -> [got, view]: how many stores it has read, and what
    served,      \* the zones and records the server answers from
    dyn,         \* dynamicRecords: name -> type -> values
    loaded,      \* dynamicLoaded
    file,        \* the dynamic records in the file
    acked,       \* the records according to the operations that succeeded
    doubtful,    \* <<name, type>> a failed operation touched
    padded,      \* <<name, type>> that was given a value with blanks around it
    edits, ops, crashes, failed

dnsVars == <<inv, due, server, reading, served, dyn, loaded, file, acked, doubtful,
             padded, edits, ops, crashes, failed>>

Types == {"A", "TXT", "CNAME"}
(* A value is a text, maybe with blanks around it; a TXT may also be empty. *)
Values == [text : Texts \cup {""}, blanks : BOOLEAN]
Plain(v) == v.text # "" /\ ~v.blanks
Texted == {v \in Values : Plain(v)}

NoRecords == [n \in Names |-> [t \in Types |-> {}]]
Nothing == [zone |-> FALSE, hosts |-> {}]
NotReading == [got |-> 0, view |-> Nothing]

DNSBegins(where) ==
    /\ inv = Nothing /\ due = 0
    /\ server = where
    /\ reading = [s \in Syncers |-> NotReading]
    /\ served = Nothing
    /\ dyn = NoRecords /\ loaded = FALSE /\ file = NoRecords
    /\ acked = NoRecords /\ doubtful = {} /\ padded = {}
    /\ edits = 0 /\ ops = 0 /\ crashes = 0 /\ failed = 0
DNSInit == DNSBegins("starting")

recordVars == <<dyn, loaded, file, acked, doubtful, padded>>

-----------------------------------------------------------------------------
(* A store commits a change; its subscriber then runs a sync. *)
EditInventory(i) ==
    /\ edits < MaxEdits
    /\ i # inv
    /\ inv' = i
    /\ edits' = edits + 1
    /\ due' = due + 1
    /\ UNCHANGED <<server, reading, served, recordVars, ops, crashes, failed>>

(* Sync lists the subnets, whose domains are the zones, and then the hosts; *)
(* Start runs the first one.                                                *)
SyncReadsZones(s) ==
    /\ reading[s].got = 0
    /\ CASE s = "start" -> server = "starting" /\ UNCHANGED due
         [] s = "tick"  -> UNCHANGED due
         [] OTHER       -> due > 0 /\ due' = due - 1
    /\ reading' = [reading EXCEPT ![s] = [got |-> 1, view |-> [Nothing EXCEPT !.zone = inv.zone]]]
    /\ UNCHANGED <<inv, server, served, recordVars, edits, ops, crashes, failed>>
SyncReadsHosts(s) ==
    /\ reading[s].got = 1
    /\ reading' = [reading EXCEPT ![s].got = 2, ![s].view.hosts = inv.hosts]
    /\ UNCHANGED <<inv, due, server, served, recordVars, edits, ops, crashes, failed>>
(* A list that fails ends it, and so does a file that cannot be read or     *)
(* parsed when it is first needed.  Start gives up with its sync.           *)
SyncFails(s) ==
    /\ failed < MaxFailed
    /\ failed' = failed + 1
    /\ reading[s].got = 1 \/ (reading[s].got = 2 /\ ~loaded)
    /\ reading' = [reading EXCEPT ![s] = NotReading]
    /\ server' = IF s = "start" THEN "down" ELSE server
    /\ UNCHANGED <<inv, due, served, recordVars, edits, ops, crashes>>

(* normalizeDynamicRecordValues: blanks around a value go, and so does a    *)
(* value that has nothing else.                                             *)
Normalized(vs) == {[text |-> v.text, blanks |-> FALSE] : v \in {u \in vs : u.text # ""}}
(* loadDynamicRecordsLocked: every value is normalised, and a set without   *)
(* values is dropped.                                                       *)
FromFile == [n \in Names |-> [t \in Types |-> Normalized(file[n][t])]]
(* Bug: an operation before the first sync starts from no records. *)
LoadNothing == dyn
(* What the first sync or operation of a process loads, and every later one *)
(* finds.                                                                   *)
Load == IF loaded THEN dyn ELSE FromFile

(* Bug: the loop's sync does nothing once the records are loaded. *)
InstallsOnce(s) ==
    /\ reading[s].got = 2
    /\ served' = IF loaded /\ s = "tick" THEN served ELSE reading[s].view
    /\ dyn' = Load
    /\ loaded' = TRUE
    /\ server' = IF s = "start" THEN "synced" ELSE server
    /\ reading' = [reading EXCEPT ![s] = NotReading]
    /\ UNCHANGED <<inv, due, file, acked, doubtful, padded, edits, ops, crashes, failed>>
(* What Sync read is installed under the lock. *)
SyncInstalls(s) ==
    /\ reading[s].got = 2
    /\ served' = reading[s].view
    /\ dyn' = Load
    /\ loaded' = TRUE
    /\ server' = IF s = "start" THEN "synced" ELSE server
    /\ reading' = [reading EXCEPT ![s] = NotReading]
    /\ UNCHANGED <<inv, due, file, acked, doubtful, padded, edits, ops, crashes, failed>>

(* Start opens its two sockets after the sync, or returns with the error;   *)
(* it returns too when a listener ends.  Nobody starts it again.            *)
StartListens(ok) ==
    /\ server = "synced"
    /\ server' = IF ok THEN "listening" ELSE "down"
    /\ UNCHANGED <<inv, due, reading, served, recordVars, edits, ops, crashes, failed>>
ListenerEnds ==
    /\ server = "listening"
    /\ server' = "down"
    /\ UNCHANGED <<inv, due, reading, served, recordVars, edits, ops, crashes, failed>>

-----------------------------------------------------------------------------
(* validateDynamicRecordPlacementLocked *)
Placement(recs, n, t) ==
    /\ served.zone
    /\ t = "CNAME" => n \notin served.hosts /\ \A u \in Types \ {t} : recs[n][u] = {}
    /\ t # "CNAME" => recs[n]["CNAME"] = {}

(* deleteDynamicRecordSet for the types del, deleteDynamicRecordValue for   *)
(* the values none, addDynamicRecordValue for the values add.               *)
ChangedRecords(recs, n, del, none, add) ==
    [m \in Names |-> [t \in Types |->
        IF m = n THEN (IF t \in del THEN {} ELSE recs[m][t] \ none[t]) \cup add[t]
        ELSE recs[m][t]]]
OfType(t, vs) == [u \in Types |-> IF u = t THEN vs ELSE {}]
NoValues == [t \in Types |-> {}]

(* One change of the name n, of the records and of what callers were        *)
(* promised: the file is written and the operation succeeds, or it fails,   *)
(* at the write or before it, and the change stays in memory.               *)
Commit(n, del, none, add, written) ==
    LET touched == {<<n, t>> : t \in {u \in Types : u \in del \/ none[u] # {} \/ add[u] # {}}}
    IN /\ dyn' = ChangedRecords(Load, n, del, none, add)
       /\ loaded' = TRUE
       /\ padded' = padded \cup {<<n, t>> : t \in {u \in Types : ~(add[u] \subseteq Texted)}}
       /\ IF written
          THEN /\ file' = dyn'
               /\ acked' = ChangedRecords(acked, n, del, none, add)
               /\ doubtful' = doubtful \ {<<n, t>> : t \in del}
          ELSE /\ doubtful' = doubtful \cup touched
               /\ UNCHANGED <<file, acked>>

Operation ==
    /\ ops < MaxOps
    /\ ops' = ops + 1
    /\ UNCHANGED <<inv, due, server, reading, served, edits, crashes, failed>>

(* The API normalises and validates the values, and replaces the set. *)
UpsertDynamicRecord(n, t, v) ==
    /\ Operation
    /\ Placement(Load, n, t)
    /\ \E written \in BOOLEAN : Commit(n, {t}, NoValues, OfType(t, {v}), written)
DeleteDynamicRecord(n, t) ==
    /\ Operation
    /\ \E written \in BOOLEAN : Commit(n, {t}, NoValues, NoValues, written)

(* serveDynamicUpdate: the records of one message are applied in turn, here *)
(* deletions of sets (class ANY), then of values (class NONE), then         *)
(* additions (class INET), as they come.  A record of another zone or type  *)
(* ends the message with an error, the ones before it applied in memory     *)
(* only; that is no different from a file that could not be written.        *)
ServeUpdate(n, del, none, add) ==
    /\ Operation
    /\ server = "listening"
    /\ served.zone
    /\ \E written \in BOOLEAN : Commit(n, del, none, add, written)

(* The process restarts: only the file survives. *)
DNSRestart ==
    /\ crashes < MaxCrashes
    /\ crashes' = crashes + 1
    /\ server' = "starting"
    /\ served' = Nothing
    /\ dyn' = NoRecords
    /\ loaded' = FALSE
    /\ reading' = [s \in Syncers |-> NotReading]
    /\ due' = 0
    /\ UNCHANGED <<inv, file, acked, doubtful, padded, edits, ops, failed>>

SyncStep(s) == SyncReadsZones(s) \/ SyncReadsHosts(s) \/ SyncInstalls(s)
Update(n) ==
    \/ \E v \in Texted : ServeUpdate(n, {"A"}, NoValues, OfType("CNAME", {v}))
    \/ ServeUpdate(n, Types, NoValues, NoValues)
    \/ \E t \in Types, v \in Values : ServeUpdate(n, {}, OfType(t, {v}), NoValues)
    \/ \E v \in Texted, w \in Values :
          ServeUpdate(n, {}, NoValues, [OfType("A", {v}) EXCEPT !["TXT"] = {w}])
DNSNext ==
    \/ \E z \in BOOLEAN, h \in SUBSET Names : EditInventory([zone |-> z, hosts |-> h])
    \/ \E s \in Syncers : SyncStep(s) \/ SyncFails(s)
    \/ \E ok \in BOOLEAN : StartListens(ok)
    \/ ListenerEnds
    \/ \E n \in Names, t \in Types :
          \/ \E v \in Texted : UpsertDynamicRecord(n, t, v)
          \/ DeleteDynamicRecord(n, t)
    \/ \E n \in Names : Update(n)
    \/ DNSRestart
DNSSpec == DNSInit /\ [][DNSNext]_dnsVars

-----------------------------------------------------------------------------
(* queryRecordsLocked: the record types of a name other than the zone's own.*)
KnownTypes(view, n) ==
    {t \in Types : dyn[n][t] # {} \/ (t = "A" /\ n \in view.hosts)}
(* ServeDNS: refused outside the zones served, else what is known.          *)
Resolve(view, n) == IF view.zone THEN KnownTypes(view, n) ELSE {"REFUSED"}

(* What an operation on dynamic records confirmed is in the file, and in    *)
(* memory once the file was loaded, through restarts and whatever order the *)
(* first sync and the first operations come in: a value with text and no    *)
(* blanks around it is found again, and nothing else is.  Excepted are the  *)
(* sets that a later, failed operation touched, and a value that a DNS      *)
(* UPDATE gave with blanks around it or without any text: the load trims    *)
(* the one, which its own deletion then misses, and drops the other.        *)
AckedSurvives ==
    \A n \in Names, t \in Types :
        <<n, t>> \notin doubtful =>
            \A v \in Values :
                /\ Plain(v) /\ v \in acked[n][t]
                      => v \in file[n][t] /\ (loaded => v \in dyn[n][t])
                /\ <<n, t>> \notin padded /\ (v \in file[n][t] \/ (loaded /\ v \in dyn[n][t]))
                      => v \in acked[n][t]

(* When the inventory stops changing and its lists succeed again, the names *)
(* it lists are eventually answered and the ones it dropped are not, for    *)
(* good: a sync that read old data and installs it last is repaired by the  *)
(* periodic one.  Otherwise Start has given up, because its sync or one of  *)
(* its listeners failed, and the process answers nothing until it is        *)
(* restarted.                                                               *)
EventuallyServesInventory ==
    <>[](\/ server = "down"
         \/ server = "listening" /\ \A n \in Names : Resolve(served, n) = Resolve(inv, n))
=============================================================================
