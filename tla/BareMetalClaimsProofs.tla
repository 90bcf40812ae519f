----------------------- MODULE BareMetalClaimsProofs -----------------------
(***************************************************************************)
(* Theorems about BareMetalClaims, for every set of machines, pools,       *)
(* owners and concurrent handlers and for every mix of requests.           *)
(***************************************************************************)
EXTENDS BareMetalClaims, TLAPS

USE DEF NoAttempt

----------------------------------------------------------------------------
(* Types *)

\* The constant rows have the types of table rows.
LEMMA ConstantRows ==
  /\ UnprovisionedRow \in MachineRows
  /\ Unenrolled \in HostRows
  /\ Idle \in Reqs
  /\ NoRow \in Listings
<1>1. UnprovisionedRow \in MachineRows
  BY DEF UnprovisionedRow, MachineRows, Phases
<1>2. (CHOOSE q \in Pools : TRUE) \in Pools /\ (CHOOSE n \in Machines : TRUE) \in Machines
  BY ConstantsAssumption
<1>3. Unenrolled \in HostRows
  BY <1>2 DEF Unenrolled, HostRows, States
<1>4. Idle \in Reqs
  BY <1>1, <1>2, <1>3 DEF Idle, Request, Reqs, Steps
<1>5. NoRow \in Listings
  BY <1>1 DEF NoRow, Listings
<1>6. QED BY <1>1, <1>3, <1>4, <1>5

\* The row transformations of the handlers stay within the table's type.
LEMMA RowTransformations ==
  ASSUME NEW m \in MachineRows, NEW k \in Nat, NEW o \in Owners \cup {None},
         NEW w \in BOOLEAN, NEW event \in DeployEvents
  PROVE  /\ PrepareReinstall(m, k) \in MachineRows
         /\ SealFor(m, o, w) \in MachineRows
         /\ TimedOut(m) \in MachineRows
         /\ \A row \in SyncStates(m) : row \in MachineRows
         /\ ApplyEvent(m, event) \in MachineRows
         /\ Completed(m) \in MachineRows
         /\ WithInventory(m, k) \in MachineRows
<1>1. PrepareReinstall(m, k) \in MachineRows
  BY DEF PrepareReinstall, MachineRows, Phases
<1>2. SealFor(m, o, w) \in MachineRows
  BY DEF SealFor, MachineRows, Phases
<1>3. TimedOut(m) \in MachineRows
  BY DEF TimedOut, MachineRows, Phases
<1>4. \A row \in SyncStates(m) : row \in MachineRows
  BY DEF SyncStates, MachineRows, Phases
<1>5. ApplyEvent(m, event) \in MachineRows
  BY DEF ApplyEvent, MachineRows, Phases, DeployEvents
<1>6. Completed(m) \in MachineRows
  BY DEF Completed, MachineRows, Phases
<1>7. WithInventory(m, k) \in MachineRows
  BY DEF WithInventory, MachineRows, Phases
<1>8. QED BY <1>1, <1>2, <1>3, <1>4, <1>5, <1>6, <1>7

\* The row an UPDATE of bare_metal_hosts leaves is a host row.
LEMMA AdvanceTyped ==
  ASSUME NEW h \in HostRows, NEW next \in States, NEW k \in Nat
  PROVE  Advance(h, next, k) \in HostRows
<1>1. h.revision \in Nat
  BY DEF HostRows
<1>2. PICK r \in Nat : r = h.revision + 1
  BY <1>1
<1>3. [h EXCEPT !.state = next, !.attempt = k, !.revision = r] \in HostRows
  BY DEF HostRows
<1>4. QED BY <1>2, <1>3 DEF Advance

LEMMA HostTransformations ==
  ASSUME NEW h \in HostRows, NEW o \in Owners \cup {None}, NEW q \in Pools
  PROVE  /\ Released(h) \in HostRows
         /\ Claimed(h, o) \in HostRows
         /\ Repooled(h, q) \in HostRows
         /\ Wanted(q, o) \in HostRows
<1>1. \A g \in HostRows : \A s \in States, a \in Nat : Advance(g, s, a) \in HostRows
  BY AdvanceTyped
<1>2. /\ [h EXCEPT !.owner = o] \in HostRows
      /\ [h EXCEPT !.owner = None] \in HostRows
      /\ [h EXCEPT !.pool = q] \in HostRows
      /\ h.attempt \in Nat
  BY DEF HostRows
<1>3. "Available" \in States /\ "Claimed" \in States
  BY DEF States
<1>4. Unenrolled \in HostRows
  BY ConstantRows
<1>5. Wanted(q, o) \in HostRows
  BY <1>4 DEF Wanted, HostRows
<1>6. QED BY <1>1, <1>2, <1>3, <1>5, Zenon DEF Released, Claimed, Repooled

LEMMA Enrollments ==
  ASSUME NEW h \in HostRows, NEW q \in Pools
  PROVE  /\ Enrolled(q, h.born) \in HostRows
         /\ Enrolled(q, h.born).enrolled /\ Enrolled(q, h.born).born = h.born
         /\ Enrolled(q, h.born).owner = None /\ Enrolled(q, h.born).attempt = NoAttempt
         /\ Enrolled(q, h.born).state = "Available" /\ Enrolled(q, h.born).revision = 1
         /\ Unregistered(h) \in HostRows
         /\ ~Unregistered(h).enrolled /\ Unregistered(h).born = h.born + 1
         /\ Unregistered(h).owner = None /\ Unregistered(h).attempt = NoAttempt
         /\ Unregistered(h).state = "Available" /\ Unregistered(h).revision = 0
<1>1. Unenrolled \in HostRows
  BY ConstantRows
<1>2. PICK b \in Nat : b = h.born
  BY DEF HostRows
<1>3. PICK c \in Nat : c = h.born + 1
  BY <1>2
<1>4. /\ Unenrolled.owner = None /\ Unenrolled.attempt = NoAttempt /\ ~Unenrolled.enrolled
      /\ Unenrolled.state = "Available" /\ Unenrolled.revision = 0
  BY DEF Unenrolled
<1> DEFINE e == [Unenrolled EXCEPT !.enrolled = TRUE, !.pool = q, !.revision = 1, !.born = b]
           u == [Unenrolled EXCEPT !.born = c]
<1>5. e \in HostRows /\ u \in HostRows
  BY <1>1 DEF HostRows
<1>6. /\ e.enrolled /\ e.born = b /\ e.revision = 1 /\ u.born = c
      /\ e.owner = Unenrolled.owner /\ e.attempt = Unenrolled.attempt
      /\ e.state = Unenrolled.state
      /\ u.owner = Unenrolled.owner /\ u.attempt = Unenrolled.attempt
      /\ u.state = Unenrolled.state /\ u.revision = Unenrolled.revision
      /\ u.enrolled = Unenrolled.enrolled
  BY <1>1 DEF HostRows
<1>7. e = Enrolled(q, h.born) /\ u = Unregistered(h)
  BY <1>2, <1>3 DEF Enrolled, Unregistered
<1> HIDE DEF e, u
<1>8. QED BY <1>2, <1>3, <1>4, <1>5, <1>6, <1>7

\* Upsert keeps the machines table typed.
LEMMA UpsertTyped ==
  ASSUME TypeOK, NEW n \in Machines, NEW row \in MachineRows, UpsertMachine(n, row)
  PROVE  machine' \in [Machines -> MachineRows]
BY DEF TypeOK, UpsertMachine

LEMMA CrossesTyped ==
  ASSUME TypeOK, NEW n \in Machines, NEW h, Crosses(n, h)
  PROVE  crossed' \subseteq Machines
BY DEF TypeOK, Crosses

\* So does the transaction of CommitDeployment, with everything it changes.
LEMMA CommitTyped ==
  ASSUME TypeOK, NEW n \in Machines, NEW h \in HostRows, NEW m \in MachineRows,
         CommitDeployment(n, h, m)
  PROVE  /\ host' \in [Machines -> HostRows]
         /\ machine' \in [Machines -> MachineRows]
         /\ lastAttempt' \in Nat
         /\ wipes' \subseteq Nat
         /\ lastDeploy' \in [Machines -> Nat]
         /\ crossed' \subseteq Machines
<1>1. m.attempt \in Nat
  BY DEF MachineRows
<1>2. host[n] \in HostRows /\ DeploymentState(m) \in States
  BY DEF TypeOK, States, DeploymentState
<1>3. Advance(host[n], DeploymentState(m), m.attempt) \in HostRows
  BY <1>1, <1>2, AdvanceTyped
<1>4. CASE ~CommitAllowed(n, h, m)
  BY <1>4 DEF CommitDeployment, TypeOK
<1>5. CASE CommitAllowed(n, h, m)
  <2>1. /\ host' = [host EXCEPT ![n] = Advance(host[n], DeploymentState(m), m.attempt)]
        /\ machine' = [machine EXCEPT ![n] = m]
        /\ lastAttempt' = m.attempt
        /\ wipes' = wipes \cup {a \in {m.attempt} : m.cleanup}
        /\ lastDeploy' = [lastDeploy EXCEPT ![n] = m.attempt]
        /\ Crosses(n, h)
    BY <1>5 DEF CommitDeployment
  <2>2. crossed' \subseteq Machines
    BY <2>1, CrossesTyped
  <2>3. QED BY <1>1, <1>3, <2>1, <2>2 DEF TypeOK
<1>6. QED BY <1>4, <1>5

\* What a table or a request holds has the type of its column or field.
LEMMA Fields ==
  ASSUME TypeOK, NEW p \in Handlers
  PROVE  /\ req[p] \in Reqs
         /\ req[p].kind \in RequestKinds \cup {"idle"}
         /\ req[p].name \in Machines
         /\ req[p].host \in HostRows
         /\ req[p].row \in MachineRows
         /\ req[p].host.owner \in Owners \cup {None}
         /\ req[p].host.attempt \in Nat
         /\ req[p].row.attempt \in Nat
<1>1. req[p] \in Reqs
  BY DEF TypeOK
<1>2. /\ req[p].kind \in RequestKinds \cup {"idle"} /\ req[p].name \in Machines
      /\ req[p].host \in HostRows /\ req[p].row \in MachineRows
  BY <1>1 DEF Reqs
<1>3. req[p].host.owner \in Owners \cup {None} /\ req[p].host.attempt \in Nat
  BY <1>2 DEF HostRows
<1>4. req[p].row.attempt \in Nat
  BY <1>2 DEF MachineRows
<1>5. QED BY <1>1, <1>2, <1>3, <1>4

LEMMA Rows ==
  ASSUME TypeOK, NEW n \in Machines
  PROVE  /\ machine[n] \in MachineRows
         /\ host[n] \in HostRows
         /\ listed[n].row \in MachineRows
         /\ listed[n] \in Listings
<1>1. /\ machine[n] \in MachineRows /\ host[n] \in HostRows /\ listed[n] \in Listings
  BY DEF TypeOK
<1>2. QED BY <1>1 DEF Listings

LEMMA RequestTyped ==
  ASSUME NEW kind \in RequestKinds \cup {"idle"}, NEW step \in Steps,
         NEW n \in Machines, NEW h \in HostRows, NEW m \in MachineRows
  PROVE  Request(kind, step, n, h, m) \in Reqs
BY DEF Request, Reqs

LEMMA KeepTyped ==
  ASSUME TypeOK, NEW p \in Handlers, NEW r \in Reqs, Keep(p, r)
  PROVE  req' \in [Handlers -> Reqs]
BY DEF TypeOK, Keep

LEMMA FinishTyped ==
  ASSUME TypeOK, NEW p \in Handlers, Finish(p)
  PROVE  req' \in [Handlers -> Reqs]
BY ConstantRows, KeepTyped DEF Finish

LEMMA HostUpdateTyped ==
  ASSUME TypeOK, NEW n \in Machines, NEW h \in HostRows,
         host' = [host EXCEPT ![n] = h]
  PROVE  host' \in [Machines -> HostRows]
BY DEF TypeOK

\* Every step of a claim handler keeps the types.
LEMMA ClaimHandlerTyped ==
  ASSUME TypeOK, NEW p \in Handlers, ClaimHandler(p)
  PROVE  TypeOK'
<1> DEFINE r == req[p]
<1>0. /\ r \in Reqs /\ r.kind \in RequestKinds \cup {"idle"} /\ r.name \in Machines
      /\ r.host \in HostRows /\ r.row \in MachineRows
      /\ r.host.owner \in Owners \cup {None} /\ r.host.attempt \in Nat
      /\ host[r.name] \in HostRows /\ machine[r.name] \in MachineRows
      /\ lastAttempt + 1 \in Nat
  <2>1. r.name \in Machines
    BY Fields
  <2>2. lastAttempt + 1 \in Nat
    BY DEF TypeOK
  <2>3. QED BY <2>1, <2>2, Fields, Rows
<1>1. ASSUME NEW o \in Owners, NEW q \in Pools, AcquireLookup(p, o, q) PROVE TypeOK'
  <2>1. Wanted(q, o) \in HostRows /\ UnprovisionedRow \in MachineRows
    BY HostTransformations, ConstantRows
  <2>2. (CHOOSE n \in Machines : TRUE) \in Machines
    BY ConstantsAssumption
  <2>3. Request("acquire", "checked", CHOOSE n \in Machines : TRUE, Wanted(q, o),
                UnprovisionedRow) \in Reqs
    BY <2>1, <2>2, RequestTyped DEF RequestKinds, Steps
  <2>4. req' \in [Handlers -> Reqs]
    BY <1>1, <2>3, KeepTyped DEF AcquireLookup, Begin
  <2>5. QED BY <1>1, <2>4 DEF AcquireLookup, TypeOK, tables, world, history
<1>2. ASSUME NEW n \in Machines, AcquireUpdate(p, n) PROVE TypeOK'
  <2>1. Claimed(host[n], r.host.owner) \in HostRows
    BY <1>0, Rows, HostTransformations, ConstantsAssumption
  <2>2. host' \in [Machines -> HostRows]
    BY <1>2, <2>1 DEF AcquireUpdate, TypeOK
  <2>3. req' \in [Handlers -> Reqs]
    BY <1>2, FinishTyped DEF AcquireUpdate
  <2>4. QED BY <1>2, <2>2, <2>3 DEF AcquireUpdate, TypeOK, world, history
<1>3. CASE GetMachine(p)
  <2>1. Request(r.kind, "row", r.name, r.host, machine[r.name]) \in Reqs
    BY <1>0, RequestTyped DEF Steps
  <2>2. req' \in [Handlers -> Reqs]
    BY <1>3, <2>1, KeepTyped DEF GetMachine
  <2>3. QED BY <1>3, <2>2 DEF GetMachine, TypeOK, tables, world, history
<1>4. CASE SettleClaim(p)
  <2>1. /\ Released(host[r.name]) \in HostRows
        /\ Advance(host[r.name], "Ready", r.host.attempt) \in HostRows
        /\ Advance(host[r.name], "Failed", r.host.attempt) \in HostRows
    BY <1>0, AdvanceTyped, HostTransformations, ConstantsAssumption DEF States
  <2>2. \/ host' = host
        \/ host' = [host EXCEPT ![r.name] = Released(host[r.name])]
        \/ host' = [host EXCEPT ![r.name] = Advance(host[r.name], "Ready", r.host.attempt)]
        \/ host' = [host EXCEPT ![r.name] = Advance(host[r.name], "Failed", r.host.attempt)]
    BY <1>4 DEF SettleClaim
  <2>3. host' \in [Machines -> HostRows]
    BY <1>0, <2>1, <2>2 DEF TypeOK
  <2>4. req' \in [Handlers -> Reqs]
    BY <1>4, FinishTyped DEF SettleClaim
  <2>5. crossed' \subseteq Machines
    BY <1>0, <1>4, CrossesTyped DEF SettleClaim, TypeOK
  <2>6. QED BY <1>4, <2>3, <2>4, <2>5 DEF SettleClaim, TypeOK, world
<1>5. CASE DeployClaim(p)
  <2> DEFINE m == PrepareReinstall(SealFor(r.row, r.host.owner, FALSE), lastAttempt + 1)
  <2>1. m \in MachineRows
    BY <1>0, RowTransformations DEF DeployEvents
  <2>2. CommitDeployment(r.name, r.host, m)
    BY <1>5 DEF DeployClaim
  <2> HIDE DEF m
  <2>3. /\ host' \in [Machines -> HostRows] /\ machine' \in [Machines -> MachineRows]
        /\ lastAttempt' \in Nat /\ wipes' \subseteq Nat /\ lastDeploy' \in [Machines -> Nat]
        /\ crossed' \subseteq Machines
    BY <1>0, <2>1, <2>2, CommitTyped
  <2>4. req' \in [Handlers -> Reqs]
    BY <1>5, FinishTyped DEF DeployClaim
  <2>5. QED BY <1>5, <2>3, <2>4 DEF DeployClaim, TypeOK, world
<1>6. CASE ReleaseClaimed(p)
  <2>1. Advance(host[r.name], "Releasing", 0) \in HostRows
    BY <1>0, AdvanceTyped DEF States
  <2>2. host' \in [Machines -> HostRows]
    BY <1>0, <1>6, <2>1 DEF ReleaseClaimed, TypeOK
  <2>3. Request("delete", "releasing", r.name, host'[r.name], UnprovisionedRow) \in Reqs
    BY <1>0, <2>2, RequestTyped, ConstantRows DEF RequestKinds, Steps
  <2>4. Idle \in Reqs
    BY ConstantRows
  <2>5. req' \in [Handlers -> Reqs]
    BY <1>6, <2>3, <2>4, KeepTyped DEF ReleaseClaimed, Finish
  <2>6. crossed' \subseteq Machines
    BY <1>0, <1>6, CrossesTyped DEF ReleaseClaimed, TypeOK
  <2>7. QED BY <1>6, <2>2, <2>5, <2>6 DEF ReleaseClaimed, TypeOK, world
<1>7. CASE CompleteClaimedRelease(p)
  <2>1. Released(host[r.name]) \in HostRows
    BY <1>0, HostTransformations, ConstantsAssumption
  <2>2. host' \in [Machines -> HostRows]
    BY <1>0, <1>7, <2>1 DEF CompleteClaimedRelease, TypeOK
  <2>3. req' \in [Handlers -> Reqs]
    BY <1>7, FinishTyped DEF CompleteClaimedRelease
  <2>4. crossed' \subseteq Machines
    BY <1>0, <1>7, CrossesTyped DEF CompleteClaimedRelease, TypeOK
  <2>5. QED BY <1>7, <2>2, <2>3, <2>4 DEF CompleteClaimedRelease, TypeOK, world
<1>8. CASE CleanupClaim(p)
  <2> DEFINE m == PrepareReinstall(SealFor(r.row, r.host.owner, TRUE), lastAttempt + 1)
  <2>1. m \in MachineRows
    BY <1>0, RowTransformations DEF DeployEvents
  <2>2. \/ CommitDeployment(r.name, r.host, m)
        \/ UNCHANGED <<host, machine, lastAttempt, wipes, lastDeploy, crossed>>
    BY <1>8 DEF CleanupClaim, tables, history
  <2> HIDE DEF m
  <2>3. /\ host' \in [Machines -> HostRows] /\ machine' \in [Machines -> MachineRows]
        /\ lastAttempt' \in Nat /\ wipes' \subseteq Nat /\ lastDeploy' \in [Machines -> Nat]
        /\ crossed' \subseteq Machines
    <3>1. CASE CommitDeployment(r.name, r.host, m)
      BY <1>0, <2>1, <3>1, CommitTyped
    <3>2. CASE UNCHANGED <<host, machine, lastAttempt, wipes, lastDeploy, crossed>>
      BY <3>2 DEF TypeOK
    <3>3. QED BY <2>2, <3>1, <3>2
  <2>4. req' \in [Handlers -> Reqs]
    BY <1>8, FinishTyped DEF CleanupClaim
  <2>5. QED BY <1>8, <2>3, <2>4 DEF CleanupClaim, TypeOK, world
<1>9. CASE RetryClaim(p)
  <2> DEFINE m == PrepareReinstall(r.row, lastAttempt + 1)
  <2>1. m \in MachineRows
    BY <1>0, RowTransformations DEF DeployEvents
  <2>2. \/ CommitDeployment(r.name, r.host, m)
        \/ UNCHANGED <<host, machine, lastAttempt, wipes, lastDeploy, crossed>>
    BY <1>9 DEF RetryClaim, tables, history
  <2> HIDE DEF m
  <2>3. /\ host' \in [Machines -> HostRows] /\ machine' \in [Machines -> MachineRows]
        /\ lastAttempt' \in Nat /\ wipes' \subseteq Nat /\ lastDeploy' \in [Machines -> Nat]
        /\ crossed' \subseteq Machines
    <3>1. CASE CommitDeployment(r.name, r.host, m)
      BY <1>0, <2>1, <3>1, CommitTyped
    <3>2. CASE UNCHANGED <<host, machine, lastAttempt, wipes, lastDeploy, crossed>>
      BY <3>2 DEF TypeOK
    <3>3. QED BY <2>2, <3>1, <3>2
  <2>4. req' \in [Handlers -> Reqs]
    BY <1>9, FinishTyped DEF RetryClaim
  <2>5. QED BY <1>9, <2>3, <2>4 DEF RetryClaim, TypeOK, world
<1>10. ASSUME NEW kind \in {"get", "deploy", "delete", "retry"}, NEW n \in Machines,
              FindOwner(p, kind, n)
       PROVE  TypeOK'
  <2>1. kind \in RequestKinds /\ "host" \in Steps
    BY DEF RequestKinds, Steps
  <2>2. Request(kind, "host", n, host[n], UnprovisionedRow) \in Reqs
    BY <2>1, RequestTyped, Rows, ConstantRows
  <2>3. req' \in [Handlers -> Reqs]
    BY <1>10, <2>2, KeepTyped DEF FindOwner, Begin
  <2>4. QED BY <1>10, <2>3 DEF FindOwner, TypeOK, tables, world, history
<1>11. QED
  BY <1>1, <1>2, <1>3, <1>4, <1>5, <1>6, <1>7, <1>8, <1>9, <1>10 DEF ClaimHandler

\* So does every step of an ordinary API handler, of a handler that ends and of
\* a callback.
LEMMA OrdinaryHandlerTyped ==
  ASSUME TypeOK, NEW p \in Handlers, OrdinaryHandler(p)
  PROVE  TypeOK'
<1> DEFINE r == req[p]
<1>0. /\ r.name \in Machines /\ r.row \in MachineRows
      /\ machine[r.name] \in MachineRows /\ lastAttempt + 1 \in Nat
      /\ Unenrolled \in HostRows /\ UnprovisionedRow \in MachineRows
  <2>1. r.name \in Machines
    BY Fields
  <2>2. lastAttempt + 1 \in Nat
    BY DEF TypeOK
  <2>3. QED BY <2>1, <2>2, Fields, Rows, ConstantRows
<1>1. CASE SettingsRead(p)
  <2>1. Request("settings", "write", r.name, Unenrolled, machine[r.name]) \in Reqs
    BY <1>0, RequestTyped DEF RequestKinds, Steps
  <2>2. req' \in [Handlers -> Reqs]
    BY <1>1, <2>1, KeepTyped DEF SettingsRead
  <2>3. QED BY <1>1, <2>2 DEF SettingsRead, TypeOK, tables, world, history
<1>2. CASE RedeployRead(p)
  <2>1. PrepareReinstall(machine[r.name], lastAttempt + 1) \in MachineRows
    BY <1>0, RowTransformations DEF DeployEvents
  <2>2. Request("redeploy", "write", r.name, Unenrolled,
                PrepareReinstall(machine[r.name], lastAttempt + 1)) \in Reqs
    BY <1>0, <2>1, RequestTyped DEF RequestKinds, Steps
  <2>3. req' \in [Handlers -> Reqs]
    BY <1>2, <2>2, KeepTyped DEF RedeployRead
  <2>4. QED BY <1>0, <1>2, <2>3 DEF RedeployRead, TypeOK, tables, world, history
<1>3. CASE WriteRow(p)
  <2>1. machine' \in [Machines -> MachineRows]
    BY <1>0, <1>3, UpsertTyped DEF WriteRow
  <2>2. req' \in [Handlers -> Reqs]
    BY <1>3, FinishTyped DEF WriteRow
  <2>3. QED BY <1>3, <2>1, <2>2 DEF WriteRow, TypeOK, world, history
<1>4. CASE Abort(p)
  <2>1. req' \in [Handlers -> Reqs]
    BY <1>4, FinishTyped DEF Abort
  <2>2. QED BY <1>4, <2>1 DEF Abort, TypeOK, tables, world, history
<1>5. ASSUME NEW q \in Pools, RegisterInsert(p, q) PROVE TypeOK'
  <2>1. Enrolled(q, host[r.name].born) \in HostRows
    BY <1>0, Rows, Enrollments
  <2>2. host' \in [Machines -> HostRows]
    BY <1>0, <1>5, <2>1 DEF RegisterInsert, TypeOK
  <2>3. req' \in [Handlers -> Reqs]
    BY <1>5, FinishTyped DEF RegisterInsert
  <2>4. QED BY <1>5, <2>2, <2>3 DEF RegisterInsert, TypeOK, world, history
<1>6. ASSUME NEW n \in Machines, RegisterCheck(p, n) PROVE TypeOK'
  <2>1. Request("register", "checked", n, Unenrolled, UnprovisionedRow) \in Reqs
    BY <1>0, RequestTyped DEF RequestKinds, Steps
  <2>2. req' \in [Handlers -> Reqs]
    BY <1>6, <2>1, KeepTyped DEF RegisterCheck, Begin
  <2>3. QED BY <1>6, <2>2 DEF RegisterCheck, TypeOK, tables, world, history
<1>7. ASSUME NEW n \in Machines, NEW kind \in {"redeploy", "settings"},
             ProtectAllocated(p, kind, n)
      PROVE  TypeOK'
  <2>1. kind \in RequestKinds /\ "checked" \in Steps
    BY DEF RequestKinds, Steps
  <2>2. Request(kind, "checked", n, Unenrolled, UnprovisionedRow) \in Reqs
    BY <1>0, <2>1, RequestTyped
  <2>3. req' \in [Handlers -> Reqs]
    BY <1>7, <2>2, KeepTyped DEF ProtectAllocated, Begin
  <2>4. QED BY <1>7, <2>3 DEF ProtectAllocated, TypeOK, tables, world, history
<1>8. QED
  BY <1>1, <1>2, <1>3, <1>4, <1>5, <1>6, <1>7 DEF OrdinaryHandler

LEMMA CallbackTyped ==
  ASSUME TypeOK, NEW p \in Handlers, Callback(p)
  PROVE  TypeOK'
<1> DEFINE r == req[p]
<1>0. /\ Unenrolled \in HostRows /\ r.name \in Machines /\ r.row.attempt \in Nat
      /\ \A n \in Machines : machine[n] \in MachineRows /\ machine[n].token \in Nat
  <2>1. \A n \in Machines : machine[n].token \in Nat
    BY Rows DEF MachineRows
  <2>2. QED BY <2>1, ConstantRows, Fields, Rows
<1>1. ASSUME NEW kind \in Callbacks, NEW n \in Machines, NEW row \in MachineRows,
             BeginWrite(p, kind, n, row)
      PROVE  req' \in [Handlers -> Reqs]
  <2>1. kind \in RequestKinds /\ "write" \in Steps
    BY DEF RequestKinds, Steps
  <2>2. Request(kind, "write", n, Unenrolled, row) \in Reqs
    BY <1>0, <2>1, RequestTyped
  <2>3. QED BY <1>1, <2>2, KeepTyped DEF BeginWrite, Begin
<1>2. CASE InventoryReread(p)
  <2>1. WithInventory(machine[r.name], r.row.attempt) \in MachineRows
    BY <1>0, RowTransformations DEF DeployEvents
  <2>2. Request("inventory", "write", r.name, Unenrolled,
                WithInventory(machine[r.name], r.row.attempt)) \in Reqs
    BY <1>0, <2>1, RequestTyped DEF RequestKinds, Callbacks, Steps
  <2>3. req' \in [Handlers -> Reqs]
    BY <1>2, <2>2, KeepTyped DEF InventoryReread
  <2>4. QED BY <1>2, <2>3 DEF InventoryReread, TypeOK, tables, world, history
<1>3. ASSUME NEW n \in Machines, NEW event \in DeployEvents, DeployEvent(p, event, n)
      PROVE  TypeOK'
  <2>1. ApplyEvent(machine[n], event) \in MachineRows /\ event \in Callbacks
    BY <1>0, RowTransformations DEF Callbacks
  <2>2. req' \in [Handlers -> Reqs]
    BY <1>1, <1>3, <2>1 DEF DeployEvent
  <2>3. restored' \subseteq Nat
    BY <1>0, <1>3 DEF DeployEvent, TypeOK
  <2>4. QED BY <1>3, <2>2, <2>3 DEF DeployEvent, BeginWrite, TypeOK, tables, history
<1>4. ASSUME NEW n \in Machines, InstallComplete(p, n) PROVE TypeOK'
  <2>1. Completed(machine[n]) \in MachineRows /\ "complete" \in Callbacks
    BY <1>0, RowTransformations DEF Callbacks, DeployEvents
  <2>2. req' \in [Handlers -> Reqs]
    BY <1>1, <1>4, <2>1 DEF InstallComplete
  <2>3. booted' \subseteq Nat
    BY <1>0, <1>4 DEF InstallComplete, TypeOK
  <2>4. QED BY <1>4, <2>2, <2>3 DEF InstallComplete, BeginWrite, TypeOK, tables, history
<1>5. ASSUME NEW n \in Machines, Marker(p, n) PROVE TypeOK'
  <2>1. machine[n] \in MachineRows /\ "marker" \in Callbacks
    BY <1>0 DEF Callbacks
  <2>2. req' \in [Handlers -> Reqs]
    BY <1>1, <1>5, <2>1 DEF Marker
  <2>3. QED BY <1>5, <2>2 DEF Marker, BeginWrite, TypeOK, tables, world, history
<1>6. ASSUME NEW n \in Machines, InventoryRead(p, n) PROVE TypeOK'
  <2>1. Request("inventory", "checked", n, Unenrolled, machine[n]) \in Reqs
    BY <1>0, RequestTyped DEF RequestKinds, Callbacks, Steps
  <2>2. req' \in [Handlers -> Reqs]
    BY <1>6, <2>1, KeepTyped DEF InventoryRead, Begin
  <2>3. QED BY <1>6, <2>2 DEF InventoryRead, TypeOK, tables, world, history
<1>7. QED BY <1>2, <1>3, <1>4, <1>5, <1>6 DEF Callback

\* The administrator's single-statement requests and the reconciler.
LEMMA OtherStepsTyped ==
  ASSUME TypeOK,
         \/ \E n \in Machines : Unregister(n) \/ \E q \in Pools : UpdatePool(n, q)
         \/ Reconciler
  PROVE  TypeOK'
<1>0. /\ Unenrolled \in HostRows /\ NoRow \in Listings
      /\ \A n \in Machines : machine[n] \in MachineRows /\ listed[n].row \in MachineRows
  BY ConstantRows, Rows
<1>1. ASSUME NEW n \in Machines, Unregister(n) PROVE TypeOK'
  <2>1. SealFor(machine[n], None, FALSE) \in MachineRows
    BY <1>0, RowTransformations DEF DeployEvents
  <2>2. Unregistered(host[n]) \in HostRows
    BY Rows, Enrollments, ConstantsAssumption
  <2>3. QED BY <1>0, <1>1, <2>1, <2>2 DEF Unregister, TypeOK, world, history
<1>2. ASSUME NEW n \in Machines, NEW q \in Pools, UpdatePool(n, q) PROVE TypeOK'
  <2>1. Repooled(host[n], q) \in HostRows
    BY Rows, HostTransformations
  <2>2. QED BY <1>2, <2>1 DEF UpdatePool, TypeOK, world, history
<1>3. CASE SyncList
  <2>1. \A n \in Machines : [pending |-> TRUE, row |-> machine[n]] \in Listings
    BY <1>0 DEF Listings
  <2>2. listed' \in [Machines -> Listings]
    BY <1>0, <1>3, <2>1 DEF SyncList
  <2>3. QED BY <1>3, <2>2 DEF SyncList, TypeOK, tables, world, history
<1>4. CASE SyncStop
  <2>1. listed' \in [Machines -> Listings]
    BY <1>0, <1>4 DEF SyncStop
  <2>2. QED BY <1>4, <2>1 DEF SyncStop, TypeOK, tables, world, history
<1>5. ASSUME NEW n \in Machines, SyncTimeout(n) PROVE TypeOK'
  <2>1. TimedOut(listed[n].row) \in MachineRows
    BY <1>0, RowTransformations DEF DeployEvents
  <2>2. machine' \in [Machines -> MachineRows]
    BY <1>5, <2>1, UpsertTyped DEF SyncTimeout
  <2>3. QED BY <1>0, <1>5, <2>2 DEF SyncTimeout, SyncEnds, TypeOK, world, history
<1>6. ASSUME NEW n \in Machines, SyncInTime(n) PROVE TypeOK'
  <2>1. \A row \in SyncStates(listed[n].row) : row \in MachineRows
    BY <1>0, RowTransformations DEF DeployEvents
  <2>2. machine' \in [Machines -> MachineRows]
    <3>1. CASE UNCHANGED machine
      BY <3>1 DEF TypeOK
    <3>2. ASSUME NEW row \in SyncStates(listed[n].row), UpsertMachine(n, row)
          PROVE  machine' \in [Machines -> MachineRows]
      BY <2>1, <3>2, UpsertTyped
    <3>3. QED BY <1>6, <3>1, <3>2 DEF SyncInTime
  <2>3. QED BY <1>0, <1>6, <2>2 DEF SyncInTime, SyncEnds, TypeOK, world, history
<1>7. QED BY <1>1, <1>2, <1>3, <1>4, <1>5, <1>6 DEF Reconciler

LEMMA TypeStep == TypeOK /\ [Next]_vars => TypeOK'
<1> SUFFICES ASSUME TypeOK, [Next]_vars PROVE TypeOK'
  OBVIOUS
<1>1. CASE UNCHANGED vars
  BY <1>1 DEF vars, TypeOK
<1>2. CASE Next
  BY <1>2, ClaimHandlerTyped, OrdinaryHandlerTyped, CallbackTyped, OtherStepsTyped DEF Next
<1>3. QED BY <1>1, <1>2

LEMMA TypeInit == Init => TypeOK
BY ConstantRows DEF Init, TypeOK

\* Tables, snapshots and histories stay within their types, whatever mix of
\* requests, callbacks, crashes and reconciler passes runs.
THEOREM TypeCorrect == Spec => []TypeOK
BY TypeInit, TypeStep, PTL DEF Spec
----------------------------------------------------------------------------
(* The fence.  Every copy of a machine row, in the table, in the reconciler's
   list or in a running request, is good: it names attempts that were drawn,
   carries the token of the claim's attempt if it carries that attempt, and its
   evidence is genuine. *)

GoodIn(row, a, last, R, B) ==
  /\ row.attempt <= last /\ row.token <= last
  /\ row.attempt # NoAttempt /\ row.attempt = a => row.token = a
  /\ row.applied => row.token \in R
  /\ row.completed => row.token \in B

Good(n, row) == GoodIn(row, host[n].attempt, lastAttempt, restored, booted)

HostInv(n) ==
  /\ host[n].owner = None => host[n].attempt = NoAttempt
  /\ host[n].attempt <= lastAttempt
  /\ host[n].attempt # NoAttempt =>
       machine[n].attempt = host[n].attempt /\ machine[n].token = host[n].attempt

FenceInv ==
  /\ TypeOK
  /\ \A n \in Machines : HostInv(n) /\ Good(n, machine[n]) /\ Good(n, listed[n].row)
  /\ \A p \in Handlers : Good(req[p].name, req[p].row)

\* A good row stays good while attempts are drawn, evidence accumulates, and the
\* host keeps its attempt, loses it, or gets one that was never drawn before.
LEMMA GoodKept ==
  ASSUME NEW row \in MachineRows, NEW a \in Nat, NEW b \in Nat,
         NEW last \in Nat, NEW next \in Nat, NEW R, NEW S, NEW B, NEW C,
         GoodIn(row, a, last, R, B),
         last <= next, R \subseteq S, B \subseteq C,
         b = a \/ b = NoAttempt \/ b > last
  PROVE  GoodIn(row, b, next, S, C)
<1>1. row.attempt \in Nat /\ row.token \in Nat
  BY DEF MachineRows
<1>2. row.attempt <= next /\ row.token <= next
  BY <1>1 DEF GoodIn
<1>3. row.attempt # NoAttempt /\ row.attempt = b => row.token = b
  BY <1>1 DEF GoodIn
<1>4. (row.applied => row.token \in S) /\ (row.completed => row.token \in C)
  BY DEF GoodIn
<1>5. QED BY <1>2, <1>3, <1>4 DEF GoodIn

\* What the handlers make of a good row is good.
LEMMA GoodTransformations ==
  ASSUME NEW row \in MachineRows, NEW a \in Nat, NEW last \in Nat, NEW R, NEW B,
         NEW o \in Owners \cup {None}, NEW w \in BOOLEAN, NEW event \in DeployEvents,
         NEW k \in Nat,
         GoodIn(row, a, last, R, B)
  PROVE  /\ GoodIn(SealFor(row, o, w), a, last, R, B)
         /\ GoodIn(TimedOut(row), a, last, R, B)
         /\ \A m \in SyncStates(row) : GoodIn(m, a, last, R, B)
         /\ (event = "image_applied" => row.token \in R) =>
              GoodIn(ApplyEvent(row, event), a, last, R, B)
         /\ row.token \in B => GoodIn(Completed(row), a, last, R, B)
         /\ k <= last /\ (k # NoAttempt /\ k = a => row.token = a) =>
              GoodIn(WithInventory(row, k), a, last, R, B)
<1>1. GoodIn(SealFor(row, o, w), a, last, R, B)
  BY DEF GoodIn, SealFor, MachineRows
<1>2. GoodIn(TimedOut(row), a, last, R, B)
  BY DEF GoodIn, TimedOut, MachineRows
<1>3. \A m \in SyncStates(row) : GoodIn(m, a, last, R, B)
  BY DEF GoodIn, SyncStates, MachineRows
<1>4. (event = "image_applied" => row.token \in R) =>
        GoodIn(ApplyEvent(row, event), a, last, R, B)
  BY DEF GoodIn, ApplyEvent, MachineRows, DeployEvents
<1>5. row.token \in B => GoodIn(Completed(row), a, last, R, B)
  BY DEF GoodIn, Completed, MachineRows
<1>6. k <= last /\ (k # NoAttempt /\ k = a => row.token = a) =>
        GoodIn(WithInventory(row, k), a, last, R, B)
  BY DEF GoodIn, WithInventory, MachineRows
<1>7. QED BY <1>1, <1>2, <1>3, <1>4, <1>5, <1>6

\* A new attempt starts with the next ID in both fields and without evidence.
LEMMA GoodReinstall ==
  ASSUME NEW row \in MachineRows, NEW a \in Nat, NEW k \in Nat, NEW R, NEW B
  PROVE  GoodIn(PrepareReinstall(row, k), a, k, R, B)
BY DEF GoodIn, PrepareReinstall, MachineRows

LEMMA GoodUnprovisioned ==
  ASSUME NEW a, NEW last \in Nat, NEW R, NEW B
  PROVE  GoodIn(UnprovisionedRow, a, last, R, B)
BY DEF GoodIn, UnprovisionedRow

\* What a step may do to the counters that rows refer to.
Grows ==
  /\ lastAttempt <= lastAttempt'
  /\ restored \subseteq restored' /\ booted \subseteq booted'
  /\ \A n \in Machines :
       \/ host'[n].attempt = host[n].attempt
       \/ host'[n].attempt = NoAttempt
       \/ host'[n].attempt > lastAttempt

NewGood(n, row) == GoodIn(row, host'[n].attempt, lastAttempt', restored', booted')

\* A step preserves the fence if the rows it adds are good and the hosts it
\* touches agree with their machines.
LEMMA FenceKept ==
  ASSUME FenceInv, TypeOK', Grows,
         \A n \in Machines : machine'[n] = machine[n] \/ NewGood(n, machine'[n]),
         \A n \in Machines : listed'[n].row = listed[n].row \/ NewGood(n, listed'[n].row),
         \A p \in Handlers : req'[p] = req[p] \/ NewGood(req'[p].name, req'[p].row),
         \A n \in Machines :
           /\ host'[n].owner = None => host'[n].attempt = NoAttempt
           /\ host'[n].attempt <= lastAttempt'
           /\ host'[n].attempt # NoAttempt =>
                machine'[n].attempt = host'[n].attempt /\ machine'[n].token = host'[n].attempt
  PROVE  FenceInv'
<1>1. ASSUME NEW n \in Machines, NEW row \in MachineRows, Good(n, row)
      PROVE  NewGood(n, row)
  <2>1. host[n].attempt \in Nat /\ host'[n].attempt \in Nat
    BY DEF FenceInv, TypeOK, HostRows
  <2>2. lastAttempt \in Nat /\ lastAttempt' \in Nat
    BY DEF FenceInv, TypeOK
  <2>3. \/ host'[n].attempt = host[n].attempt \/ host'[n].attempt = NoAttempt
        \/ host'[n].attempt > lastAttempt
    BY DEF Grows
  <2>4. QED BY <1>1, <2>1, <2>2, <2>3, GoodKept DEF Good, NewGood, Grows
<1>2. \A n \in Machines : machine[n] \in MachineRows /\ listed[n].row \in MachineRows
  BY Rows DEF FenceInv
<1>3. \A p \in Handlers : req[p].name \in Machines /\ req[p].row \in MachineRows
  BY Fields DEF FenceInv
<1>4. \A n \in Machines : NewGood(n, machine'[n]) /\ NewGood(n, listed'[n].row)
  BY <1>1, <1>2 DEF FenceInv
<1>5. \A p \in Handlers : NewGood(req'[p].name, req'[p].row)
  BY <1>1, <1>3 DEF FenceInv
<1>6. \A n \in Machines : HostInv(n)'
  BY DEF HostInv
<1>7. QED BY <1>4, <1>5, <1>6 DEF FenceInv, Good, NewGood

\* Requests that end, or keep a row that is good, disturb nothing.
ReqRowsGood ==
  \A p \in Handlers : req'[p] = req[p] \/ NewGood(req'[p].name, req'[p].row)

LEMMA FinishGood ==
  ASSUME TypeOK, TypeOK', NEW p \in Handlers, Finish(p)
  PROVE  ReqRowsGood
<1>1. NewGood(Idle.name, Idle.row)
  BY GoodUnprovisioned DEF NewGood, Idle, Request, TypeOK
<1>2. req' = [req EXCEPT ![p] = Idle] /\ req \in [Handlers -> Reqs]
  BY DEF Finish, Keep, TypeOK
<1>3. QED BY <1>1, <1>2 DEF ReqRowsGood

LEMMA KeepGood ==
  ASSUME TypeOK, NEW p \in Handlers, NEW kind, NEW step, NEW n, NEW h, NEW m,
         Keep(p, Request(kind, step, n, h, m)), NewGood(n, m)
  PROVE  ReqRowsGood
<1> DEFINE r == Request(kind, step, n, h, m)
<1>1. r.name = n /\ r.row = m
  BY DEF Request
<1>2. req' = [req EXCEPT ![p] = r] /\ req \in [Handlers -> Reqs]
  BY DEF Keep, TypeOK
<1> HIDE DEF r
<1>3. QED BY <1>1, <1>2 DEF ReqRowsGood

\* Steps that leave both tables alone.
LEMMA FenceRequestStep ==
  ASSUME FenceInv, TypeOK', ReqRowsGood,
         UNCHANGED <<host, machine>>, lastAttempt <= lastAttempt',
         restored \subseteq restored', booted \subseteq booted',
         \A n \in Machines : listed'[n].row = listed[n].row \/ NewGood(n, listed'[n].row)
  PROVE  FenceInv'
<1>1. Grows
  BY DEF Grows
<1>2. \A n \in Machines : HostInv(n)
  BY DEF FenceInv
<1>3. \A n \in Machines : host[n].attempt \in Nat /\ lastAttempt \in Nat /\ lastAttempt' \in Nat
  BY DEF FenceInv, TypeOK, HostRows
<1>4. \A n \in Machines :
        /\ host'[n].owner = None => host'[n].attempt = NoAttempt
        /\ host'[n].attempt <= lastAttempt'
        /\ host'[n].attempt # NoAttempt =>
             machine'[n].attempt = host'[n].attempt /\ machine'[n].token = host'[n].attempt
  BY <1>2, <1>3 DEF HostInv
<1>5. QED BY <1>1, <1>4, FenceKept DEF ReqRowsGood

\* Guarded UPDATEs of one host that keep its attempt or clear it.
LEMMA FenceHostStep ==
  ASSUME FenceInv, TypeOK', ReqRowsGood, NEW n \in Machines, NEW h \in HostRows,
         host' = host \/ host' = [host EXCEPT ![n] = h],
         h.attempt \in {host[n].attempt, NoAttempt},
         h.owner = None => h.attempt = NoAttempt,
         UNCHANGED <<machine, listed, lastAttempt, restored, booted>>
  PROVE  FenceInv'
<1>1. host \in [Machines -> HostRows]
  BY DEF FenceInv, TypeOK
<1>2. Grows
  BY <1>1 DEF Grows, FenceInv, TypeOK
<1>3. \A k \in Machines : HostInv(k)
  BY DEF FenceInv
<1>4. lastAttempt \in Nat
  BY DEF FenceInv, TypeOK
<1>5. ASSUME NEW k \in Machines
      PROVE  /\ host'[k].owner = None => host'[k].attempt = NoAttempt
             /\ host'[k].attempt <= lastAttempt'
             /\ host'[k].attempt # NoAttempt =>
                  machine'[k].attempt = host'[k].attempt /\ machine'[k].token = host'[k].attempt
  <2>1. CASE host'[k] = host[k]
    BY <1>3, <2>1 DEF HostInv
  <2>2. CASE k = n /\ host'[k] = h
    BY <1>3, <1>4, <2>2 DEF HostInv
  <2>3. QED BY <1>1, <2>1, <2>2
<1>6. QED BY <1>2, <1>5, FenceKept DEF ReqRowsGood

\* CommitDeployment of a newly prepared attempt.
LEMMA FenceCommitStep ==
  ASSUME FenceInv, TypeOK', ReqRowsGood, NEW n \in Machines, NEW h, NEW x \in MachineRows,
         CommitDeployment(n, h, PrepareReinstall(x, lastAttempt + 1)),
         UNCHANGED <<listed, restored, booted>>
  PROVE  FenceInv'
<1> DEFINE m == PrepareReinstall(x, lastAttempt + 1)
           k == lastAttempt + 1
<1>1. lastAttempt \in Nat /\ k \in Nat /\ k > lastAttempt /\ k # 0
  BY DEF FenceInv, TypeOK
<1>2. m.attempt = k /\ m.token = k
  BY DEF PrepareReinstall, MachineRows
<1>3. CASE UNCHANGED <<host, machine, lastAttempt, wipes, lastDeploy, crossed>>
  <2>1. lastAttempt <= lastAttempt'
    BY <1>1, <1>3
  <2>2. QED BY <1>3, <2>1, FenceRequestStep
<1>4. CASE CommitAllowed(n, h, m)
  <2>1. /\ host' = [host EXCEPT ![n] = Advance(host[n], DeploymentState(m), m.attempt)]
        /\ machine' = [machine EXCEPT ![n] = m]
        /\ lastAttempt' = m.attempt
    BY <1>4 DEF CommitDeployment
  <2>2. /\ host \in [Machines -> HostRows] /\ machine \in [Machines -> MachineRows]
        /\ host[n].owner # None
    BY <1>4 DEF FenceInv, TypeOK, CommitAllowed
  <2>3. /\ Advance(host[n], DeploymentState(m), m.attempt).attempt = k
        /\ Advance(host[n], DeploymentState(m), m.attempt).owner = host[n].owner
    BY <1>2, <2>2 DEF Advance, HostRows
  <2>4. NewGood(n, m)
    <3>1. host'[n].attempt \in Nat /\ lastAttempt' = k
      BY <1>1, <1>2, <2>1, <2>2, <2>3
    <3>2. QED BY <1>1, <3>1, GoodReinstall DEF NewGood
  <2> HIDE DEF m, k
  <2>5. Grows
    BY <1>1, <1>2, <2>1, <2>2, <2>3 DEF Grows
  <2>6. \A j \in Machines : HostInv(j)
    BY DEF FenceInv
  <2>7. \A j \in Machines : machine'[j] = machine[j] \/ NewGood(j, machine'[j])
    BY <2>1, <2>2, <2>4
  <2>8. ASSUME NEW j \in Machines
        PROVE  /\ host'[j].owner = None => host'[j].attempt = NoAttempt
               /\ host'[j].attempt <= lastAttempt'
               /\ host'[j].attempt # NoAttempt =>
                    machine'[j].attempt = host'[j].attempt /\ machine'[j].token = host'[j].attempt
    <3>1. CASE j = n
      BY <1>1, <1>2, <2>1, <2>2, <2>3, <3>1
    <3>2. CASE j # n
      <4>1. host'[j] = host[j] /\ machine'[j] = machine[j] /\ host[j].attempt \in Nat
        BY <2>1, <2>2, <3>2 DEF HostRows
      <4>2. QED BY <1>1, <1>2, <2>1, <2>6, <4>1 DEF HostInv
    <3>3. QED BY <3>1, <3>2
  <2>9. QED BY <2>5, <2>7, <2>8, FenceKept DEF ReqRowsGood
<1>5. QED BY <1>3, <1>4 DEF CommitDeployment

\* Upsert of a good row: the WHERE clause refuses it exactly when it would break
\* the fence.
LEMMA FenceUpsertStep ==
  ASSUME FenceInv, TypeOK', ReqRowsGood, NEW n \in Machines, NEW row \in MachineRows,
         UpsertMachine(n, row), Good(n, row),
         \A k \in Machines : listed'[k].row = listed[k].row \/ NewGood(k, listed'[k].row),
         UNCHANGED <<host, lastAttempt, restored, booted>>
  PROVE  FenceInv'
<1>1. machine \in [Machines -> MachineRows]
  BY DEF FenceInv, TypeOK
<1>2. Grows
  BY DEF Grows, FenceInv, TypeOK
<1>3. NewGood(n, row)
  BY DEF Good, NewGood
<1>4. \A k \in Machines : machine'[k] = machine[k] \/ NewGood(k, machine'[k])
  BY <1>1, <1>3 DEF UpsertMachine
<1>5. \A k \in Machines : HostInv(k)
  BY DEF FenceInv
<1>6. ASSUME NEW k \in Machines, host[k].attempt # NoAttempt
      PROVE  machine'[k].attempt = host[k].attempt /\ machine'[k].token = host[k].attempt
  <2>1. CASE machine'[k] = machine[k]
    BY <1>5, <1>6, <2>1 DEF HostInv
  <2>2. CASE k = n /\ UpsertAllowed(n, row) /\ machine'[k] = row
    BY <1>5, <1>6, <2>2 DEF HostInv, UpsertAllowed, Owned, Good, GoodIn
  <2>3. QED BY <1>1, <2>1, <2>2 DEF UpsertMachine
<1>7. \A k \in Machines :
        /\ host'[k].owner = None => host'[k].attempt = NoAttempt
        /\ host'[k].attempt <= lastAttempt'
        /\ host'[k].attempt # NoAttempt =>
             machine'[k].attempt = host'[k].attempt /\ machine'[k].token = host'[k].attempt
  BY <1>5, <1>6 DEF HostInv
<1>8. QED BY <1>2, <1>4, <1>7, FenceKept DEF ReqRowsGood

LEMMA FenceClaimHandler ==
  ASSUME FenceInv, NEW p \in Handlers, ClaimHandler(p)
  PROVE  FenceInv'
<1> DEFINE r == req[p]
           n == r.name
<1>0. TypeOK /\ TypeOK'
  BY ClaimHandlerTyped DEF FenceInv
<1>1. /\ n \in Machines /\ r.host \in HostRows /\ r.row \in MachineRows
      /\ r.host.owner \in Owners \cup {None} /\ r.host.attempt \in Nat
      /\ \A k \in Machines : host[k] \in HostRows /\ machine[k] \in MachineRows
      /\ lastAttempt \in Nat /\ lastAttempt' \in Nat
  BY <1>0, Fields, Rows DEF TypeOK
<1>2. \A k : NewGood(k, UnprovisionedRow)
  BY <1>1, GoodUnprovisioned DEF NewGood
<1>3. ASSUME NEW o \in Owners, NEW q \in Pools, AcquireLookup(p, o, q) PROVE FenceInv'
  <2>1. ReqRowsGood
    BY <1>0, <1>2, <1>3, KeepGood DEF AcquireLookup, Begin
  <2>2. QED BY <1>0, <1>1, <1>3, <2>1, FenceRequestStep DEF AcquireLookup, tables, world
<1>4. ASSUME NEW k \in Machines, AcquireUpdate(p, k) PROVE FenceInv'
  <2> DEFINE h == Claimed(host[k], r.host.owner)
  <2>1. h \in HostRows /\ h.attempt = host[k].attempt
    <3>1. h \in HostRows
      BY <1>1, HostTransformations, ConstantsAssumption
    <3>2. QED BY <1>1, <3>1 DEF Claimed, Advance, HostRows
  <2>2. \/ host' = host
        \/ host' = [host EXCEPT ![k] = h] /\ host[k].owner = None
    BY <1>4 DEF AcquireUpdate, FirstAvailable, Owned
  <2>3. ReqRowsGood
    BY <1>0, <1>4, FinishGood DEF AcquireUpdate
  <2>4. host[k].owner = None => host[k].attempt = NoAttempt
    BY DEF FenceInv, HostInv
  <2> HIDE DEF h
  <2>5. CASE host' = host
    BY <1>0, <1>1, <1>4, <2>3, <2>5, FenceRequestStep DEF AcquireUpdate, world
  <2>6. CASE host' = [host EXCEPT ![k] = h] /\ host[k].owner = None
    BY <1>0, <1>4, <2>1, <2>3, <2>4, <2>6, FenceHostStep DEF AcquireUpdate, world
  <2>7. QED BY <2>2, <2>5, <2>6
<1>5. CASE GetMachine(p)
  <2>1. NewGood(n, machine[n])
    BY <1>1, <1>5 DEF GetMachine, tables, world, FenceInv, Good, NewGood
  <2>2. ReqRowsGood
    BY <1>0, <1>5, <2>1, KeepGood DEF GetMachine
  <2>3. QED BY <1>0, <1>1, <1>5, <2>2, FenceRequestStep DEF GetMachine, tables, world
<1>6. CASE SettleClaim(p)
  <2>1. ReqRowsGood
    BY <1>0, <1>6, FinishGood DEF SettleClaim
  <2>2. PICK next \in {"Ready", "Failed"} :
          \/ host' = host
          \/ host' = [host EXCEPT ![n] = Released(host[n])]
          \/ /\ host' = [host EXCEPT ![n] = Advance(host[n], next, r.host.attempt)]
             /\ TransitionAllowed(n, r.host, next, r.host.attempt)
    BY <1>6 DEF SettleClaim
  <2>3. CASE host' = host
    BY <1>0, <1>1, <1>6, <2>1, <2>3, FenceRequestStep DEF SettleClaim, world
  <2>4. CASE host' = [host EXCEPT ![n] = Released(host[n])]
    <3>1. Released(host[n]) \in HostRows /\ Released(host[n]).attempt = NoAttempt
      <4>1. Released(host[n]) \in HostRows
        BY <1>1, HostTransformations, ConstantsAssumption
      <4>2. QED BY <1>1, <4>1 DEF Released, Advance, HostRows
    <3>2. QED BY <1>0, <1>1, <1>6, <2>1, <2>4, <3>1, FenceHostStep DEF SettleClaim, world
  <2>5. CASE /\ host' = [host EXCEPT ![n] = Advance(host[n], next, r.host.attempt)]
             /\ TransitionAllowed(n, r.host, next, r.host.attempt)
    <3> DEFINE h == Advance(host[n], next, r.host.attempt)
    <3>1. host[n].attempt = r.host.attempt /\ host[n].owner # None
      BY <2>5 DEF TransitionAllowed, ValidTransition
    <3>2. h \in HostRows /\ h.attempt = host[n].attempt /\ h.owner = host[n].owner
      <4>1. h \in HostRows
        BY <1>1, AdvanceTyped DEF States
      <4>2. QED BY <1>1, <3>1, <4>1 DEF Advance, HostRows
    <3> HIDE DEF h
    <3>3. host' = [host EXCEPT ![n] = h]
      BY <2>5 DEF h
    <3>4. QED BY <1>0, <1>1, <1>6, <2>1, <3>1, <3>2, <3>3, FenceHostStep DEF SettleClaim, world
  <2>6. QED BY <2>2, <2>3, <2>4, <2>5
<1>7. CASE DeployClaim(p)
  <2>1. SealFor(r.row, r.host.owner, FALSE) \in MachineRows
    BY <1>1, RowTransformations DEF DeployEvents
  <2>2. ReqRowsGood
    BY <1>0, <1>7, FinishGood DEF DeployClaim
  <2>3. QED BY <1>0, <1>1, <1>7, <2>1, <2>2, FenceCommitStep DEF DeployClaim, world
<1>8. CASE ReleaseClaimed(p)
  <2> DEFINE h == Advance(host[n], "Releasing", NoAttempt)
  <2>1. h \in HostRows /\ h.attempt = NoAttempt
    <3>1. h \in HostRows
      BY <1>1, AdvanceTyped DEF States
    <3>2. QED BY <1>1, <3>1 DEF Advance, HostRows
  <2>2. host' = host \/ host' = [host EXCEPT ![n] = h]
    BY <1>8 DEF ReleaseClaimed
  <2>3. ReqRowsGood
    BY <1>0, <1>2, <1>8, FinishGood, KeepGood DEF ReleaseClaimed
  <2> HIDE DEF h
  <2>4. QED BY <1>0, <1>1, <1>8, <2>1, <2>2, <2>3, FenceHostStep DEF ReleaseClaimed, world
<1>9. CASE CompleteClaimedRelease(p)
  <2>1. Released(host[n]) \in HostRows /\ Released(host[n]).attempt = NoAttempt
    <3>1. Released(host[n]) \in HostRows
      BY <1>1, HostTransformations, ConstantsAssumption
    <3>2. QED BY <1>1, <3>1 DEF Released, Advance, HostRows
  <2>2. host' = host \/ host' = [host EXCEPT ![n] = Released(host[n])]
    BY <1>9 DEF CompleteClaimedRelease
  <2>3. ReqRowsGood
    BY <1>0, <1>9, FinishGood DEF CompleteClaimedRelease
  <2>4. QED BY <1>0, <1>1, <1>9, <2>1, <2>2, <2>3, FenceHostStep DEF CompleteClaimedRelease, world
<1>10. CASE CleanupClaim(p)
  <2> DEFINE x == SealFor(r.row, r.host.owner, TRUE)
  <2>1. x \in MachineRows
    BY <1>1, RowTransformations DEF DeployEvents
  <2>2. ReqRowsGood
    BY <1>0, <1>10, FinishGood DEF CleanupClaim
  <2>3. \/ CommitDeployment(n, r.host, PrepareReinstall(x, lastAttempt + 1))
        \/ UNCHANGED <<host, machine, lastAttempt>>
    BY <1>10 DEF CleanupClaim, tables, history
  <2> HIDE DEF x
  <2>4. CASE CommitDeployment(n, r.host, PrepareReinstall(x, lastAttempt + 1))
    BY <1>0, <1>1, <1>10, <2>1, <2>2, <2>4, FenceCommitStep DEF CleanupClaim, world
  <2>5. CASE UNCHANGED <<host, machine, lastAttempt>>
    BY <1>0, <1>1, <1>10, <2>2, <2>5, FenceRequestStep DEF CleanupClaim, world
  <2>6. QED BY <2>3, <2>4, <2>5
<1>11. CASE RetryClaim(p)
  <2>1. ReqRowsGood
    BY <1>0, <1>11, FinishGood DEF RetryClaim
  <2>2. \/ CommitDeployment(n, r.host, PrepareReinstall(r.row, lastAttempt + 1))
        \/ UNCHANGED <<host, machine, lastAttempt>>
    BY <1>11 DEF RetryClaim, tables, history
  <2>3. CASE CommitDeployment(n, r.host, PrepareReinstall(r.row, lastAttempt + 1))
    BY <1>0, <1>1, <1>11, <2>1, <2>3, FenceCommitStep DEF RetryClaim, world
  <2>4. CASE UNCHANGED <<host, machine, lastAttempt>>
    BY <1>0, <1>1, <1>11, <2>1, <2>4, FenceRequestStep DEF RetryClaim, world
  <2>5. QED BY <2>2, <2>3, <2>4
<1>12. ASSUME NEW kind \in {"get", "deploy", "delete", "retry"}, NEW k \in Machines,
              FindOwner(p, kind, k)
       PROVE  FenceInv'
  <2>1. ReqRowsGood
    BY <1>0, <1>2, <1>12, KeepGood DEF FindOwner, Begin
  <2>2. QED BY <1>0, <1>1, <1>12, <2>1, FenceRequestStep DEF FindOwner, tables, world
<1>13. QED
  BY <1>3, <1>4, <1>5, <1>6, <1>7, <1>8, <1>9, <1>10, <1>11, <1>12 DEF ClaimHandler

LEMMA FenceOrdinaryHandler ==
  ASSUME FenceInv, NEW p \in Handlers, OrdinaryHandler(p)
  PROVE  FenceInv'
<1> DEFINE r == req[p]
           n == r.name
<1>0. TypeOK /\ TypeOK'
  BY OrdinaryHandlerTyped DEF FenceInv
<1>1. /\ n \in Machines /\ r.row \in MachineRows /\ host[n] \in HostRows
      /\ machine[n] \in MachineRows /\ lastAttempt \in Nat /\ lastAttempt' \in Nat
  BY <1>0, Fields, Rows DEF TypeOK
<1>2. \A k : NewGood(k, UnprovisionedRow)
  BY <1>1, GoodUnprovisioned DEF NewGood
<1>3. CASE SettingsRead(p)
  <2>1. NewGood(n, machine[n])
    BY <1>1, <1>3 DEF SettingsRead, tables, world, FenceInv, Good, NewGood
  <2>2. ReqRowsGood
    BY <1>0, <1>3, <2>1, KeepGood DEF SettingsRead
  <2>3. QED BY <1>0, <1>1, <1>3, <2>2, FenceRequestStep DEF SettingsRead, tables, world
<1>4. CASE RedeployRead(p)
  <2>1. host'[n].attempt \in Nat /\ lastAttempt' = lastAttempt + 1
    BY <1>1, <1>4 DEF RedeployRead, tables, HostRows
  <2>2. NewGood(n, PrepareReinstall(machine[n], lastAttempt + 1))
    BY <1>1, <2>1, GoodReinstall DEF NewGood
  <2>3. ReqRowsGood
    BY <1>0, <1>4, <2>2, KeepGood DEF RedeployRead
  <2>4. lastAttempt <= lastAttempt'
    BY <1>1, <2>1
  <2>5. QED BY <1>0, <1>1, <1>4, <2>3, <2>4, FenceRequestStep DEF RedeployRead, tables, world
<1>5. CASE WriteRow(p)
  <2>1. ReqRowsGood
    BY <1>0, <1>5, FinishGood DEF WriteRow
  <2>2. Good(n, r.row)
    BY DEF FenceInv
  <2>3. QED BY <1>0, <1>1, <1>5, <2>1, <2>2, FenceUpsertStep DEF WriteRow, world
<1>6. CASE Abort(p)
  <2>1. ReqRowsGood
    BY <1>0, <1>6, FinishGood DEF Abort
  <2>2. QED BY <1>0, <1>1, <1>6, <2>1, FenceRequestStep DEF Abort, tables, world
<1>7. ASSUME NEW q \in Pools, RegisterInsert(p, q) PROVE FenceInv'
  <2> DEFINE e == Enrolled(q, host[n].born)
  <2>1. e \in HostRows /\ e.attempt = NoAttempt
    BY <1>0, <1>1, Rows, Enrollments
  <2>2. host' = host \/ host' = [host EXCEPT ![n] = e]
    BY <1>7 DEF RegisterInsert
  <2>3. ReqRowsGood
    BY <1>0, <1>7, FinishGood DEF RegisterInsert
  <2>4. QED BY <1>0, <1>1, <1>7, <2>1, <2>2, <2>3, FenceHostStep DEF RegisterInsert, world
<1>8. ASSUME NEW k \in Machines, RegisterCheck(p, k) PROVE FenceInv'
  <2>1. ReqRowsGood
    BY <1>0, <1>2, <1>8, KeepGood DEF RegisterCheck, Begin
  <2>2. QED BY <1>0, <1>1, <1>8, <2>1, FenceRequestStep DEF RegisterCheck, tables, world
<1>9. ASSUME NEW k \in Machines, NEW kind \in {"redeploy", "settings"},
             ProtectAllocated(p, kind, k)
      PROVE  FenceInv'
  <2>1. ReqRowsGood
    BY <1>0, <1>2, <1>9, KeepGood DEF ProtectAllocated, Begin
  <2>2. QED BY <1>0, <1>1, <1>9, <2>1, FenceRequestStep DEF ProtectAllocated, tables, world
<1>10. QED
  BY <1>3, <1>4, <1>5, <1>6, <1>7, <1>8, <1>9 DEF OrdinaryHandler

LEMMA FenceCallback ==
  ASSUME FenceInv, NEW p \in Handlers, Callback(p)
  PROVE  FenceInv'
<1> DEFINE r == req[p]
<1>0. TypeOK /\ TypeOK'
  BY CallbackTyped DEF FenceInv
<1>1. /\ r.name \in Machines /\ r.row \in MachineRows /\ r.row.attempt \in Nat
      /\ lastAttempt \in Nat
      /\ \A n \in Machines : /\ machine[n] \in MachineRows /\ host[n].attempt \in Nat
                             /\ Good(n, machine[n]) /\ HostInv(n)
  <2>1. \A n \in Machines : host[n].attempt \in Nat
    BY <1>0, Rows DEF HostRows
  <2>2. QED BY <1>0, <2>1, Fields, Rows DEF TypeOK, FenceInv
<1>2. CASE InventoryReread(p)
  <2> DEFINE n == r.name
             k == r.row.attempt
  <2>1. k <= lastAttempt /\ (k # NoAttempt /\ k = host[n].attempt => machine[n].token = host[n].attempt)
    BY <1>1 DEF FenceInv, HostInv, Good, GoodIn
  <2>2. GoodIn(WithInventory(machine[n], k), host[n].attempt, lastAttempt, restored, booted)
    <3> HIDE DEF k
    <3>1. k \in Nat
      BY <1>1 DEF k
    <3>2. QED BY <1>1, <2>1, <3>1, GoodTransformations DEF Good, DeployEvents
  <2>3. NewGood(n, WithInventory(machine[n], k))
    BY <1>2, <2>2 DEF InventoryReread, tables, world, NewGood
  <2>4. ReqRowsGood
    BY <1>0, <1>2, <2>3, KeepGood DEF InventoryReread
  <2>5. QED BY <1>0, <1>1, <1>2, <2>4, FenceRequestStep DEF InventoryReread, tables, world
<1>3. ASSUME NEW n \in Machines, NEW event \in DeployEvents, DeployEvent(p, event, n)
      PROVE  FenceInv'
  <2>1. /\ restored \subseteq restored' /\ booted' = booted
        /\ UNCHANGED <<host, machine, listed, lastAttempt>>
        /\ event = "image_applied" => machine[n].token \in restored'
    BY <1>3 DEF DeployEvent, BeginWrite, tables
  <2>2. GoodIn(machine[n], host[n].attempt, lastAttempt, restored', booted)
    BY <1>1, <2>1 DEF Good, GoodIn
  <2>3. GoodIn(ApplyEvent(machine[n], event), host[n].attempt, lastAttempt, restored', booted)
    BY <1>1, <2>1, <2>2, GoodTransformations
  <2>4. NewGood(n, ApplyEvent(machine[n], event))
    BY <2>1, <2>3 DEF NewGood
  <2>5. ReqRowsGood
    BY <1>0, <1>3, <2>4, KeepGood DEF DeployEvent, BeginWrite, Begin
  <2>6. QED BY <1>0, <1>1, <2>1, <2>5, FenceRequestStep
<1>4. ASSUME NEW n \in Machines, InstallComplete(p, n) PROVE FenceInv'
  <2>1. /\ booted \subseteq booted' /\ restored' = restored
        /\ UNCHANGED <<host, machine, listed, lastAttempt>>
        /\ machine[n].token \in booted'
    BY <1>4 DEF InstallComplete, BeginWrite, tables
  <2>2. GoodIn(machine[n], host[n].attempt, lastAttempt, restored, booted')
    BY <1>1, <2>1 DEF Good, GoodIn
  <2>3. GoodIn(Completed(machine[n]), host[n].attempt, lastAttempt, restored, booted')
    BY <1>1, <2>1, <2>2, GoodTransformations DEF DeployEvents
  <2>4. NewGood(n, Completed(machine[n]))
    BY <2>1, <2>3 DEF NewGood
  <2>5. ReqRowsGood
    BY <1>0, <1>4, <2>4, KeepGood DEF InstallComplete, BeginWrite, Begin
  <2>6. QED BY <1>0, <1>1, <2>1, <2>5, FenceRequestStep
<1>5. ASSUME NEW n \in Machines, Marker(p, n) PROVE FenceInv'
  <2>1. NewGood(n, machine[n])
    BY <1>1, <1>5 DEF Marker, BeginWrite, tables, world, Good, NewGood
  <2>2. ReqRowsGood
    BY <1>0, <1>5, <2>1, KeepGood DEF Marker, BeginWrite, Begin
  <2>3. QED BY <1>0, <1>1, <1>5, <2>2, FenceRequestStep DEF Marker, BeginWrite, tables, world
<1>6. ASSUME NEW n \in Machines, InventoryRead(p, n) PROVE FenceInv'
  <2>1. NewGood(n, machine[n])
    BY <1>1, <1>6 DEF InventoryRead, tables, world, Good, NewGood
  <2>2. ReqRowsGood
    BY <1>0, <1>6, <2>1, KeepGood DEF InventoryRead, Begin
  <2>3. QED BY <1>0, <1>1, <1>6, <2>2, FenceRequestStep DEF InventoryRead, tables, world
<1>7. QED BY <1>2, <1>3, <1>4, <1>5, <1>6 DEF Callback

LEMMA FenceOtherSteps ==
  ASSUME FenceInv,
         \/ \E n \in Machines : Unregister(n) \/ \E q \in Pools : UpdatePool(n, q)
         \/ Reconciler
  PROVE  FenceInv'
<1>0. TypeOK /\ TypeOK'
  BY OtherStepsTyped DEF FenceInv
<1>1. /\ lastAttempt \in Nat
      /\ \A n \in Machines : /\ machine[n] \in MachineRows /\ host[n] \in HostRows
                             /\ listed[n].row \in MachineRows /\ host[n].attempt \in Nat
                             /\ Good(n, machine[n]) /\ HostInv(n) /\ Good(n, listed[n].row)
  <2>1. \A n \in Machines : host[n].attempt \in Nat
    BY <1>0, Rows DEF HostRows
  <2>2. QED BY <1>0, <2>1, Rows DEF TypeOK, FenceInv
<1>2. \A n : NewGood(n, NoRow.row)
  BY <1>0, GoodUnprovisioned DEF NewGood, NoRow, TypeOK
<1>3. ASSUME NEW n \in Machines, Unregister(n) PROVE FenceInv'
  <2> DEFINE m == SealFor(machine[n], None, FALSE)
             u == Unregistered(host[n])
  <2>1. /\ host' = [host EXCEPT ![n] = u]
        /\ machine' = [machine EXCEPT ![n] = m]
        /\ UNCHANGED <<req, listed, lastAttempt, restored, booted>>
        /\ host[n].owner = None
    BY <1>3 DEF Unregister, world, Owned
  <2>2. host[n].attempt = NoAttempt /\ u.attempt = NoAttempt
    BY <1>1, <2>1, Enrollments, ConstantsAssumption DEF HostInv
  <2>3. /\ host \in [Machines -> HostRows] /\ machine \in [Machines -> MachineRows]
    BY <1>0 DEF TypeOK
  <2>4. GoodIn(m, host[n].attempt, lastAttempt, restored, booted)
    BY <1>1, GoodTransformations DEF Good, DeployEvents
  <2> HIDE DEF m, u
  <2>5. NewGood(n, m)
    BY <2>1, <2>2, <2>3, <2>4 DEF NewGood
  <2>6. Grows
    BY <1>1, <2>1, <2>2, <2>3 DEF Grows
  <2>7. \A k \in Machines : machine'[k] = machine[k] \/ NewGood(k, machine'[k])
    BY <2>1, <2>3, <2>5
  <2>8. \A k \in Machines :
          /\ host'[k].owner = None => host'[k].attempt = NoAttempt
          /\ host'[k].attempt <= lastAttempt'
          /\ host'[k].attempt # NoAttempt =>
               machine'[k].attempt = host'[k].attempt /\ machine'[k].token = host'[k].attempt
    BY <1>1, <2>1, <2>2, <2>3 DEF HostInv
  <2>9. QED BY <1>0, <2>1, <2>6, <2>7, <2>8, FenceKept
<1>4. ASSUME NEW n \in Machines, NEW q \in Pools, UpdatePool(n, q) PROVE FenceInv'
  <2> DEFINE h == Repooled(host[n], q)
  <2>1. h \in HostRows /\ h.attempt = host[n].attempt
    <3>1. h \in HostRows
      BY <1>1, HostTransformations
    <3>2. QED BY <1>1, <3>1 DEF Repooled, Advance, HostRows
  <2>2. host' = [host EXCEPT ![n] = h] /\ host[n].attempt = NoAttempt
    BY <1>1, <1>4 DEF UpdatePool, Owned, HostInv
  <2>3. ReqRowsGood
    BY <1>4 DEF UpdatePool, ReqRowsGood
  <2> HIDE DEF h
  <2>4. QED BY <1>0, <1>4, <2>1, <2>2, <2>3, FenceHostStep DEF UpdatePool, world
<1>5. CASE SyncList
  <2>1. ReqRowsGood
    BY <1>5 DEF SyncList, ReqRowsGood
  <2>2. \A n \in Machines : listed'[n].row = machine[n] \/ listed'[n].row = NoRow.row
    BY <1>5 DEF SyncList
  <2>3. \A n \in Machines : NewGood(n, machine[n])
    BY <1>1, <1>5 DEF SyncList, tables, world, Good, NewGood
  <2>4. \A n \in Machines : NewGood(n, listed'[n].row)
    BY <1>2, <2>2, <2>3
  <2>5. QED BY <1>0, <1>1, <1>5, <2>1, <2>4, FenceRequestStep DEF SyncList, tables, world
<1>6. CASE SyncStop
  <2>1. ReqRowsGood
    BY <1>6 DEF SyncStop, ReqRowsGood
  <2>2. \A n \in Machines : NewGood(n, listed'[n].row)
    BY <1>2, <1>6 DEF SyncStop
  <2>3. QED BY <1>0, <1>1, <1>6, <2>1, <2>2, FenceRequestStep DEF SyncStop, tables, world
<1>7. ASSUME NEW n \in Machines, SyncEnds(n)
      PROVE  /\ ReqRowsGood
             /\ \A k \in Machines : listed'[k].row = listed[k].row \/ NewGood(k, listed'[k].row)
             /\ UNCHANGED <<host, lastAttempt, restored, booted>>
  <2>1. listed \in [Machines -> Listings] /\ listed' = [listed EXCEPT ![n] = NoRow]
    BY <1>0, <1>7 DEF TypeOK, SyncEnds
  <2>2. QED BY <1>2, <1>7, <2>1 DEF SyncEnds, ReqRowsGood, world
<1>8. ASSUME NEW n \in Machines, SyncTimeout(n) PROVE FenceInv'
  <2>1. TimedOut(listed[n].row) \in MachineRows /\ Good(n, TimedOut(listed[n].row))
    BY <1>1, RowTransformations, GoodTransformations DEF Good, DeployEvents
  <2>2. QED BY <1>0, <1>7, <1>8, <2>1, FenceUpsertStep DEF SyncTimeout
<1>9. ASSUME NEW n \in Machines, SyncInTime(n) PROVE FenceInv'
  <2>1. SyncEnds(n)
    BY <1>9 DEF SyncInTime
  <2>2. CASE UNCHANGED machine
    BY <1>0, <1>1, <1>7, <2>1, <2>2, FenceRequestStep
  <2>3. ASSUME NEW row \in SyncStates(listed[n].row), UpsertMachine(n, row)
        PROVE  FenceInv'
    <3>1. row \in MachineRows
      BY <1>1, RowTransformations DEF DeployEvents
    <3>2. Good(n, row)
      BY <1>1, GoodTransformations DEF Good, DeployEvents
    <3>3. QED BY <1>0, <1>7, <2>1, <2>3, <3>1, <3>2, FenceUpsertStep
  <2>4. QED BY <1>9, <2>2, <2>3 DEF SyncInTime
<1>10. QED BY <1>3, <1>4, <1>5, <1>6, <1>8, <1>9 DEF Reconciler

LEMMA FenceStep == FenceInv /\ [Next]_vars => FenceInv'
<1> SUFFICES ASSUME FenceInv, [Next]_vars PROVE FenceInv'
  OBVIOUS
<1>1. CASE UNCHANGED vars
  <2>1. TypeOK' /\ ReqRowsGood
    BY <1>1, TypeStep DEF FenceInv, ReqRowsGood, vars
  <2>2. lastAttempt <= lastAttempt'
    BY <1>1 DEF FenceInv, TypeOK, vars
  <2>3. QED BY <1>1, <2>1, <2>2, FenceRequestStep DEF vars
<1>2. CASE Next
  BY <1>2, FenceClaimHandler, FenceOrdinaryHandler, FenceCallback, FenceOtherSteps DEF Next
<1>3. QED BY <1>1, <1>2

LEMMA FenceInit == Init => FenceInv
<1> SUFFICES ASSUME Init PROVE FenceInv
  OBVIOUS
<1>1. TypeOK
  BY TypeInit
<1>2. \A n \in Machines : /\ host[n] = Unenrolled /\ machine[n] = UnprovisionedRow
                          /\ listed[n].row = UnprovisionedRow
  BY DEF Init, NoRow
<1>3. \A p \in Handlers : req[p].row = UnprovisionedRow
  BY DEF Init, Idle, Request
<1>4. \A n : Good(n, UnprovisionedRow)
  BY <1>1, GoodUnprovisioned DEF Good, TypeOK
<1>5. \A n \in Machines : HostInv(n)
  BY <1>1, <1>2 DEF HostInv, Unenrolled, TypeOK
<1>6. QED BY <1>1, <1>2, <1>3, <1>4, <1>5 DEF FenceInv

\* While a claim has an attempt, the machine row carries that attempt and its
\* token: no stale write of a callback, of the reconciler or of the ordinary API
\* passes the fence of MachineStore.Upsert.  It holds whether or not hosts are
\* unregistered and enrolled again.
THEOREM FenceHolds == Spec => []AttemptFence
<1>1. FenceInv => AttemptFence
  BY DEF FenceInv, HostInv, AttemptFence, Owned
<1>2. QED BY <1>1, FenceInit, FenceStep, PTL DEF Spec
----------------------------------------------------------------------------
(* What one step does to the hosts.  Four kinds of steps are told apart: those
   that leave the hosts alone, an installed system that comes up, a guarded
   UPDATE of one host, and a committed deployment. *)

Quiet ==
  /\ UNCHANGED <<host, booted, wipes, lastDeploy>>
  /\ lastAttempt <= lastAttempt'

Boots(n) ==
  /\ booted' = booted \cup {machine[n].token}
  /\ UNCHANGED <<host, lastAttempt, wipes, lastDeploy>>

\* The owner stays, goes, or is one that held no host.
HostUpdated(n, h) ==
  /\ host' = [host EXCEPT ![n] = h]
  /\ h.attempt \in {host[n].attempt, NoAttempt}
  /\ \/ h.owner = host[n].owner
     \/ h.owner = None
     \/ host[n].owner = None /\ OwnerUnique(h.owner)
  /\ UNCHANGED <<lastAttempt, booted, wipes, lastDeploy>>

\* A handler that replaces an attempt has seen the evidence for it.
Commits(p, m) ==
  /\ m.attempt = lastAttempt + 1
  /\ req[p].step = "row"
  /\ req[p].kind = "deploy" \/ (req[p].kind \in {"delete", "retry"} /\ req[p].row.applied)
  /\ CommitAllowed(req[p].name, req[p].host, m)
  /\ CommitDeployment(req[p].name, req[p].host, m)
  /\ UNCHANGED booted

StepKinds ==
  \/ Quiet
  \/ \E n \in Machines : Boots(n)
  \/ \E n \in Machines, h \in HostRows : HostUpdated(n, h)
  \/ \E p \in Handlers, m \in MachineRows : Commits(p, m)

\* What the guarded UPDATEs put into the columns owner and attempt.
LEMMA AdvancedColumns ==
  ASSUME NEW h \in HostRows, NEW next, NEW k
  PROVE  Advance(h, next, k).owner = h.owner /\ Advance(h, next, k).attempt = k
BY DEF Advance, HostRows

LEMMA UpdatedColumns ==
  ASSUME NEW h \in HostRows, NEW o \in Owners \cup {None}, NEW q \in Pools
  PROVE  /\ Released(h).owner = None /\ Released(h).attempt = NoAttempt
         /\ Claimed(h, o).owner = o /\ Claimed(h, o).attempt = h.attempt
         /\ Repooled(h, q).owner = h.owner /\ Repooled(h, q).attempt = h.attempt
<1>1. Released(h).owner = None /\ Released(h).attempt = NoAttempt
  BY DEF Released, Advance, HostRows
<1>2. Claimed(h, o).owner = o /\ Claimed(h, o).attempt = h.attempt
  BY DEF Claimed, Advance, HostRows
<1>3. Repooled(h, q).owner = h.owner /\ Repooled(h, q).attempt = h.attempt
  BY DEF Repooled, Advance, HostRows
<1>4. QED BY <1>1, <1>2, <1>3

LEMMA ClaimHandlerKinds ==
  ASSUME TypeOK, NEW p \in Handlers, ClaimHandler(p)
  PROVE  StepKinds
<1> DEFINE r == req[p]
           n == r.name
           k == lastAttempt + 1
<1>0. /\ n \in Machines /\ r.host \in HostRows /\ r.row \in MachineRows
      /\ r.host.owner \in Owners \cup {None} /\ r.host.attempt \in Nat
      /\ \A j \in Machines : host[j] \in HostRows
      /\ lastAttempt \in Nat /\ k \in Nat /\ lastAttempt <= lastAttempt
  BY Fields, Rows DEF TypeOK
<1>1. ASSUME NEW x \in MachineRows
      PROVE  PrepareReinstall(x, k) \in MachineRows /\ PrepareReinstall(x, k).attempt = k
  <2>1. PrepareReinstall(x, k) \in MachineRows
    BY <1>0, RowTransformations DEF DeployEvents
  <2>2. QED BY <2>1 DEF PrepareReinstall, MachineRows
<1>2. ASSUME NEW x \in MachineRows, r.step = "row", UNCHANGED booted,
             r.kind = "deploy" \/ (r.kind \in {"delete", "retry"} /\ r.row.applied),
             CommitDeployment(n, r.host, PrepareReinstall(x, k))
      PROVE  StepKinds
  <2> DEFINE m == PrepareReinstall(x, k)
  <2>1. m \in MachineRows /\ m.attempt = k
    BY <1>1
  <2>2. CASE CommitAllowed(n, r.host, m)
    <3>1. Commits(p, m)
      BY <1>2, <2>1, <2>2 DEF Commits
    <3>2. QED BY <2>1, <3>1 DEF StepKinds
  <2>3. CASE ~CommitAllowed(n, r.host, m)
    BY <1>0, <1>2, <2>3 DEF CommitDeployment, Quiet, StepKinds
  <2>4. QED BY <2>2, <2>3
<1>3. ASSUME NEW o \in Owners, NEW q \in Pools, AcquireLookup(p, o, q) PROVE StepKinds
  BY <1>0, <1>3 DEF AcquireLookup, tables, world, history, Quiet, StepKinds
<1>4. ASSUME NEW j \in Machines, AcquireUpdate(p, j) PROVE StepKinds
  <2> DEFINE h == Claimed(host[j], r.host.owner)
  <2>1. h \in HostRows /\ h.attempt = host[j].attempt /\ h.owner = r.host.owner
    BY <1>0, HostTransformations, UpdatedColumns, ConstantsAssumption
  <2>2. CASE host' = host
    BY <1>0, <1>4, <2>2 DEF AcquireUpdate, world, history, Quiet, StepKinds
  <2>3. CASE host' # host
    <3>1. host' = [host EXCEPT ![j] = h] /\ host[j].owner = None /\ OwnerUnique(r.host.owner)
      BY <1>4, <2>3 DEF AcquireUpdate, FirstAvailable, Owned
    <3> HIDE DEF h
    <3>2. HostUpdated(j, h)
      BY <1>4, <2>1, <3>1 DEF AcquireUpdate, world, history, HostUpdated
    <3>3. QED BY <2>1, <3>2 DEF StepKinds
  <2>4. QED BY <2>2, <2>3
<1>5. CASE GetMachine(p)
  BY <1>0, <1>5 DEF GetMachine, tables, world, history, Quiet, StepKinds
<1>6. CASE SettleClaim(p)
  <2>1. PICK next \in {"Ready", "Failed"} :
          \/ host' = host
          \/ host' = [host EXCEPT ![n] = Released(host[n])]
          \/ /\ host' = [host EXCEPT ![n] = Advance(host[n], next, r.host.attempt)]
             /\ TransitionAllowed(n, r.host, next, r.host.attempt)
    BY <1>6 DEF SettleClaim
  <2>2. CASE host' = host
    BY <1>0, <1>6, <2>2 DEF SettleClaim, world, history, Quiet, StepKinds
  <2>3. CASE host' = [host EXCEPT ![n] = Released(host[n])]
    <3> DEFINE h == Released(host[n])
    <3>1. h \in HostRows /\ h.attempt = NoAttempt /\ h.owner = None
      BY <1>0, HostTransformations, UpdatedColumns, ConstantsAssumption
    <3>2. HostUpdated(n, h)
      BY <1>6, <2>3, <3>1 DEF SettleClaim, world, history, HostUpdated
    <3>3. QED BY <1>0, <3>1, <3>2 DEF StepKinds
  <2>4. CASE /\ host' = [host EXCEPT ![n] = Advance(host[n], next, r.host.attempt)]
             /\ TransitionAllowed(n, r.host, next, r.host.attempt)
    <3> DEFINE h == Advance(host[n], next, r.host.attempt)
    <3>1. h \in HostRows /\ h.attempt = r.host.attempt /\ h.owner = host[n].owner
      <4>1. h \in HostRows
        BY <1>0, AdvanceTyped DEF States
      <4>2. QED BY <1>0, <4>1, AdvancedColumns
    <3>2. r.host.attempt = host[n].attempt
      BY <2>4 DEF TransitionAllowed
    <3>3. HostUpdated(n, h)
      BY <1>6, <2>4, <3>1, <3>2 DEF SettleClaim, world, history, HostUpdated
    <3>4. QED BY <1>0, <3>1, <3>3 DEF StepKinds
  <2>5. QED BY <2>1, <2>2, <2>3, <2>4
<1>7. CASE DeployClaim(p)
  <2>1. SealFor(r.row, r.host.owner, FALSE) \in MachineRows
    BY <1>0, RowTransformations DEF DeployEvents
  <2>2. QED BY <1>2, <1>7, <2>1 DEF DeployClaim, Running, world
<1>8. CASE ReleaseClaimed(p)
  <2> DEFINE h == Advance(host[n], "Releasing", NoAttempt)
  <2>1. h \in HostRows /\ h.attempt = NoAttempt /\ h.owner = host[n].owner
    <3>1. h \in HostRows
      BY <1>0, AdvanceTyped DEF States
    <3>2. QED BY <1>0, <3>1, AdvancedColumns
  <2>2. host' = host \/ host' = [host EXCEPT ![n] = h]
    BY <1>8 DEF ReleaseClaimed
  <2>3. CASE host' = host
    BY <1>0, <1>8, <2>3 DEF ReleaseClaimed, world, history, Quiet, StepKinds
  <2>4. CASE host' = [host EXCEPT ![n] = h]
    <3>1. HostUpdated(n, h)
      BY <1>8, <2>1, <2>4 DEF ReleaseClaimed, world, history, HostUpdated
    <3>2. QED BY <1>0, <2>1, <3>1 DEF StepKinds
  <2>5. QED BY <2>2, <2>3, <2>4
<1>9. CASE CompleteClaimedRelease(p)
  <2> DEFINE h == Released(host[n])
  <2>1. h \in HostRows /\ h.attempt = NoAttempt /\ h.owner = None
    BY <1>0, HostTransformations, UpdatedColumns, ConstantsAssumption
  <2>2. host' = host \/ host' = [host EXCEPT ![n] = h]
    BY <1>9 DEF CompleteClaimedRelease
  <2>3. CASE host' = host
    BY <1>0, <1>9, <2>3 DEF CompleteClaimedRelease, world, history, Quiet, StepKinds
  <2>4. CASE host' = [host EXCEPT ![n] = h]
    <3>1. HostUpdated(n, h)
      BY <1>9, <2>1, <2>4 DEF CompleteClaimedRelease, world, history, HostUpdated
    <3>2. QED BY <1>0, <2>1, <3>1 DEF StepKinds
  <2>5. QED BY <2>2, <2>3, <2>4
<1>10. CASE CleanupClaim(p)
  <2>1. SealFor(r.row, r.host.owner, TRUE) \in MachineRows
    BY <1>0, RowTransformations DEF DeployEvents
  <2>2. CASE CleanupWarranted(r.host, r.row)
    BY <1>2, <1>10, <2>1, <2>2 DEF CleanupClaim, CleanupWarranted, Running, world
  <2>3. CASE ~CleanupWarranted(r.host, r.row)
    BY <1>0, <1>10, <2>3 DEF CleanupClaim, tables, world, history, Quiet, StepKinds
  <2>4. QED BY <2>2, <2>3
<1>11. CASE RetryClaim(p)
  <2>1. CASE RetryWarranted(r.host, r.row)
    BY <1>0, <1>2, <1>11, <2>1 DEF RetryClaim, RetryWarranted, Running, world
  <2>2. CASE ~RetryWarranted(r.host, r.row)
    BY <1>0, <1>11, <2>2 DEF RetryClaim, tables, world, history, Quiet, StepKinds
  <2>3. QED BY <2>1, <2>2
<1>12. ASSUME NEW kind \in {"get", "deploy", "delete", "retry"}, NEW j \in Machines,
              FindOwner(p, kind, j)
       PROVE  StepKinds
  BY <1>0, <1>12 DEF FindOwner, tables, world, history, Quiet, StepKinds
<1>13. QED
  BY <1>3, <1>4, <1>5, <1>6, <1>7, <1>8, <1>9, <1>10, <1>11, <1>12 DEF ClaimHandler

LEMMA StepIsOneKind ==
  ASSUME TypeOK, [Next]_vars
  PROVE  StepKinds
<1>0. /\ lastAttempt \in Nat /\ lastAttempt <= lastAttempt /\ lastAttempt <= lastAttempt + 1
      /\ \A n \in Machines : host[n] \in HostRows
      /\ \A p \in Handlers : req[p].name \in Machines
  BY Fields, Rows DEF TypeOK
<1>1. ASSUME UNCHANGED <<host, booted, wipes, lastDeploy>>, lastAttempt' = lastAttempt
      PROVE  StepKinds
  BY <1>0, <1>1 DEF Quiet, StepKinds
<1>2. CASE UNCHANGED vars
  BY <1>1, <1>2 DEF vars
<1>3. ASSUME NEW p \in Handlers, OrdinaryHandler(p) PROVE StepKinds
  <2>1. CASE RedeployRead(p)
    BY <1>0, <2>1 DEF RedeployRead, tables, world, history, Quiet, StepKinds
  <2>2. ASSUME NEW q \in Pools, RegisterInsert(p, q) PROVE StepKinds
    <3> DEFINE n == req[p].name
               h == Enrolled(q, host[n].born)
    <3>1. CASE host[n].enrolled
      BY <1>1, <2>2, <3>1 DEF RegisterInsert, world, history
    <3>2. CASE ~host[n].enrolled
      <4>1. n \in Machines /\ host[n] \in HostRows
        BY <1>0
      <4>2. h \in HostRows
        BY <4>1, Enrollments
      <4>3. h.owner = None /\ h.attempt = NoAttempt
        BY <4>1, Enrollments
      <4>4. HostUpdated(n, h)
        BY <2>2, <3>2, <4>3 DEF RegisterInsert, world, history, HostUpdated
      <4>5. QED BY <4>1, <4>2, <4>4 DEF StepKinds
    <3>3. QED BY <3>1, <3>2
  <2>3. CASE \/ SettingsRead(p) \/ WriteRow(p) \/ Abort(p)
             \/ \E n \in Machines : \/ RegisterCheck(p, n)
                                    \/ \E kind \in {"redeploy", "settings"} :
                                         ProtectAllocated(p, kind, n)
    BY <1>1, <2>3 DEF SettingsRead, WriteRow, Abort, RegisterCheck, ProtectAllocated,
                      tables, world, history
  <2>4. QED BY <1>3, <2>1, <2>2, <2>3 DEF OrdinaryHandler
<1>4. ASSUME NEW p \in Handlers, Callback(p) PROVE StepKinds
  <2>1. ASSUME NEW n \in Machines, InstallComplete(p, n) PROVE StepKinds
    <3>1. Boots(n)
      BY <2>1 DEF InstallComplete, BeginWrite, tables, history, Boots
    <3>2. QED BY <3>1 DEF StepKinds
  <2>2. CASE \/ InventoryReread(p)
             \/ \E n \in Machines : \/ \E event \in DeployEvents : DeployEvent(p, event, n)
                                    \/ Marker(p, n) \/ InventoryRead(p, n)
    BY <1>1, <2>2 DEF InventoryReread, DeployEvent, Marker, InventoryRead, BeginWrite,
                      tables, world, history
  <2>3. QED BY <1>4, <2>1, <2>2 DEF Callback
<1>5. ASSUME NEW n \in Machines, Unregister(n) PROVE StepKinds
  <2> DEFINE u == Unregistered(host[n])
  <2>1. u \in HostRows /\ u.owner = None /\ u.attempt = NoAttempt
    BY <1>0, Enrollments, ConstantsAssumption
  <2> HIDE DEF u
  <2>2. HostUpdated(n, u)
    BY <1>5, <2>1 DEF Unregister, world, history, HostUpdated, u
  <2>3. QED BY <2>1, <2>2 DEF StepKinds
<1>6. ASSUME NEW n \in Machines, NEW q \in Pools, UpdatePool(n, q) PROVE StepKinds
  <2> DEFINE h == Repooled(host[n], q)
  <2>1. h \in HostRows /\ h.attempt = host[n].attempt /\ h.owner = host[n].owner
    BY <1>0, HostTransformations, UpdatedColumns, ConstantsAssumption
  <2>2. HostUpdated(n, h)
    BY <1>6, <2>1 DEF UpdatePool, world, history, HostUpdated
  <2>3. QED BY <2>1, <2>2 DEF StepKinds
<1>7. CASE Reconciler
  BY <1>1, <1>7 DEF Reconciler, SyncList, SyncStop, SyncTimeout, SyncInTime, SyncEnds,
                    tables, world, history
<1>8. CASE Next
  BY <1>3, <1>4, <1>5, <1>6, <1>7, <1>8, ClaimHandlerKinds DEF Next
<1>9. QED BY <1>2, <1>8

\* No owner ever holds two hosts, however its acquire requests interleave with
\* each other and with releases: the look-up before the UPDATE does not ensure
\* it, the UNIQUE constraint on bare_metal_hosts.owner does.
THEOREM OwnersHoldOneHost == Spec => []OneHostPerOwner
<1>1. TypeOK /\ OneHostPerOwner /\ [Next]_vars => OneHostPerOwner'
  <2> SUFFICES ASSUME TypeOK, OneHostPerOwner, [Next]_vars PROVE OneHostPerOwner'
    OBVIOUS
  <2>1. host \in [Machines -> HostRows]
    BY DEF TypeOK
  <2>2. CASE host' = host
    BY <2>2 DEF OneHostPerOwner, Owned
  <2>3. ASSUME NEW n \in Machines, NEW h \in HostRows, HostUpdated(n, h)
        PROVE  OneHostPerOwner'
    BY <2>1, <2>3 DEF HostUpdated, OwnerUnique, OneHostPerOwner, Owned
  <2>4. ASSUME NEW p \in Handlers, NEW m \in MachineRows, Commits(p, m)
        PROVE  OneHostPerOwner'
    <3> DEFINE n == req[p].name
               h == Advance(host[n], DeploymentState(m), m.attempt)
    <3>1. n \in Machines
      BY Fields
    <3>2. host' = [host EXCEPT ![n] = h]
      BY <2>4 DEF Commits, CommitDeployment
    <3>3. h.owner = host[n].owner
      BY <2>1, <3>1 DEF Advance, HostRows
    <3> HIDE DEF h
    <3>4. \A k \in Machines : host'[k].owner = host[k].owner
      BY <2>1, <3>1, <3>2, <3>3
    <3>5. QED BY <3>4 DEF OneHostPerOwner, Owned
  <2>5. QED BY <2>2, <2>3, <2>4, StepIsOneKind DEF StepKinds, Quiet, Boots
<1>2. Init => OneHostPerOwner
  BY DEF Init, Unenrolled, OneHostPerOwner, Owned
<1>3. QED BY <1>1, <1>2, TypeInit, TypeStep, PTL DEF Spec
=============================================================================
