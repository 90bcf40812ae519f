------------------------- MODULE VMLifecycleProofs -------------------------
(***************************************************************************)
(* Theorems about VMLifecycle, for every set of VMs, hypervisors and       *)
(* concurrent handlers and every mix of requests: types, and that a record *)
(* which says that its domain was defined tells the truth.                 *)
(*                                                                         *)
(* A record is written back long after it was read, so the claim has to    *)
(* hold of every copy of a record as well: of what requests and the sync   *)
(* loop have read and will write.                                          *)
(***************************************************************************)
EXTENDS VMLifecycle, TLAPS

\* A row is honest when a set mark belongs to a window whose domain was defined.
RowOK(row, S) == row \in VMRows /\ (row.defined => row.token \in S)

\* So are the rows a request holds, and its own snapshot; between the definition
\* of the domain and the mark the window is one of those in S.
ReqOK(r, S) ==
  /\ r \in Reqs
  /\ RowOK(r.seen, S) /\ RowOK(r.first, S)
  /\ r.defined => r.token \in S
  /\ r.step \in {"mark", "marking"} => r.token \in S

SyncSteps == {"idle", "listed", "look", "write"}

SyncOK(s, S) == s \in [step : SyncSteps, row : VMRows] /\ RowOK(s.row, S)

VMsOK(f, S) == f \in [VMs -> VMRows] /\ \A v \in VMs : RowOK(f[v], S)
RequestsOK(f, S) == f \in [Handlers -> Reqs] /\ \A p \in Handlers : ReqOK(f[p], S)
SyncsOK(f, S) ==
  /\ f \in [VMs -> [step : SyncSteps, row : VMRows]]
  /\ \A v \in VMs : SyncOK(f[v], S)

WorldOK ==
  /\ hvs \subseteq Hypervisors
  /\ domain \in [VMs -> SUBSET Hypervisors]
  /\ status \subseteq Hypervisors
  /\ lastToken \in Nat
  /\ started \subseteq Nat

\* The inductive invariant.
HonestRows ==
  VMsOK(vms, started) /\ RequestsOK(req, started) /\ SyncsOK(sync, started) /\ WorldOK

----------------------------------------------------------------------------
(* Rows *)

LEMMA Choices == AnyHypervisor \in Hypervisors /\ (CHOOSE v \in VMs : TRUE) \in VMs
BY VMAssumption DEF AnyHypervisor

LEMMA NoVMOK == ASSUME NEW S PROVE RowOK(NoVM, S)
BY Choices DEF RowOK, NoVM, VMRows, Phases, NoToken

LEMMA NewRowOK ==
  ASSUME NEW S, NEW h \in Hypervisors, NEW t \in Nat
  PROVE  RowOK(NewRow(h, t), S)
BY Choices DEF RowOK, NewRow, NoVM, VMRows, Phases

LEMMA RearmedOK ==
  ASSUME NEW S, NEW row, RowOK(row, S), NEW h \in Hypervisors, NEW t \in Nat
  PROVE  RowOK(Rearmed(row, h, t), S)
BY DEF RowOK, Rearmed, VMRows, Phases

LEMMA MarkedOK ==
  ASSUME NEW S, NEW row, RowOK(row, S), row.token \in S
  PROVE  RowOK(MarkedDefined(row), S)
BY DEF RowOK, MarkedDefined, VMRows, Phases

LEMMA RestoredOK ==
  ASSUME NEW S, NEW row, RowOK(row, S), NEW d \in BOOLEAN, d => row.token \in S
  PROVE  RowOK(Restored(row, d), S)
<1>1. (d \/ row.defined) \in BOOLEAN
  BY DEF RowOK, VMRows
<1>2. PICK e \in BOOLEAN : e = (d \/ row.defined)
  BY <1>1
<1>3. RowOK([row EXCEPT !.phase = "Provisioning", !.active = TRUE, !.done = FALSE,
                        !.defined = e, !.gone = FALSE], S)
  BY <1>2 DEF RowOK, VMRows, Phases
<1>4. QED BY <1>2, <1>3 DEF Restored

LEMMA FailedOK ==
  ASSUME NEW S, NEW row, RowOK(row, S)
  PROVE  RowOK(FailedRow(row), S)
BY DEF RowOK, FailedRow, VMRows, Phases

LEMMA MissingOK ==
  ASSUME NEW S, NEW row, RowOK(row, S)
  PROVE  RowOK(MissingRow(row), S)
BY DEF RowOK, MissingRow, VMRows, Phases

LEMMA CompletedOK ==
  ASSUME NEW S, NEW row, RowOK(row, S)
  PROVE  RowOK(CompletedRow(row), S)
BY DEF RowOK, CompletedRow, VMRows, Phases

LEMMA ExpiredOK ==
  ASSUME NEW S, NEW row, RowOK(row, S)
  PROVE  RowOK(ExpiredRow(row), S)
BY DEF RowOK, ExpiredRow, VMRows, Phases

\* UpdateStatus, and the row a finished migration writes.
LEMMA PhaseOK ==
  ASSUME NEW S, NEW row, RowOK(row, S), NEW phase \in Phases, NEW h \in Hypervisors
  PROVE  RowOK([row EXCEPT !.phase = phase], S) /\ RowOK([row EXCEPT !.hv = h, !.phase = phase], S)
BY DEF RowOK, VMRows

LEMMA ObservedOK ==
  ASSUME NEW S, NEW row, RowOK(row, S), NEW next \in ObservedRows(row)
  PROVE  RowOK(next, S)
<1>1. PICK ph \in MappedPhases(row) :
        next = [row EXCEPT !.phase = ObservedPhase(ph),
                           !.gone = row.phase # "Missing" /\ row.gone]
  BY DEF ObservedRows
<1>2. ObservedPhase(ph) \in Phases
  BY DEF MappedPhases, ObservedPhase, Phases, RowOK, VMRows
<1>3. QED BY <1>1, <1>2 DEF RowOK, VMRows

----------------------------------------------------------------------------
(* More defined windows never make a row dishonest *)

LEMMA Growing ==
  ASSUME NEW S, NEW T, S \subseteq T
  PROVE  /\ \A f : VMsOK(f, S) => VMsOK(f, T)
         /\ \A f : RequestsOK(f, S) => RequestsOK(f, T)
         /\ \A f : SyncsOK(f, S) => SyncsOK(f, T)
<1>1. \A row : RowOK(row, S) => RowOK(row, T)
  BY DEF RowOK
<1>2. \A r : ReqOK(r, S) => ReqOK(r, T)
  BY <1>1 DEF ReqOK
<1>3. \A s : SyncOK(s, S) => SyncOK(s, T)
  BY <1>1 DEF SyncOK
<1>4. QED BY <1>1, <1>2, <1>3 DEF VMsOK, RequestsOK, SyncsOK

----------------------------------------------------------------------------
(* Writing one entry of a table *)

LEMMA PutVM ==
  ASSUME NEW S, NEW f, VMsOK(f, S), NEW v \in VMs, NEW row, RowOK(row, S)
  PROVE  VMsOK([f EXCEPT ![v] = row], S)
<1>1. row \in VMRows BY DEF RowOK
<1>2. QED BY <1>1 DEF VMsOK

LEMMA PutRequest ==
  ASSUME NEW S, NEW f, RequestsOK(f, S), NEW p \in Handlers, NEW r, ReqOK(r, S)
  PROVE  RequestsOK([f EXCEPT ![p] = r], S)
<1>1. r \in Reqs BY DEF ReqOK
<1>2. QED BY <1>1 DEF RequestsOK

LEMMA PutSync ==
  ASSUME NEW S, NEW f, SyncsOK(f, S), NEW v \in VMs, NEW s, SyncOK(s, S)
  PROVE  SyncsOK([f EXCEPT ![v] = s], S)
<1>1. s \in [step : SyncSteps, row : VMRows] BY DEF SyncOK
<1>2. QED BY <1>1 DEF SyncsOK

----------------------------------------------------------------------------
(* Requests *)

LEMMA IdleOK == ASSUME NEW S PROVE ReqOK(Idle, S)
<1>1. NoVM \in VMRows /\ RowOK(NoVM, S) BY NoVMOK DEF RowOK
<1>2. QED BY <1>1, Choices DEF ReqOK, Idle, Reqs, Steps, NoToken

\* What a request holds has the type of its field.
LEMMA Fields ==
  ASSUME NEW S, NEW r, ReqOK(r, S)
  PROVE  /\ r.kind \in RequestKinds \cup {"idle"} /\ r.step \in Steps
         /\ r.vm \in VMs /\ r.hv \in Hypervisors /\ r.to \in Hypervisors
         /\ r.token \in Nat /\ r.defined \in BOOLEAN /\ r.names \subseteq VMs
         /\ RowOK(r.seen, S) /\ RowOK(r.first, S)
BY DEF ReqOK, Reqs

LEMMA RequestOK ==
  ASSUME NEW S, NEW kind \in RequestKinds \cup {"idle"}, NEW step \in Steps \ {"mark", "marking"},
         NEW v \in VMs, NEW h \in Hypervisors
  PROVE  /\ ReqOK(Request(kind, step, v, h), S)
         /\ Request(kind, step, v, h).seen = NoVM
         /\ ~Request(kind, step, v, h).defined
         /\ Request(kind, step, v, h).step = step
<1>1. NoVM \in VMRows /\ RowOK(NoVM, S) BY NoVMOK DEF RowOK
<1>2. QED BY <1>1, Choices DEF ReqOK, Request, Idle, Reqs, NoToken

LEMMA StepOK ==
  ASSUME NEW S, NEW r, ReqOK(r, S), NEW step \in Steps,
         step \in {"mark", "marking"} => r.token \in S,
         NEW row, RowOK(row, S)
  PROVE  ReqOK([r EXCEPT !.step = step], S) /\ ReqOK([r EXCEPT !.step = step, !.seen = row], S)
<1>1. row \in VMRows BY DEF RowOK
<1>2. QED BY <1>1 DEF ReqOK, Reqs

----------------------------------------------------------------------------
(* Steps of the components *)

\* A handler writes its own entry and at most one record.
LEMMA HandlerStep ==
  ASSUME HonestRows, NEW p \in Handlers, NEW r, ReqOK(r, started), Keep(p, r),
         NEW v \in VMs, NEW row, RowOK(row, started),
         \/ vms' = vms
         \/ vms' = [vms EXCEPT ![v] = row],
         UNCHANGED <<sync, started>>, WorldOK'
  PROVE  HonestRows'
<1>1. VMsOK(vms', started)
  BY PutVM DEF HonestRows
<1>2. RequestsOK(req', started)
  BY PutRequest DEF HonestRows, Keep
<1>3. QED BY <1>1, <1>2 DEF HonestRows

\* A handler only reads the database.
LEMMA HandlerReads ==
  ASSUME HonestRows, NEW p \in Handlers, NEW r, ReqOK(r, started), Keep(p, r),
         UNCHANGED <<vms, sync, started>>, WorldOK'
  PROVE  HonestRows'
<1>1. RequestsOK(req', started)
  BY PutRequest DEF HonestRows, Keep
<1>2. QED BY <1>1 DEF HonestRows

\* Wherever a handler goes without a mark to set, what it holds stays honest.
LEMMA Moves ==
  ASSUME HonestRows, NEW p \in Handlers, NEW step \in Steps \ {"mark", "marking"},
         NEW row, RowOK(row, started),
         Goto(p, step) \/ GotoWith(p, step, row) \/ GotoPlain(p, step) \/ Finish(p)
  PROVE  \E r : ReqOK(r, started) /\ Keep(p, r)
<1>1. ReqOK(req[p], started)
  BY DEF HonestRows, RequestsOK
<1>2. CASE Goto(p, step)
  BY <1>1, <1>2, StepOK DEF Goto
<1>3. CASE GotoWith(p, step, row)
  BY <1>1, <1>3, StepOK DEF GotoWith
<1>4. CASE GotoPlain(p, step)
  <2>1. ReqOK(Request(req[p].kind, step, req[p].vm, req[p].hv), started)
    BY <1>1, Fields, RequestOK
  <2>2. QED BY <1>4, <2>1 DEF GotoPlain
<1>5. CASE Finish(p)
  BY <1>5, IdleOK DEF Finish
<1>6. QED BY <1>2, <1>3, <1>4, <1>5

LEMMA HandlerEnds ==
  ASSUME HonestRows, NEW p \in Handlers, Finish(p), UNCHANGED <<vms, sync, started>>, WorldOK'
  PROVE  HonestRows'
<1>1. ReqOK(Idle, started) /\ Keep(p, Idle)
  BY IdleOK DEF Finish
<1>2. QED BY <1>1, HandlerReads

LEMMA HandlerGoes ==
  ASSUME HonestRows, NEW p \in Handlers, NEW step \in Steps \ {"mark", "marking"},
         NEW row, RowOK(row, started),
         Goto(p, step) \/ GotoWith(p, step, row) \/ GotoPlain(p, step),
         UNCHANGED <<vms, sync, started>>, WorldOK'
  PROVE  HonestRows'
BY Moves, HandlerReads

LEMMA SyncStep ==
  ASSUME HonestRows, NEW v \in VMs, NEW s, SyncOK(s, started),
         sync' = [sync EXCEPT ![v] = s],
         UNCHANGED <<vms, req, started>>, WorldOK'
  PROVE  HonestRows'
<1>1. SyncsOK(sync', started)
  BY PutSync DEF HonestRows
<1>2. QED BY <1>1 DEF HonestRows

LEMMA WorldStep ==
  ASSUME HonestRows, UNCHANGED <<vms, req, sync, started>>, WorldOK'
  PROVE  HonestRows'
BY DEF HonestRows

----------------------------------------------------------------------------
(* Every action keeps the rows honest *)

LEMMA ReceiveKeeps ==
  ASSUME HonestRows, NEW p \in Handlers, Receive(p)
  PROVE  HonestRows'
<1>w. WorldOK BY DEF HonestRows
<1>r. \A v \in VMs : RowOK(vms[v], started) /\ vms[v].hv \in Hypervisors /\ vms[v].phase \in Phases
  BY DEF HonestRows, VMsOK, RowOK, VMRows
<1>n. RowOK(NoVM, started) BY NoVMOK
<1>k. /\ "create" \in RequestKinds \cup {"idle"} /\ "insert" \in Steps \ {"mark", "marking"}
      /\ "redeploy" \in RequestKinds \cup {"idle"} /\ "resolve" \in Steps \ {"mark", "marking"}
      /\ "delete" \in RequestKinds \cup {"idle"}
  BY DEF RequestKinds, Steps
<1>1. ASSUME NEW h \in Hypervisors, CascadeBegin(p, h) PROVE HonestRows'
  <2>1. PICK step \in {"list", "relist"} : Keep(p, Request("cascade", step, Idle.vm, h))
    BY <1>1 DEF CascadeBegin, Begin
  <2>2. ReqOK(Request("cascade", step, Idle.vm, h), started)
    BY RequestOK, Choices DEF Idle, RequestKinds, Steps
  <2>3. QED BY <1>1, <1>w, <2>1, <2>2, HandlerReads DEF CascadeBegin, WorldOK
<1>2. ASSUME NEW v \in VMs, DeleteRead(p, v) PROVE HonestRows'
  <2> DEFINE r == Request("delete", "resolve", v, vms[v].hv)
  <2>1. ReqOK(r, started) /\ r.seen = NoVM /\ r.step = "resolve"
    BY <1>k, <1>r, RequestOK
  <2>2. RowOK([NoVM EXCEPT !.phase = vms[v].phase], started)
    BY <1>r, <1>n, Choices, PhaseOK
  <2>3. ReqOK([r EXCEPT !.seen = [NoVM EXCEPT !.phase = vms[v].phase]], started)
    <3> HIDE DEF r
    <3>1. [NoVM EXCEPT !.phase = vms[v].phase] \in VMRows BY <2>2 DEF RowOK
    <3>2. QED BY <2>1, <2>2, <3>1 DEF ReqOK, Reqs
  <2>4. Keep(p, [r EXCEPT !.seen = [NoVM EXCEPT !.phase = vms[v].phase]])
    BY <1>2, <2>1 DEF DeleteRead, Begin
  <2>5. QED BY <1>2, <1>w, <2>3, <2>4, HandlerReads DEF DeleteRead, WorldOK
<1>3. ASSUME NEW v \in VMs, PowerRead(p, v) PROVE HonestRows'
  <2>1. ReqOK(Request("power", "resolve", v, vms[v].hv), started)
    BY <1>r, RequestOK DEF RequestKinds, Steps
  <2>2. QED BY <1>3, <1>w, <2>1, HandlerReads DEF PowerRead, Begin, WorldOK
<1>4. ASSUME NEW v \in VMs, InstallComplete(p, v) PROVE HonestRows'
  <2> DEFINE r == Request("complete", "write", v, vms[v].hv)
             row == CompletedRow(vms[v])
  <2>1. ReqOK(r, started)
    BY <1>r, RequestOK DEF RequestKinds, Steps
  <2>2. RowOK(row, started) BY <1>r, CompletedOK
  <2>3. Keep(p, [r EXCEPT !.seen = row])
    BY <1>4 DEF InstallComplete, Begin
  <2>4. ReqOK([r EXCEPT !.seen = row], started)
    <3> HIDE DEF r, row
    <3>1. row \in VMRows BY <2>2 DEF RowOK
    <3>2. QED BY <2>1, <2>2, <3>1 DEF ReqOK, Reqs
  <2>5. QED BY <1>4, <1>w, <2>3, <2>4, HandlerReads DEF InstallComplete, WorldOK
<1>5. ASSUME NEW v \in VMs, NEW h \in Hypervisors, CreateCheck(p, v, h) PROVE HonestRows'
  <2> DEFINE r == Request("create", "insert", v, h)
  <2>0. PICK t \in Nat : t = lastToken + 1
    BY <1>w DEF WorldOK
  <2>1. ReqOK(r, started) /\ ~r.defined /\ r.step = "insert"
    BY <1>k, RequestOK
  <2>2. Keep(p, [r EXCEPT !.token = t])
    BY <1>5, <2>0 DEF CreateCheck, Begin
  <2>3. ReqOK([r EXCEPT !.token = t], started)
    <3> HIDE DEF r
    <3>1. QED BY <2>1 DEF ReqOK, Reqs
  <2>4. QED BY <1>5, <1>w, <2>0, <2>2, <2>3, HandlerReads DEF CreateCheck, WorldOK
<1>6. ASSUME NEW v \in VMs, NEW h \in Hypervisors, RedeployRead(p, v, h) PROVE HonestRows'
  <2>0. PICK t \in Nat : t = lastToken + 1
    BY <1>w DEF WorldOK
  <2> DEFINE r == Request("redeploy", "resolve", v, h)
             row == Rearmed(vms[v], h, t)
  <2>1. ReqOK(r, started) /\ ~r.defined /\ r.step = "resolve"
    BY <1>k, RequestOK
  <2>2. RowOK(row, started) BY <1>r, RearmedOK
  <2>3. Keep(p, [r EXCEPT !.token = t, !.seen = row])
    BY <1>6, <2>0 DEF RedeployRead, Begin
  <2>4. ReqOK([r EXCEPT !.token = t, !.seen = row], started)
    <3> HIDE DEF r, row
    <3>1. row \in VMRows BY <2>2 DEF RowOK
    <3>2. QED BY <2>1, <2>2, <3>1 DEF ReqOK, Reqs
  <2>5. QED BY <1>6, <1>w, <2>0, <2>3, <2>4, HandlerReads DEF RedeployRead, WorldOK
<1>7. ASSUME NEW v \in VMs, NEW h \in Hypervisors, MigrateRead(p, v, h) PROVE HonestRows'
  <2> DEFINE r == Request("migrate", "resolve", v, vms[v].hv)
             row == vms[v]
  <2>1. ReqOK(r, started)
    BY <1>r, RequestOK DEF RequestKinds, Steps
  <2>2. RowOK(row, started) BY <1>r
  <2>3. Keep(p, [r EXCEPT !.to = h, !.first = row])
    BY <1>7 DEF MigrateRead, Begin
  <2>4. ReqOK([r EXCEPT !.to = h, !.first = row], started)
    <3> HIDE DEF r, row
    <3>1. row \in VMRows BY <2>2 DEF RowOK
    <3>2. QED BY <2>1, <2>2, <3>1 DEF ReqOK, Reqs
  <2>5. QED BY <1>7, <1>w, <2>3, <2>4, HandlerReads DEF MigrateRead, WorldOK
<1>8. QED BY <1>1, <1>2, <1>3, <1>4, <1>5, <1>6, <1>7 DEF Receive

LEMMA CascadeKeeps ==
  ASSUME HonestRows, NEW p \in Handlers, Cascade(p)
  PROVE  HonestRows'
<1>w. WorldOK BY DEF HonestRows
<1>p. ReqOK(req[p], started) BY DEF HonestRows, RequestsOK
<1>n. RowOK(NoVM, started) BY NoVMOK
<1>1. CASE CascadeList(p)
  <2>1. PICK step \in {"sweep", "resweep"}, names \in SUBSET VMs :
          Keep(p, [req[p] EXCEPT !.names = names, !.step = step])
    BY <1>1 DEF CascadeList
  <2>2. ReqOK([req[p] EXCEPT !.names = names, !.step = step], started)
    BY <1>p DEF ReqOK, Reqs, Steps
  <2>3. QED BY <1>1, <1>w, <2>1, <2>2, HandlerReads DEF CascadeList, WorldOK
<1>2. CASE CascadeUnlist(p)
  BY <1>2, <1>w, <1>n, HandlerGoes DEF CascadeUnlist, WorldOK, Steps
<1>3. CASE CascadeEnd(p)
  BY <1>3, <1>w, HandlerEnds DEF CascadeEnd, WorldOK
<1>4. ASSUME NEW v \in VMs, CascadeDelete(p, v) PROVE HonestRows'
  <2>1. PICK names \in SUBSET VMs : Keep(p, [req[p] EXCEPT !.names = names])
    BY <1>4, <1>p, Fields DEF CascadeDelete
  <2>2. ReqOK([req[p] EXCEPT !.names = names], started)
    BY <1>p DEF ReqOK, Reqs
  <2>3. vms' = vms \/ vms' = [vms EXCEPT ![v] = NoVM]
    BY <1>4 DEF CascadeDelete
  <2>4. UNCHANGED <<sync, started>> /\ WorldOK'
    BY <1>4, <1>w DEF CascadeDelete, WorldOK
  <2>5. QED BY <1>n, <2>1, <2>2, <2>3, <2>4, HandlerStep
<1>5. QED BY <1>1, <1>2, <1>3, <1>4 DEF Cascade

LEMMA WriteExisting ==
  ASSUME NEW v, NEW row, UpdateExisting(v, row)
  PROVE  vms' = vms \/ vms' = [vms EXCEPT ![v] = row]
BY DEF UpdateExisting

\* Recording the outcome of a deploy ends it, or leads on to a step without a mark.
LEMMA AfterOutcome ==
  ASSUME HonestRows, NEW p \in Handlers, AfterDeploy(p) \/ RecordGone(p)
  PROVE  \E r : ReqOK(r, started) /\ Keep(p, r)
<1>1. "check" \in Steps \ {"mark", "marking"} /\ "cleanup" \in Steps \ {"mark", "marking"}
  BY DEF Steps
<1>2. RowOK(NoVM, started) BY NoVMOK
<1>3. GotoPlain(p, "check") \/ GotoPlain(p, "cleanup") \/ Finish(p)
  BY DEF AfterDeploy, RecordGone
<1>4. QED BY <1>1, <1>2, <1>3, Moves

LEMMA CreateKeeps ==
  ASSUME HonestRows, NEW p \in Handlers,
         \/ CreateInsert(p) \/ CreateRecheck(p) \/ CreateRollback(p) \/ CreateVerify(p)
         \/ Cleanup(p)
  PROVE  HonestRows'
<1>w. WorldOK BY DEF HonestRows
<1>p. ReqOK(req[p], started) BY DEF HonestRows, RequestsOK
<1>f. req[p].vm \in VMs /\ req[p].hv \in Hypervisors /\ req[p].token \in Nat
  BY <1>p, Fields
<1>n. RowOK(NoVM, started) BY NoVMOK
<1>1. CASE CreateInsert(p)
  <2>1. RowOK(NewRow(req[p].hv, req[p].token), started)
    BY <1>f, NewRowOK
  <2>2. UNCHANGED <<sync, started>> /\ WorldOK'
    BY <1>1, <1>w DEF CreateInsert, WorldOK
  <2>3. /\ vms' = vms \/ vms' = [vms EXCEPT ![req[p].vm] = NewRow(req[p].hv, req[p].token)]
        /\ Goto(p, "recheck") \/ Finish(p)
    BY <1>1 DEF CreateInsert
  <2>4. PICK r : ReqOK(r, started) /\ Keep(p, r)
    BY <1>n, <2>3, Moves DEF Steps
  <2>5. QED BY <1>f, <2>1, <2>2, <2>3, <2>4, HandlerStep
<1>2. CASE CreateRecheck(p)
  <2>1. Goto(p, "prepare") \/ Goto(p, "rollback")
    BY <1>2 DEF CreateRecheck
  <2>2. UNCHANGED <<vms, sync, started>> /\ WorldOK'
    BY <1>2, <1>w DEF CreateRecheck, WorldOK
  <2>3. QED BY <1>n, <2>1, <2>2, HandlerGoes DEF Steps
<1>3. CASE CreateRollback(p)
  <2>1. vms' = vms \/ vms' = [vms EXCEPT ![req[p].vm] = NoVM]
    BY <1>3 DEF CreateRollback
  <2>2. UNCHANGED <<sync, started>> /\ WorldOK' /\ Keep(p, Idle)
    BY <1>3, <1>w DEF CreateRollback, WorldOK, Finish
  <2>3. QED BY <1>f, <1>n, <2>1, <2>2, IdleOK, HandlerStep
<1>4. CASE CreateVerify(p)
  <2>1. Finish(p) \/ Goto(p, "cleanup")
    BY <1>4 DEF CreateVerify
  <2>2. UNCHANGED <<vms, sync, started>> /\ WorldOK'
    BY <1>4, <1>w DEF CreateVerify, WorldOK
  <2>3. QED BY <1>n, <2>1, <2>2, HandlerGoes, HandlerEnds DEF Steps
<1>5. CASE Cleanup(p)
  <2>1. Finish(p) /\ UNCHANGED <<vms, sync, started>> /\ WorldOK'
    BY <1>5, <1>w DEF Cleanup, WorldOK
  <2>2. QED BY <2>1, HandlerEnds
<1>6. QED BY <1>1, <1>2, <1>3, <1>4, <1>5

LEMMA RedeployKeeps ==
  ASSUME HonestRows, NEW p \in Handlers,
         Resolve(p) \/ RedeployArm(p) \/ Prepare(p) \/ DeployFails(p) \/ BootDomain(p)
  PROVE  HonestRows'
<1>w. WorldOK BY DEF HonestRows
<1>p. ReqOK(req[p], started) BY DEF HonestRows, RequestsOK
<1>f. req[p].vm \in VMs /\ req[p].hv \in Hypervisors /\ RowOK(req[p].seen, started)
  BY <1>p, Fields
<1>n. RowOK(NoVM, started) BY NoVMOK
<1>1. CASE Resolve(p)
  <2>1. PICK step \in {"arm", "teardown", "act", "announce", "delete"} :
          Goto(p, step) \/ GotoPlain(p, step) \/ Finish(p)
    BY <1>1 DEF Resolve, Resolved
  <2>2. UNCHANGED <<vms, sync, started>> /\ WorldOK'
    BY <1>1, <1>w DEF Resolve, WorldOK
  <2>3. step \in Steps \ {"mark", "marking"}
    BY <2>1 DEF Steps
  <2>4. QED BY <1>n, <2>1, <2>2, <2>3, HandlerGoes, HandlerEnds
<1>2. CASE RedeployArm(p)
  <2>1. vms' = vms \/ vms' = [vms EXCEPT ![req[p].vm] = req[p].seen]
    BY <1>2, WriteExisting DEF RedeployArm
  <2>2. UNCHANGED <<sync, started>> /\ WorldOK'
    BY <1>2, <1>w DEF RedeployArm, WorldOK
  <2>3. GotoWith(p, "prepare", NoVM) \/ Finish(p)
    BY <1>2 DEF RedeployArm
  <2>4. PICK r : ReqOK(r, started) /\ Keep(p, r)
    BY <1>n, <2>3, Moves DEF Steps
  <2>5. QED BY <1>f, <2>1, <2>2, <2>4, HandlerStep
<1>3. CASE Prepare(p)
  <2>1. UNCHANGED <<vms, sync, started>> /\ WorldOK' /\ Goto(p, "define")
    BY <1>3, <1>w DEF Prepare, WorldOK
  <2>2. QED BY <1>n, <2>1, HandlerGoes DEF Steps
<1>4. CASE DeployFails(p)
  BY <1>4, <1>w, <1>n, HandlerGoes DEF DeployFails, WorldOK, Steps
<1>5. CASE BootDomain(p)
  BY <1>5, <1>w, <1>n, HandlerGoes DEF BootDomain, WorldOK, Steps
<1>6. QED BY <1>1, <1>2, <1>3, <1>4, <1>5

\* The domain is defined, and from here on the window counts among the started.
LEMMA DefineKeeps ==
  ASSUME HonestRows, NEW p \in Handlers, DefineDomain(p)
  PROVE  HonestRows'
<1>p. ReqOK(req[p], started) BY DEF HonestRows, RequestsOK
<1>f. req[p].vm \in VMs /\ req[p].hv \in Hypervisors /\ req[p].token \in Nat
  BY <1>p, Fields
<1>1. started' = started \cup {req[p].token} /\ UNCHANGED <<vms, sync>>
  BY DEF DefineDomain
<1>2. VMsOK(vms, started') /\ RequestsOK(req, started') /\ SyncsOK(sync, started')
  BY <1>1, Growing DEF HonestRows
<1>3. Keep(p, [req[p] EXCEPT !.step = "mark"])
  BY DEF DefineDomain, Goto
<1>4. ReqOK([req[p] EXCEPT !.step = "mark"], started')
  <2>1. ReqOK(req[p], started') BY <1>2 DEF RequestsOK
  <2>2. req[p].token \in started' BY <1>1
  <2>3. RowOK(NoVM, started') BY NoVMOK
  <2>4. "mark" \in Steps BY DEF Steps
  <2>5. QED BY <2>1, <2>2, <2>3, <2>4, StepOK
<1>5. RequestsOK(req', started')
  BY <1>2, <1>3, <1>4, PutRequest DEF Keep
<1>6. WorldOK'
  BY <1>f, <1>1 DEF HonestRows, WorldOK, DefineDomain
<1>7. QED BY <1>1, <1>2, <1>5, <1>6 DEF HonestRows

\* The token check makes the mark belong to the window whose domain was defined.
LEMMA MarkKeeps ==
  ASSUME HonestRows, NEW p \in Handlers, MarkRead(p) \/ MarkWrite(p)
  PROVE  HonestRows'
<1>w. WorldOK BY DEF HonestRows
<1>p. ReqOK(req[p], started) BY DEF HonestRows, RequestsOK
<1>f. req[p].vm \in VMs /\ RowOK(req[p].seen, started)
  BY <1>p, Fields
<1>n. RowOK(NoVM, started) /\ NoVM \in VMRows BY NoVMOK DEF RowOK
<1> DEFINE row == vms[req[p].vm]
<1>r. RowOK(row, started) BY <1>f DEF HonestRows, VMsOK
<1>1. CASE MarkRead(p)
  <2>0. UNCHANGED <<vms, sync, started>> /\ WorldOK' /\ req[p].token \in started
    BY <1>1, <1>w, <1>p DEF MarkRead, WorldOK, ReqOK
  <2>1. CASE OwnsWindow(row, req[p].token) /\ (row.done \/ row.defined)
    <3>1. row.defined \in BOOLEAN BY <1>r DEF RowOK, VMRows
    <3>2. PICK d \in BOOLEAN : d = (req[p].kind = "create" /\ row.defined)
      BY <3>1
    <3>3. Keep(p, [req[p] EXCEPT !.step = "boot", !.defined = d])
      BY <1>1, <2>1, <3>2 DEF MarkRead
    <3>4. ReqOK([req[p] EXCEPT !.step = "boot", !.defined = d], started)
      BY <1>p, <2>0 DEF ReqOK, Reqs, Steps
    <3>5. QED BY <2>0, <3>3, <3>4, HandlerReads
  <2>2. CASE OwnsWindow(row, req[p].token) /\ ~(row.done \/ row.defined)
    <3>1. row.token \in started BY <2>0, <2>2 DEF OwnsWindow
    <3>2. RowOK(MarkedDefined(row), started) BY <1>r, <3>1, MarkedOK
    <3>3. Keep(p, [req[p] EXCEPT !.step = "marking", !.seen = MarkedDefined(row)])
      BY <1>1, <2>2 DEF MarkRead, GotoWith
    <3>4. ReqOK([req[p] EXCEPT !.step = "marking", !.seen = MarkedDefined(row)], started)
      <4>1. "marking" \in Steps BY DEF Steps
      <4>2. QED BY <1>p, <2>0, <3>2, <4>1, StepOK
    <3>5. QED BY <2>0, <3>3, <3>4, HandlerReads
  <2>3. CASE ~OwnsWindow(row, req[p].token)
    <3>1. Goto(p, "boot") BY <1>1, <2>3 DEF MarkRead
    <3>2. QED BY <1>n, <2>0, <3>1, HandlerGoes DEF Steps
  <2>4. QED BY <2>1, <2>2, <2>3
<1>2. CASE MarkWrite(p)
  <2>1. vms' = vms \/ vms' = [vms EXCEPT ![req[p].vm] = req[p].seen]
    BY <1>2, WriteExisting DEF MarkWrite
  <2>2. UNCHANGED <<sync, started>> /\ WorldOK' /\ req[p].token \in started
    BY <1>2, <1>w, <1>p DEF MarkWrite, WorldOK, ReqOK
  <2>3. PICK d \in BOOLEAN : d = (req[p].kind = "create" /\ row.exists)
    BY <1>r DEF RowOK, VMRows
  <2>4. Keep(p, [req[p] EXCEPT !.step = "boot", !.seen = NoVM, !.defined = d])
    BY <1>2, <2>3 DEF MarkWrite
  <2>5. ReqOK([req[p] EXCEPT !.step = "boot", !.seen = NoVM, !.defined = d], started)
    BY <1>p, <1>n, <2>2 DEF ReqOK, Reqs, Steps
  <2>6. QED BY <1>f, <2>1, <2>2, <2>4, <2>5, HandlerStep
<1>3. QED BY <1>1, <1>2

LEMMA OutcomeKeeps ==
  ASSUME HonestRows, NEW p \in Handlers, OutcomeRead(p) \/ OutcomeWrite(p)
  PROVE  HonestRows'
<1>w. WorldOK BY DEF HonestRows
<1>p. ReqOK(req[p], started) BY DEF HonestRows, RequestsOK
<1>f. req[p].vm \in VMs /\ RowOK(req[p].seen, started) /\ req[p].defined \in BOOLEAN
  BY <1>p, Fields
<1> DEFINE row == vms[req[p].vm]
<1>r. RowOK(row, started) BY <1>f DEF HonestRows, VMsOK
<1>1. CASE OutcomeRead(p)
  <2>0. UNCHANGED <<vms, sync, started>> /\ WorldOK'
    BY <1>1, <1>w DEF OutcomeRead, WorldOK
  <2>1. \/ AfterDeploy(p) \/ RecordGone(p)
        \/ OwnsWindow(row, req[p].token)
           /\ GotoWith(p, "restoring", Restored(row, req[p].defined))
        \/ GotoWith(p, "failing", FailedRow(row))
    BY <1>1 DEF OutcomeRead
  <2>2. CASE AfterDeploy(p) \/ RecordGone(p)
    BY <2>0, <2>2, AfterOutcome, HandlerReads
  <2>3. CASE OwnsWindow(row, req[p].token)
             /\ GotoWith(p, "restoring", Restored(row, req[p].defined))
    <3>1. req[p].defined => row.token \in started
      BY <1>p, <2>3 DEF ReqOK, OwnsWindow
    <3>2. RowOK(Restored(row, req[p].defined), started)
      BY <1>f, <1>r, <3>1, RestoredOK
    <3>3. QED BY <2>0, <2>3, <3>2, HandlerGoes DEF Steps
  <2>4. CASE GotoWith(p, "failing", FailedRow(row))
    <3>1. RowOK(FailedRow(row), started) BY <1>r, FailedOK
    <3>2. QED BY <2>0, <2>4, <3>1, HandlerGoes DEF Steps
  <2>5. QED BY <2>1, <2>2, <2>3, <2>4
<1>2. CASE OutcomeWrite(p)
  <2>1. vms' = vms \/ vms' = [vms EXCEPT ![req[p].vm] = req[p].seen]
    BY <1>2, WriteExisting DEF OutcomeWrite
  <2>2. UNCHANGED <<sync, started>> /\ WorldOK'
    BY <1>2, <1>w DEF OutcomeWrite, WorldOK
  <2>3. PICK r : ReqOK(r, started) /\ Keep(p, r)
    BY <1>2, AfterOutcome DEF OutcomeWrite
  <2>4. QED BY <1>f, <2>1, <2>2, <2>3, HandlerStep
<1>3. QED BY <1>1, <1>2

LEMMA DeployKeeps ==
  ASSUME HonestRows, NEW p \in Handlers, Deploy(p)
  PROVE  HonestRows'
BY CreateKeeps, RedeployKeeps, DefineKeeps, MarkKeeps, OutcomeKeeps DEF Deploy

LEMMA DeletePowerKeeps ==
  ASSUME HonestRows, NEW p \in Handlers,
         \/ Teardown(p) \/ TeardownUnreachable(p) \/ TeardownFails(p) \/ DeleteRecord(p)
         \/ PowerAct(p) \/ PowerRecord(p) \/ WriteRow(p)
  PROVE  HonestRows'
<1>w. WorldOK BY DEF HonestRows
<1>p. ReqOK(req[p], started) BY DEF HonestRows, RequestsOK
<1>f. req[p].vm \in VMs /\ req[p].hv \in Hypervisors /\ RowOK(req[p].seen, started)
  BY <1>p, Fields
<1>n. RowOK(NoVM, started) BY NoVMOK
<1> DEFINE row == vms[req[p].vm]
<1>r. RowOK(row, started) BY <1>f DEF HonestRows, VMsOK
<1>1. CASE Teardown(p)
  <2>1. UNCHANGED <<vms, sync, started>> /\ WorldOK' /\ GotoPlain(p, "delete")
    BY <1>1, <1>w DEF Teardown, WorldOK
  <2>2. QED BY <1>n, <2>1, HandlerGoes DEF Steps
<1>2. CASE TeardownUnreachable(p)
  <2>1. UNCHANGED <<vms, sync, started>> /\ WorldOK' /\ (GotoPlain(p, "delete") \/ Finish(p))
    BY <1>2, <1>w DEF TeardownUnreachable, WorldOK
  <2>2. QED BY <1>n, <2>1, HandlerGoes, HandlerEnds DEF Steps
<1>3. CASE TeardownFails(p)
  <2>1. UNCHANGED <<vms, sync, started>> /\ WorldOK' /\ Finish(p)
    BY <1>3, <1>w DEF TeardownFails, WorldOK
  <2>2. QED BY <2>1, HandlerEnds
<1>4. CASE DeleteRecord(p)
  <2>1. vms' = [vms EXCEPT ![req[p].vm] = NoVM] /\ Keep(p, Idle)
    BY <1>4 DEF DeleteRecord, Finish
  <2>2. UNCHANGED <<sync, started>> /\ WorldOK'
    BY <1>4, <1>w DEF DeleteRecord, WorldOK
  <2>3. QED BY <1>f, <1>n, <2>1, <2>2, IdleOK, HandlerStep
<1>5. CASE PowerAct(p)
  <2>1. PICK phase \in Phases : GotoWith(p, "record", [NoVM EXCEPT !.phase = phase])
    BY <1>5 DEF PowerAct, Phases
  <2>2. RowOK([NoVM EXCEPT !.phase = phase], started)
    BY <1>f, <1>n, PhaseOK
  <2>3. UNCHANGED <<vms, sync, started>> /\ WorldOK'
    BY <1>5, <1>w DEF PowerAct, WorldOK
  <2>4. QED BY <2>1, <2>2, <2>3, HandlerGoes DEF Steps
<1>6. CASE PowerRecord(p)
  <2>1. \/ GotoWith(p, "write", [row EXCEPT !.phase = req[p].seen.phase])
        \/ GotoWith(p, "write", MissingRow(row))
        \/ Finish(p)
    BY <1>6 DEF PowerRecord
  <2>2. UNCHANGED <<vms, sync, started>> /\ WorldOK'
    BY <1>6, <1>w DEF PowerRecord, WorldOK
  <2>3. req[p].seen.phase \in Phases
    BY <1>f DEF RowOK, VMRows
  <2>4. RowOK([row EXCEPT !.phase = req[p].seen.phase], started) /\ RowOK(MissingRow(row), started)
    BY <1>f, <1>r, <2>3, PhaseOK, MissingOK
  <2>5. "write" \in Steps \ {"mark", "marking"} BY DEF Steps
  <2> HIDE DEF row
  <2>6. QED BY <2>1, <2>2, <2>4, <2>5, HandlerGoes, HandlerEnds
<1>7. CASE WriteRow(p)
  <2>1. vms' = vms \/ vms' = [vms EXCEPT ![req[p].vm] = req[p].seen]
    BY <1>7, WriteExisting DEF WriteRow
  <2>2. UNCHANGED <<sync, started>> /\ WorldOK' /\ Keep(p, Idle)
    BY <1>7, <1>w DEF WriteRow, WorldOK, Finish
  <2>3. QED BY <1>f, <2>1, <2>2, IdleOK, HandlerStep
<1>8. QED BY <1>1, <1>2, <1>3, <1>4, <1>5, <1>6, <1>7

LEMMA MigrateKeeps ==
  ASSUME HonestRows, NEW p \in Handlers,
         \/ MigrateAnnounce(p) \/ MigrateAnnounced(p) \/ MigrateDomain(p)
         \/ MigrateFails(p) \/ MigrateUpsert(p)
  PROVE  HonestRows'
<1>w. WorldOK BY DEF HonestRows
<1>p. ReqOK(req[p], started) BY DEF HonestRows, RequestsOK
<1>f. /\ req[p].vm \in VMs /\ req[p].hv \in Hypervisors /\ req[p].to \in Hypervisors
      /\ RowOK(req[p].seen, started) /\ RowOK(req[p].first, started)
  BY <1>p, Fields
<1>n. RowOK(NoVM, started) BY NoVMOK
<1>s. {"Migrating", "Error", "Running"} \subseteq Phases BY DEF Phases
<1> DEFINE row == vms[req[p].vm]
<1>r. RowOK(row, started) BY <1>f DEF HonestRows, VMsOK
<1>1. CASE MigrateAnnounce(p)
  <2>1. \/ GotoWith(p, "announcing", [row EXCEPT !.phase = "Migrating"])
        \/ GotoWith(p, "move", req[p].first)
    BY <1>1 DEF MigrateAnnounce
  <2>2. UNCHANGED <<vms, sync, started>> /\ WorldOK'
    BY <1>1, <1>w DEF MigrateAnnounce, WorldOK
  <2>3. RowOK([row EXCEPT !.phase = "Migrating"], started)
    BY <1>f, <1>r, <1>s, PhaseOK
  <2>4. /\ "announcing" \in Steps \ {"mark", "marking"}
        /\ "move" \in Steps \ {"mark", "marking"}
    BY DEF Steps
  <2> HIDE DEF row
  <2>5. QED BY <1>f, <2>1, <2>2, <2>3, <2>4, HandlerGoes
<1>2. CASE MigrateAnnounced(p)
  <2>1. vms' = vms \/ vms' = [vms EXCEPT ![req[p].vm] = req[p].seen]
    BY <1>2, WriteExisting DEF MigrateAnnounced
  <2>2. UNCHANGED <<sync, started>> /\ WorldOK'
    BY <1>2, <1>w DEF MigrateAnnounced, WorldOK
  <2>3. GotoWith(p, "move", req[p].seen) \/ GotoWith(p, "move", req[p].first)
    BY <1>2 DEF MigrateAnnounced
  <2>4. "move" \in Steps \ {"mark", "marking"}
    BY DEF Steps
  <2>5. PICK r : ReqOK(r, started) /\ Keep(p, r)
    BY <1>f, <2>3, <2>4, Moves
  <2>6. QED BY <1>f, <2>1, <2>2, <2>5, HandlerStep
<1>3. CASE MigrateDomain(p)
  <2>1. UNCHANGED <<vms, sync, started>> /\ WorldOK' /\ Goto(p, "moved")
    BY <1>3, <1>w, <1>f DEF MigrateDomain, WorldOK
  <2>2. QED BY <1>n, <2>1, HandlerGoes DEF Steps
<1>4. CASE MigrateFails(p)
  <2>1. RowOK([NoVM EXCEPT !.phase = "Error"], started)
    BY <1>f, <1>n, <1>s, PhaseOK
  <2>2. /\ UNCHANGED <<vms, sync, started>> /\ WorldOK'
        /\ GotoWith(p, "record", [NoVM EXCEPT !.phase = "Error"])
    BY <1>4, <1>w DEF MigrateFails, WorldOK
  <2>3. QED BY <2>1, <2>2, HandlerGoes DEF Steps
<1>5. CASE MigrateUpsert(p)
  <2>1. RowOK([req[p].seen EXCEPT !.hv = req[p].to, !.phase = "Running"], started)
    BY <1>f, <1>s, PhaseOK
  <2>2. /\ vms' = [vms EXCEPT ![req[p].vm] =
                     [req[p].seen EXCEPT !.hv = req[p].to, !.phase = "Running"]]
        /\ Keep(p, Idle)
    BY <1>5 DEF MigrateUpsert, Finish
  <2>3. UNCHANGED <<sync, started>> /\ WorldOK'
    BY <1>5, <1>w DEF MigrateUpsert, WorldOK
  <2>4. QED BY <1>f, <2>1, <2>2, <2>3, IdleOK, HandlerStep
<1>6. QED BY <1>1, <1>2, <1>3, <1>4, <1>5

\* The sync loop computes what it writes from the row it has listed.
LEMMA SyncKeeps ==
  ASSUME HonestRows, Syncer
  PROVE  HonestRows'
<1>w. WorldOK BY DEF HonestRows
<1>n. SyncOK(NotSyncing, started)
  BY NoVMOK DEF SyncOK, NotSyncing, SyncSteps, RowOK
<1>v. \A v \in VMs : RowOK(vms[v], started) BY DEF HonestRows, VMsOK
<1>s. \A v \in VMs : SyncOK(sync[v], started) /\ RowOK(sync[v].row, started)
  BY DEF HonestRows, SyncsOK, SyncOK
<1>1. CASE SyncList
  <2>1. sync' = [v \in VMs |-> IF vms[v].exists THEN [step |-> "listed", row |-> vms[v]]
                                                ELSE sync[v]]
    BY <1>1 DEF SyncList
  <2>2. \A v \in VMs : SyncOK([step |-> "listed", row |-> vms[v]], started)
    BY <1>v DEF SyncOK, SyncSteps, RowOK
  <2>3. \A v \in VMs : SyncOK(sync'[v], started)
    BY <1>s, <2>1, <2>2
  <2>4. SyncsOK(sync', started)
    BY <2>1, <2>3 DEF SyncsOK, SyncOK
  <2>5. QED BY <1>1, <1>w, <2>4 DEF HonestRows, SyncList, WorldOK
<1>2. CASE SyncHypervisors
  <2>1. sync' = [v \in VMs |->
                   IF sync[v].step = "listed" /\ sync[v].row.hv \in hvs
                     THEN [sync[v] EXCEPT !.step = "look"] ELSE NotSyncing]
    BY <1>2 DEF SyncHypervisors
  <2>2. \A v \in VMs : SyncOK([sync[v] EXCEPT !.step = "look"], started)
    BY <1>s DEF SyncOK, SyncSteps
  <2>3. \A v \in VMs : SyncOK(sync'[v], started)
    BY <1>n, <2>1, <2>2
  <2>4. SyncsOK(sync', started)
    BY <2>1, <2>3 DEF SyncsOK, SyncOK
  <2>5. QED BY <1>2, <1>w, <2>4 DEF HonestRows, SyncHypervisors, WorldOK
<1>3. ASSUME NEW v \in VMs, NEW row, RowOK(row, started), SyncPersist(v, row) \/ SyncIdle(v),
             UNCHANGED <<vms, hvs, domain, req, status, lastToken, started>>
      PROVE  HonestRows'
  <2>1. SyncOK([step |-> "write", row |-> row], started)
    BY <1>3 DEF SyncOK, SyncSteps, RowOK
  <2>2. \/ sync' = [sync EXCEPT ![v] = NotSyncing]
        \/ sync' = [sync EXCEPT ![v] = [step |-> "write", row |-> row]]
    BY <1>3 DEF SyncPersist, SyncIdle
  <2>3. WorldOK' BY <1>3, <1>w DEF WorldOK
  <2>4. QED BY <1>3, <1>n, <2>1, <2>2, <2>3, SyncStep
<1>4. ASSUME NEW v \in VMs, SyncObserve(v) PROVE HonestRows'
  <2>1. PICK next \in ObservedRows(sync[v].row) : SyncPersist(v, next)
    BY <1>4 DEF SyncObserve
  <2>2. RowOK(next, started) BY <1>s, ObservedOK
  <2>3. QED BY <1>3, <1>4, <2>1, <2>2 DEF SyncObserve
<1>5. ASSUME NEW v \in VMs, SyncExpire(v) PROVE HonestRows'
  <2>1. RowOK(ExpiredRow(sync[v].row), started) /\ RowOK(MissingRow(sync[v].row), started)
    BY <1>s, ExpiredOK, MissingOK
  <2>2. SyncPersist(v, ExpiredRow(sync[v].row)) \/ SyncPersist(v, MissingRow(sync[v].row))
    BY <1>5 DEF SyncExpire
  <2>3. QED BY <1>3, <1>5, <2>1, <2>2 DEF SyncExpire
<1>6. ASSUME NEW v \in VMs, SyncMissing(v) PROVE HonestRows'
  <2>1. RowOK(MissingRow(sync[v].row), started)
    BY <1>s, MissingOK
  <2>2. SyncIdle(v) \/ SyncPersist(v, MissingRow(sync[v].row))
    BY <1>6 DEF SyncMissing
  <2>3. QED BY <1>3, <1>6, <2>1, <2>2 DEF SyncMissing
<1>7. ASSUME NEW v \in VMs, SyncSkip(v) PROVE HonestRows'
  BY <1>3, <1>7, NoVMOK DEF SyncSkip
<1>8. ASSUME NEW v \in VMs, SyncWrite(v) PROVE HonestRows'
  <2>1. vms' = vms \/ vms' = [vms EXCEPT ![v] = sync[v].row]
    BY <1>8, WriteExisting DEF SyncWrite
  <2>2. VMsOK(vms', started)
    BY <1>s, <2>1, PutVM DEF HonestRows
  <2>3. SyncsOK(sync', started)
    BY <1>8, <1>n, PutSync DEF HonestRows, SyncWrite, SyncIdle
  <2>4. QED BY <1>8, <1>w, <2>2, <2>3 DEF HonestRows, SyncWrite, WorldOK
<1>9. ASSUME NEW h \in Hypervisors, StatusRead(h) \/ StatusUpsert(h) PROVE HonestRows'
  BY <1>9, <1>w, WorldStep DEF StatusRead, StatusUpsert, WorldOK
<1>10. QED BY <1>1, <1>2, <1>4, <1>5, <1>6, <1>7, <1>8, <1>9 DEF Syncer, SyncVM

----------------------------------------------------------------------------
(* Theorems *)

LEMMA InitHonest == Init => HonestRows
<1> SUFFICES ASSUME Init PROVE HonestRows OBVIOUS
<1>1. VMsOK(vms, started)
  BY NoVMOK DEF Init, VMsOK, RowOK
<1>2. RequestsOK(req, started)
  BY IdleOK DEF Init, RequestsOK, ReqOK
<1>3. SyncOK(NotSyncing, started)
  BY NoVMOK DEF SyncOK, NotSyncing, SyncSteps, RowOK
<1>4. SyncsOK(sync, started)
  BY <1>3 DEF Init, SyncsOK, SyncOK
<1>5. WorldOK
  BY DEF Init, WorldOK
<1>6. QED BY <1>1, <1>2, <1>4, <1>5 DEF HonestRows

LEMMA NextHonest == HonestRows /\ [Next]_vars => HonestRows'
<1> SUFFICES ASSUME HonestRows, [Next]_vars PROVE HonestRows' OBVIOUS
<1>w. WorldOK BY DEF HonestRows
<1>1. ASSUME NEW p \in Handlers, Receive(p) PROVE HonestRows'
  BY <1>1, ReceiveKeeps
<1>2. ASSUME NEW p \in Handlers, Continue(p) PROVE HonestRows'
  BY <1>2, CascadeKeeps, DeployKeeps, DeletePowerKeeps, MigrateKeeps DEF Continue, Operate
<1>3. ASSUME NEW p \in Handlers, Abort(p) PROVE HonestRows'
  BY <1>3, <1>w, HandlerEnds DEF Abort, WorldOK
<1>4. CASE Syncer
  BY <1>4, SyncKeeps
<1>5. ASSUME NEW h \in Hypervisors, RegisterHypervisor(h) PROVE HonestRows'
  BY <1>5, <1>w, WorldStep DEF RegisterHypervisor, WorldOK
<1>6. ASSUME NEW v \in VMs, NEW h \in Hypervisors, Vanish(v, h) PROVE HonestRows'
  BY <1>6, <1>w, WorldStep DEF Vanish, WorldOK
<1>7. CASE UNCHANGED vars
  BY <1>7 DEF vars, HonestRows, WorldOK
<1>8. QED BY <1>1, <1>2, <1>3, <1>4, <1>5, <1>6, <1>7 DEF Next

\* However requests and the sync loop write back what they read long ago, every copy
\* of a record that carries the mark of markDomainDefined is of a window whose deploy
\* defined a domain.
THEOREM RowsStayHonest == Spec => []HonestRows
BY InitHonest, NextHonest, PTL DEF Spec

\* Tables, requests and the sync loop's list keep their types.
THEOREM VMTypeCorrect == Spec => []TypeOK
<1>1. HonestRows => TypeOK
  BY DEF HonestRows, VMsOK, RequestsOK, SyncsOK, WorldOK, SyncSteps, TypeOK
<1>2. QED BY <1>1, RowsStayHonest, PTL

\* In the table: a record is marked as defined only when its own window was.
THEOREM MarksAreTrue == Spec => []DefinedIsReal
<1>1. HonestRows => DefinedIsReal
  BY DEF HonestRows, VMsOK, RowOK, DefinedIsReal
<1>2. QED BY <1>1, RowsStayHonest, PTL

----------------------------------------------------------------------------
(* Records that come into being *)

\* A record appears at v only at the INSERT of a create or at the Upsert that ends
\* a migration.
AddedBy(v) ==
  \E p \in Handlers :
    /\ req[p].vm = v
    /\ \/ req[p].step = "insert" /\ vms'[v] = NewRow(req[p].hv, req[p].token)
       \/ req[p].step = "moved"

OnlyAdded == \A v \in VMs : ~vms[v].exists /\ vms'[v].exists => AddedBy(v)

\* Writes of whole rows that insist on a row of that name, and deletes, add nothing.
LEMMA UpdatesAddNothing ==
  ASSUME vms \in [VMs -> VMRows], NEW v \in VMs,
         \/ vms' = vms
         \/ vms' = [vms EXCEPT ![v] = NoVM]
         \/ \E row : UpdateExisting(v, row)
  PROVE  OnlyAdded
<1>1. ~NoVM.exists
  BY DEF NoVM
<1>2. QED BY <1>1 DEF OnlyAdded, UpdateExisting

LEMMA HandlersAddRecords ==
  ASSUME TypeOK, NEW p \in Handlers, Continue(p)
  PROVE  OnlyAdded
<1> DEFINE r == req[p]
<1>0. vms \in [VMs -> VMRows] /\ r.vm \in VMs
  BY DEF TypeOK, Reqs
<1>1. ASSUME vms' = vms PROVE OnlyAdded
  BY <1>1 DEF OnlyAdded
<1>2. CASE Cascade(p)
  <2>1. vms' = vms \/ \E v \in VMs : vms' = [vms EXCEPT ![v] = NoVM]
    BY <1>2 DEF Cascade, CascadeList, CascadeUnlist, CascadeEnd, CascadeDelete
  <2>2. QED BY <1>0, <1>1, <2>1, UpdatesAddNothing
<1>3. CASE CreateInsert(p)
  <2>1. r.step = "insert"
    BY <1>3 DEF CreateInsert
  <2>2. vms' = vms \/ vms' = [vms EXCEPT ![r.vm] = NewRow(r.hv, r.token)]
    BY <1>3 DEF CreateInsert
  <2>3. CASE vms' = [vms EXCEPT ![r.vm] = NewRow(r.hv, r.token)]
    <3>1. vms'[r.vm] = NewRow(r.hv, r.token) /\ \A v \in VMs \ {r.vm} : vms'[v] = vms[v]
      BY <1>0, <2>3
    <3>2. QED BY <2>1, <3>1 DEF OnlyAdded, AddedBy
  <2>4. QED BY <1>1, <2>2, <2>3
<1>4. CASE CreateRollback(p)
  <2>1. vms' = vms \/ vms' = [vms EXCEPT ![r.vm] = NoVM]
    BY <1>4 DEF CreateRollback
  <2>2. QED BY <1>0, <2>1, UpdatesAddNothing
<1>5. CASE RedeployArm(p) \/ MarkWrite(p) \/ OutcomeWrite(p) \/ WriteRow(p) \/ MigrateAnnounced(p)
  <2>1. UpdateExisting(r.vm, r.seen)
    BY <1>5 DEF RedeployArm, MarkWrite, OutcomeWrite, WriteRow, MigrateAnnounced
  <2>2. QED BY <1>0, <2>1, UpdatesAddNothing
<1>6. CASE DeleteRecord(p)
  <2>1. vms' = [vms EXCEPT ![r.vm] = NoVM]
    BY <1>6 DEF DeleteRecord
  <2>2. QED BY <1>0, <2>1, UpdatesAddNothing
<1>7. CASE MigrateUpsert(p)
  <2> DEFINE row == [r.seen EXCEPT !.hv = r.to, !.phase = "Running"]
  <2>1. r.step = "moved" /\ vms' = [vms EXCEPT ![r.vm] = row]
    BY <1>7 DEF MigrateUpsert
  <2> HIDE DEF row
  <2>2. \A v \in VMs \ {r.vm} : vms'[v] = vms[v]
    BY <1>0, <2>1
  <2>3. QED BY <2>1, <2>2 DEF OnlyAdded, AddedBy
<1>8. CASE \/ CreateRecheck(p) \/ CreateVerify(p) \/ Cleanup(p) \/ Resolve(p) \/ Prepare(p)
           \/ DefineDomain(p) \/ DeployFails(p) \/ MarkRead(p) \/ BootDomain(p) \/ OutcomeRead(p)
  <2>1. vms' = vms
    BY <1>8 DEF CreateRecheck, CreateVerify, Cleanup, Resolve, Prepare, DefineDomain,
                DeployFails, MarkRead, BootDomain, OutcomeRead
  <2>2. QED BY <1>1, <2>1
<1>9. CASE \/ Teardown(p) \/ TeardownUnreachable(p) \/ TeardownFails(p) \/ PowerAct(p)
           \/ PowerRecord(p) \/ MigrateAnnounce(p) \/ MigrateDomain(p) \/ MigrateFails(p)
  <2>1. vms' = vms
    BY <1>9 DEF Teardown, TeardownUnreachable, TeardownFails, PowerAct, PowerRecord,
                MigrateAnnounce, MigrateDomain, MigrateFails
  <2>2. QED BY <1>1, <2>1
<1>10. QED
  BY <1>2, <1>3, <1>4, <1>5, <1>6, <1>7, <1>8, <1>9 DEF Continue, Deploy, Operate

\* Only a create, and the Upsert at the end of a migration, add a record: a deploy, a
\* power action, a callback or the sync loop that still works on a record deleted or
\* swept meanwhile does not bring it back.
THEOREM RecordsStayDeleted == Spec => NoResurrection
<1>1. TypeOK /\ [Next]_vars => OnlyAdded
  <2> SUFFICES ASSUME TypeOK, [Next]_vars PROVE OnlyAdded
    OBVIOUS
  <2>1. ASSUME vms' = vms PROVE OnlyAdded
    BY <2>1 DEF OnlyAdded
  <2>2. ASSUME NEW p \in Handlers, Receive(p) \/ Abort(p) PROVE OnlyAdded
    <3>1. vms' = vms
      BY <2>2 DEF Receive, CascadeBegin, DeleteRead, PowerRead, InstallComplete, CreateCheck,
                  RedeployRead, MigrateRead, Abort
    <3>2. QED BY <2>1, <3>1
  <2>3. CASE Syncer
    <3>1. ASSUME NEW v \in VMs, SyncWrite(v) PROVE OnlyAdded
      <4>1. UpdateExisting(v, sync[v].row)
        BY <3>1 DEF SyncWrite
      <4>2. QED BY <4>1, UpdatesAddNothing DEF TypeOK
    <3>2. ASSUME NEW v \in VMs,
                 SyncObserve(v) \/ SyncExpire(v) \/ SyncMissing(v) \/ SyncSkip(v)
          PROVE  OnlyAdded
      BY <2>1, <3>2 DEF SyncObserve, SyncExpire, SyncMissing, SyncSkip
    <3>3. CASE \/ SyncList \/ SyncHypervisors
               \/ \E h \in Hypervisors : StatusRead(h) \/ StatusUpsert(h)
      BY <2>1, <3>3 DEF SyncList, SyncHypervisors, StatusRead, StatusUpsert
    <3>4. QED BY <2>3, <3>1, <3>2, <3>3 DEF Syncer, SyncVM
  <2>4. CASE \E h \in Hypervisors : RegisterHypervisor(h) \/ \E v \in VMs : Vanish(v, h)
    BY <2>1, <2>4 DEF RegisterHypervisor, Vanish
  <2>5. CASE UNCHANGED vars
    BY <2>1, <2>5 DEF vars
  <2>6. CASE Next
    BY <2>2, <2>3, <2>4, <2>6, HandlersAddRecords DEF Next
  <2>7. QED BY <2>5, <2>6
<1>2. TypeOK /\ [Next]_vars => [OnlyAdded]_vars
  BY <1>1
<1>3. QED BY <1>2, VMTypeCorrect, PTL DEF Spec, NoResurrection, OnlyAdded, AddedBy
=============================================================================
