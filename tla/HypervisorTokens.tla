-------------------------- MODULE HypervisorTokens --------------------------
(***************************************************************************)
(* The hypervisor inventory and its credentials: hypervisor/service.go and *)
(* infra/api/hypervisor.go under src/internal over the tables of           *)
(* infra/sql/hypervisor_store.go.  A registration token admits one         *)
(* hypervisor, an agent token lets the agent on a hypervisor in.           *)
(*                                                                         *)
(* Every SQL statement is a step.  Requests and the status sync overlap,   *)
(* may be cut off, and the deletion of agent tokens, whose error the code  *)
(* drops, may fail.                                                        *)
(***************************************************************************)
EXTENDS Naturals, FiniteSets

CONSTANTS
    Hypervisors,  \* hypervisor names
    Requests,     \* concurrent requests
    RegTokens,    \* registration tokens
    MaxAgents,    \* bound on agent tokens drawn
    MaxMishaps    \* bound on failed deletions and cut-off requests

(* A request that is not running has some name or other. *)
ASSUME HTAssumption == Hypervisors # {}

VARIABLES
    hv,           \* table hypervisors
    reg,          \* table registration_tokens
    agents,       \* table agent_tokens: [token, name]
    req,          \* what each running request has read so far
    lastAgent, mishaps,
    uses,         \* how often each token was redeemed or burned    (history)
    crossed       \* an agent token was issued across another issue,  (history)
                  \* across a deletion, or a deletion was cut short

htVars == <<hv, reg, agents, req, lastAgent, mishaps, uses, crossed>>
tables == <<hv, reg, agents>>
counts == <<lastAgent, mishaps>>
marks == <<uses, crossed>>

NoHV == [exists |-> FALSE, phase |-> "pending"]
NoRequest == [op |-> "idle", name |-> CHOOSE h \in Hypervisors : TRUE]

HTInit ==
    /\ hv = [h \in Hypervisors |-> NoHV]
    /\ reg = [t \in RegTokens |-> "unborn"]
    /\ agents = {}
    /\ req = [r \in Requests |-> NoRequest]
    /\ lastAgent = 0 /\ mishaps = 0
    /\ uses = [t \in RegTokens |-> 0]
    /\ crossed = {}

Becomes(r, op) == req' = [req EXCEPT ![r].op = op]
Finishes(r) == req' = [req EXCEPT ![r] = NoRequest]
Begins(r, op, h) ==
    /\ req[r].op = "idle"
    /\ req' = [req EXCEPT ![r] = [op |-> op, name |-> h]]
Running(op, h) == {r \in Requests : req[r].op = op /\ req[r].name = h}

(* Upsert writes settings and status together; the settings themselves are  *)
(* left out.                                                                *)
PutHV(h, phase) == hv' = [hv EXCEPT ![h] = [exists |-> TRUE, phase |-> phase]]

-----------------------------------------------------------------------------
(* Service.Create *)
CreateHypervisor(h) ==
    /\ PutHV(h, "pending")
    /\ UNCHANGED <<reg, agents, req, counts, marks>>

CreateToken(t) ==
    /\ reg[t] = "unborn"
    /\ reg' = [reg EXCEPT ![t] = "open"]
    /\ UNCHANGED <<hv, agents, req, counts, marks>>
ExpireToken(t) ==
    /\ reg[t] = "open"
    /\ reg' = [reg EXCEPT ![t] = "expired"]
    /\ UNCHANGED <<hv, agents, req, counts, marks>>
(* Bug: a used token that has not expired is accepted again. *)
RedeemableAgain(t) == reg[t] \in {"open", "used"}
(* The condition of the UPDATE in MarkUsed. *)
Redeemable(t) == reg[t] = "open"
(* MarkTokenUsed burns a token minted for an operation that failed. *)
MarkTokenUsed(t) ==
    /\ Redeemable(t)
    /\ reg' = [reg EXCEPT ![t] = "used"]
    /\ uses' = [uses EXCEPT ![t] = @ + 1]
    /\ UNCHANGED <<hv, agents, req, counts, crossed>>

(* Register: the token is marked, the row written, then an agent token is   *)
(* issued.                                                                  *)
RegisterMarks(r, t, h) ==
    /\ Redeemable(t)
    /\ Begins(r, "register", h)
    /\ reg' = [reg EXCEPT ![t] = "used"]
    /\ uses' = [uses EXCEPT ![t] = @ + 1]
    /\ UNCHANGED <<hv, agents, counts, crossed>>
RegisterWrites(r) ==
    /\ req[r].op = "register"
    /\ PutHV(req[r].name, "registered")
    /\ Becomes(r, "issue")
    /\ UNCHANGED <<reg, agents, counts, marks>>

(* CreateAgentToken: the hypervisor exists, its tokens are deleted, a new   *)
(* one is inserted.                                                         *)
IssueStarts(r, h) ==
    /\ Begins(r, "issue", h)
    /\ UNCHANGED <<tables, counts, marks>>
IssueReads(r) ==
    /\ req[r].op = "issue"
    /\ IF hv[req[r].name].exists THEN Becomes(r, "sweep") ELSE Finishes(r)
    /\ UNCHANGED <<tables, counts, marks>>
(* Bug: the tokens a hypervisor already has are kept. *)
KeptAll(h) == agents
(* DeleteByHypervisor *)
Kept(h) == {a \in agents : a.name # h}
IssueSweeps(r) ==
    LET h == req[r].name IN
    /\ req[r].op = "sweep"
    /\ agents' = Kept(h)
    /\ Becomes(r, "insert")
    /\ crossed' = IF Running("insert", h) # {} THEN crossed \cup {h} ELSE crossed
    /\ UNCHANGED <<hv, reg, counts, uses>>
IssueInserts(r) ==
    /\ req[r].op = "insert"
    /\ lastAgent < MaxAgents
    /\ lastAgent' = lastAgent + 1
    /\ agents' = agents \cup {[token |-> lastAgent', name |-> req[r].name]}
    /\ Finishes(r)
    /\ UNCHANGED <<hv, reg, mishaps, marks>>

-----------------------------------------------------------------------------
(* Service.Delete: the row, then the tokens. *)
DeleteStarts(r, h) ==
    /\ hv[h].exists
    /\ Begins(r, "delete", h)
    /\ UNCHANGED <<tables, counts, marks>>
DeleteRow(r) ==
    LET h == req[r].name IN
    /\ req[r].op = "delete"
    /\ hv' = [hv EXCEPT ![h] = NoHV]
    /\ IF hv[h].exists THEN Becomes(r, "orphans") ELSE Finishes(r)
    /\ crossed' = IF Running("sweep", h) \cup Running("insert", h) # {} THEN crossed \cup {h}
                  ELSE crossed
    /\ UNCHANGED <<reg, agents, counts, uses>>
OrphansSwept(r) == Kept(req[r].name)
DeleteTokens(r) ==
    /\ req[r].op = "orphans"
    /\ agents' = OrphansSwept(r)
    /\ Finishes(r)
    /\ UNCHANGED <<hv, reg, counts, marks>>

(* The deletion of tokens fails and the error is dropped, or a request is   *)
(* cut off: a token may outlive its successor or its hypervisor.            *)
Mishap == mishaps < MaxMishaps /\ mishaps' = mishaps + 1
SweepFails(r) ==
    /\ Mishap
    /\ req[r].op \in {"sweep", "orphans"}
    /\ IF req[r].op = "sweep" THEN Becomes(r, "insert") ELSE Finishes(r)
    /\ crossed' = crossed \cup {req[r].name}
    /\ UNCHANGED <<tables, lastAgent, uses>>
CutOff(r) ==
    /\ Mishap
    /\ req[r].op # "idle"
    /\ Finishes(r)
    /\ crossed' = IF req[r].op = "orphans" THEN crossed \cup {req[r].name} ELSE crossed
    /\ UNCHANGED <<tables, lastAgent, uses>>

-----------------------------------------------------------------------------
(* UpdateStatus, called by the sync loop for a hypervisor it listed: read   *)
(* the row again, then write all of it.                                     *)
StatusLists(r, h) ==
    /\ hv[h].exists
    /\ Begins(r, "listed", h)
    /\ UNCHANGED <<tables, counts, marks>>
StatusReads(r) ==
    /\ req[r].op = "listed"
    /\ IF hv[req[r].name].exists THEN Becomes(r, "status") ELSE Finishes(r)
    /\ UNCHANGED <<tables, counts, marks>>
StatusWrites(r, phase) ==
    /\ req[r].op = "status"
    /\ PutHV(req[r].name, phase)
    /\ Finishes(r)
    /\ UNCHANGED <<reg, agents, counts, marks>>

HTNext ==
    \/ \E h \in Hypervisors : CreateHypervisor(h)
    \/ \E t \in RegTokens : CreateToken(t) \/ ExpireToken(t) \/ MarkTokenUsed(t)
    \/ \E r \in Requests, h \in Hypervisors :
          \/ \E t \in RegTokens : RegisterMarks(r, t, h)
          \/ IssueStarts(r, h) \/ DeleteStarts(r, h) \/ StatusLists(r, h)
    \/ \E r \in Requests :
          \/ RegisterWrites(r) \/ IssueReads(r) \/ IssueSweeps(r) \/ IssueInserts(r)
          \/ DeleteRow(r) \/ DeleteTokens(r) \/ SweepFails(r) \/ CutOff(r) \/ StatusReads(r)
          \/ \E phase \in {"ready", "unreachable"} : StatusWrites(r, phase)
HTSpec == HTInit /\ [][HTNext]_htVars

-----------------------------------------------------------------------------
(* A registration token is used once: it admits one registration or it is   *)
(* burned, also when the two race.                                          *)
OneUsePerToken == \A t \in RegTokens : uses[t] <= 1

(* A hypervisor has at most one agent token, so that one it had before is   *)
(* dead, and none outlives its hypervisor, but for the moment between the   *)
(* two statements of the deletion.  Two issues that cross, an issue that    *)
(* crosses a deletion, and a deletion that fails or is cut short leave      *)
(* more behind.                                                             *)
AgentTokensAreLive ==
    \A h \in Hypervisors \ crossed :
        LET held == {a \in agents : a.name = h} IN
        /\ Cardinality(held) <= 1
        /\ held # {} => hv[h].exists \/ Running("orphans", h) # {}
=============================================================================
