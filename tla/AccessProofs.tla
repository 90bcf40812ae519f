---------------------------- MODULE AccessProofs ----------------------------
(***************************************************************************)
(* Theorems about the components that grant something to those who ask,    *)
(* for any number of concurrent requests: hypervisor credentials, account  *)
(* tokens, changes to Cluster API resources and DHCP leases.               *)
(***************************************************************************)
EXTENDS Accounts, HypervisorTokens, DHCPLeases, ClusterChanges, FiniteSetTheorems, WellFoundedInduction, TLAPS

-----------------------------------------------------------------------------
(* Hypervisor credentials                                                  *)

RequestOps == {"idle", "register", "issue", "sweep", "insert", "delete", "orphans", "listed", "status"}
RegStates == {"unborn", "open", "expired", "used"}

HTTypes ==
    /\ hv \in [Hypervisors -> [exists : BOOLEAN, phase : {"pending", "registered", "ready", "unreachable"}]]
    /\ reg \in [RegTokens -> RegStates] /\ uses \in [RegTokens -> Nat]
    /\ agents \subseteq [token : Nat, name : Hypervisors] /\ lastAgent \in Nat
    /\ req \in [Requests -> [op : RequestOps, name : Hypervisors]]
    /\ crossed \subseteq Hypervisors

\* A token that was not used has no use to its name.
Uses == \A t \in RegTokens : uses[t] = IF reg[t] = "used" THEN 1 ELSE 0

\* What holds of a hypervisor for which nothing crossed: it exists while an agent
\* token is issued, one issue is past its sweep, and finds no token there.
Sole(h) ==
    /\ \A r \in Requests : req[r].op \in {"sweep", "insert"} /\ req[r].name = h => hv[h].exists
    /\ \A r, s \in Requests : req[r].op = "insert" /\ req[r].name = h
                                 /\ req[s].op = "insert" /\ req[s].name = h => r = s
    /\ \A r \in Requests : req[r].op = "insert" /\ req[r].name = h => \A a \in agents : a.name # h
    /\ \A a, b \in agents : a.name = h /\ b.name = h => a = b
    /\ \A a \in agents : a.name = h =>
          hv[h].exists \/ \E r \in Requests : req[r].op = "orphans" /\ req[r].name = h

TokenInv == HTTypes /\ Uses /\ \A h \in Hypervisors \ crossed : Sole(h)

LEMMA NoRequestType ==
    /\ NoRequest \in [op : RequestOps, name : Hypervisors]
    /\ NoRequest.op = "idle"
<1>1. (CHOOSE h \in Hypervisors : TRUE) \in Hypervisors
  BY HTAssumption
<1>2. QED BY <1>1 DEF NoRequest, RequestOps

LEMMA TokenStart == HTInit => TokenInv
<1> SUFFICES ASSUME HTInit PROVE TokenInv
  OBVIOUS
<1>1. HTTypes
  <2>1. hv \in [Hypervisors -> [exists : BOOLEAN, phase : {"pending", "registered", "ready", "unreachable"}]]
    BY DEF HTInit, NoHV
  <2>2. req \in [Requests -> [op : RequestOps, name : Hypervisors]]
    BY NoRequestType DEF HTInit
  <2>3. QED BY <2>1, <2>2 DEF HTInit, HTTypes, RegStates
<1>2. Uses
  BY DEF HTInit, Uses
<1>3. \A h \in Hypervisors : Sole(h)
  <2>1. agents = {} /\ \A r \in Requests : req[r].op = "idle"
    BY NoRequestType DEF HTInit
  <2>2. ASSUME NEW h \in Hypervisors PROVE Sole(h)
    <3>1. \A r \in Requests : ~(req[r].op \in {"sweep", "insert"})
      BY <2>1
    <3>2. QED BY <2>1, <3>1 DEF Sole
  <2>3. QED BY <2>2
<1>4. QED BY <1>1, <1>2, <1>3 DEF TokenInv

\* One request after a step of it.
LEMMA RequestBecomes ==
  ASSUME HTTypes, NEW r \in Requests, NEW op \in RequestOps, Becomes(r, op)
  PROVE  /\ req' \in [Requests -> [op : RequestOps, name : Hypervisors]]
         /\ req'[r].op = op /\ req'[r].name = req[r].name
         /\ \A s \in Requests \ {r} : req'[s] = req[s]
BY DEF HTTypes, Becomes

LEMMA RequestFinishes ==
  ASSUME HTTypes, NEW r \in Requests, Finishes(r)
  PROVE  /\ req' \in [Requests -> [op : RequestOps, name : Hypervisors]]
         /\ req'[r].op = "idle"
         /\ \A s \in Requests \ {r} : req'[s] = req[s]
BY NoRequestType DEF HTTypes, Finishes

LEMMA RequestBegins ==
  ASSUME HTTypes, NEW r \in Requests, NEW op \in RequestOps, NEW h \in Hypervisors, Begins(r, op, h)
  PROVE  /\ req' \in [Requests -> [op : RequestOps, name : Hypervisors]]
         /\ req[r].op = "idle" /\ req'[r].op = op /\ req'[r].name = h
         /\ \A s \in Requests \ {r} : req'[s] = req[s]
BY DEF HTTypes, Begins

\* A row after it was written.
LEMMA RowPut ==
  ASSUME HTTypes, NEW h \in Hypervisors, NEW phase \in {"pending", "registered", "ready", "unreachable"},
         PutHV(h, phase)
  PROVE  /\ hv' \in [Hypervisors -> [exists : BOOLEAN, phase : {"pending", "registered", "ready", "unreachable"}]]
         /\ \A g \in Hypervisors : hv[g].exists => hv'[g].exists
BY DEF HTTypes, PutHV

\* A step after which the tokens are what they were, and no request is where only
\* a step of an issue or a deletion leads.
LEMMA SoleKept ==
  ASSUME TokenInv, HTTypes', UNCHANGED agents, crossed \subseteq crossed',
         \A h \in Hypervisors : hv[h].exists => hv'[h].exists,
         \A s \in Requests : /\ req'[s].op \in {"sweep", "insert", "orphans"} => req'[s] = req[s]
                             /\ req[s].op = "orphans" => req'[s] = req[s]
  PROVE  \A h \in Hypervisors \ crossed' : Sole(h)'
<1> SUFFICES ASSUME NEW h \in Hypervisors, h \notin crossed' PROVE Sole(h)'
  OBVIOUS
<1>1. Sole(h) /\ (hv[h].exists => hv'[h].exists)
  BY DEF TokenInv
<1>2. /\ \A r \in Requests : req'[r].op \in {"sweep", "insert"} /\ req'[r].name = h => hv'[h].exists
      /\ \A r, s \in Requests : req'[r].op = "insert" /\ req'[r].name = h
                                   /\ req'[s].op = "insert" /\ req'[s].name = h => r = s
  BY <1>1 DEF Sole
<1>3. /\ \A r \in Requests : req'[r].op = "insert" /\ req'[r].name = h => \A a \in agents : a.name # h
      /\ \A a, b \in agents : a.name = h /\ b.name = h => a = b
  <2>1. \A r \in Requests : req'[r].op = "insert" /\ req'[r].name = h => \A a \in agents : a.name # h
    BY <1>1 DEF Sole
  <2>2. \A a, b \in agents : a.name = h /\ b.name = h => a = b
    BY <1>1 DEF Sole
  <2>3. QED BY <2>1, <2>2
<1>4. \A a \in agents : a.name = h =>
          hv'[h].exists \/ \E r \in Requests : req'[r].op = "orphans" /\ req'[r].name = h
  BY <1>1 DEF Sole
<1>5. QED BY <1>2, <1>3, <1>4 DEF Sole

LEMMA TokenRegistrations ==
  ASSUME TokenInv,
         \/ \E h \in Hypervisors : CreateHypervisor(h)
         \/ \E t \in RegTokens : CreateToken(t) \/ ExpireToken(t) \/ MarkTokenUsed(t)
         \/ \E r \in Requests, t \in RegTokens, h \in Hypervisors : RegisterMarks(r, t, h)
  PROVE  TokenInv'
<1>1. HTTypes /\ Uses
  BY DEF TokenInv
<1>2. CASE \E h \in Hypervisors : CreateHypervisor(h)
  <2>1. PICK h \in Hypervisors : PutHV(h, "pending") /\ UNCHANGED <<reg, agents, req, counts, marks>>
    BY <1>2 DEF CreateHypervisor
  <2>2. HTTypes' /\ \A g \in Hypervisors : hv[g].exists => hv'[g].exists
    BY <1>1, <2>1, RowPut DEF HTTypes, counts, marks
  <2>3. \A g \in Hypervisors \ crossed' : Sole(g)'
    BY <2>1, <2>2, SoleKept DEF marks
  <2>4. QED BY <1>1, <2>1, <2>2, <2>3 DEF TokenInv, Uses, marks
<1>3. CASE \/ \E t \in RegTokens : CreateToken(t) \/ ExpireToken(t) \/ MarkTokenUsed(t)
           \/ \E r \in Requests, t \in RegTokens, h \in Hypervisors : RegisterMarks(r, t, h)
  <2>1. PICK t \in RegTokens : \/ CreateToken(t) \/ ExpireToken(t) \/ MarkTokenUsed(t)
                               \/ \E r \in Requests, h \in Hypervisors : RegisterMarks(r, t, h)
    BY <1>3
  <2>2. UNCHANGED <<hv, agents, lastAgent, crossed>>
    BY <2>1 DEF CreateToken, ExpireToken, MarkTokenUsed, RegisterMarks, counts, marks
  <2>3. \/ reg[t] # "used" /\ (\E x \in {"open", "expired"} : reg' = [reg EXCEPT ![t] = x]) /\ uses' = uses
        \/ reg[t] # "used" /\ reg' = [reg EXCEPT ![t] = "used"] /\ uses' = [uses EXCEPT ![t] = @ + 1]
    BY <2>1 DEF CreateToken, ExpireToken, MarkTokenUsed, RegisterMarks, Redeemable, marks
  <2>4. reg' \in [RegTokens -> RegStates] /\ uses' \in [RegTokens -> Nat] /\ Uses'
    BY <1>1, <2>3 DEF HTTypes, Uses, RegStates
  <2>5. /\ req' \in [Requests -> [op : RequestOps, name : Hypervisors]]
        /\ \A s \in Requests : req'[s] = req[s] \/ (req[s].op = "idle" /\ req'[s].op = "register")
    <3>1. CASE CreateToken(t) \/ ExpireToken(t) \/ MarkTokenUsed(t)
      BY <1>1, <3>1 DEF CreateToken, ExpireToken, MarkTokenUsed, HTTypes
    <3>2. CASE \E r \in Requests, h \in Hypervisors : RegisterMarks(r, t, h)
      <4>1. PICK r \in Requests, h \in Hypervisors : Begins(r, "register", h)
        BY <3>2 DEF RegisterMarks
      <4>2. QED BY <1>1, <4>1, RequestBegins DEF RequestOps
    <3>3. QED BY <2>1, <3>1, <3>2
  <2>6. HTTypes'
    BY <1>1, <2>2, <2>4, <2>5 DEF HTTypes
  <2>7. \A g \in Hypervisors \ crossed' : Sole(g)'
    BY <2>2, <2>5, <2>6, SoleKept
  <2>8. QED BY <2>4, <2>6, <2>7 DEF TokenInv
<1>4. QED BY <1>2, <1>3

\* Steps of a request that lead to no sweep, insertion or deletion.
LEMMA TokenRequests ==
  ASSUME TokenInv, NEW r \in Requests,
         \/ RegisterWrites(r) \/ StatusReads(r)
         \/ \E phase \in {"ready", "unreachable"} : StatusWrites(r, phase)
         \/ \E h \in Hypervisors : IssueStarts(r, h) \/ DeleteStarts(r, h) \/ StatusLists(r, h)
  PROVE  TokenInv'
<1>1. HTTypes /\ req[r].name \in Hypervisors
  BY DEF TokenInv, HTTypes
<1>2. UNCHANGED <<reg, agents, lastAgent, uses, crossed>>
  BY DEF RegisterWrites, StatusReads, StatusWrites, IssueStarts, DeleteStarts, StatusLists, counts, marks, tables
<1>3. /\ hv' \in [Hypervisors -> [exists : BOOLEAN, phase : {"pending", "registered", "ready", "unreachable"}]]
      /\ \A g \in Hypervisors : hv[g].exists => hv'[g].exists
  <2>1. hv' = hv \/ \E phase \in {"registered", "ready", "unreachable"} : PutHV(req[r].name, phase)
    BY DEF RegisterWrites, StatusReads, StatusWrites, IssueStarts, DeleteStarts, StatusLists, tables
  <2>2. QED BY <1>1, <2>1, RowPut DEF HTTypes
<1>4. /\ req' \in [Requests -> [op : RequestOps, name : Hypervisors]]
      /\ \A s \in Requests \ {r} : req'[s] = req[s]
      /\ req'[r].op \notin {"sweep", "insert", "orphans"} /\ req[r].op # "orphans"
  <2>1. CASE RegisterWrites(r)
    BY <1>1, <2>1, RequestBecomes DEF RegisterWrites, RequestOps
  <2>2. CASE StatusReads(r)
    <3>1. Becomes(r, "status") \/ Finishes(r)
      BY <2>2 DEF StatusReads
    <3>2. QED BY <1>1, <2>2, <3>1, RequestBecomes, RequestFinishes DEF StatusReads, RequestOps
  <2>3. CASE \E phase \in {"ready", "unreachable"} : StatusWrites(r, phase)
    BY <1>1, <2>3, RequestFinishes DEF StatusWrites
  <2>4. CASE \E h \in Hypervisors : IssueStarts(r, h) \/ DeleteStarts(r, h) \/ StatusLists(r, h)
    <3>1. PICK h \in Hypervisors : Begins(r, "issue", h) \/ Begins(r, "delete", h) \/ Begins(r, "listed", h)
      BY <2>4 DEF IssueStarts, DeleteStarts, StatusLists
    <3>2. QED BY <1>1, <3>1, RequestBegins DEF RequestOps
  <2>5. QED BY <2>1, <2>2, <2>3, <2>4
<1>5. HTTypes'
  BY <1>1, <1>2, <1>3, <1>4 DEF HTTypes
<1>6. \A h \in Hypervisors \ crossed' : Sole(h)'
  BY <1>2, <1>3, <1>4, <1>5, SoleKept
<1>7. QED BY <1>2, <1>5, <1>6 DEF TokenInv, Uses

LEMMA TokenIssueReads ==
  ASSUME TokenInv, NEW r \in Requests, IssueReads(r)
  PROVE  TokenInv'
<1>1. HTTypes /\ req[r].op = "issue" /\ UNCHANGED <<hv, reg, agents, lastAgent, uses, crossed>>
  BY DEF TokenInv, IssueReads, tables, counts, marks
<1>2. CASE hv[req[r].name].exists
  <2>1. /\ req' \in [Requests -> [op : RequestOps, name : Hypervisors]]
        /\ req'[r].op = "sweep" /\ req'[r].name = req[r].name
        /\ \A s \in Requests \ {r} : req'[s] = req[s]
    BY <1>1, <1>2, RequestBecomes DEF IssueReads, RequestOps
  <2>2. ASSUME NEW h \in Hypervisors, h \notin crossed PROVE Sole(h)'
    <3>1. Sole(h)
      BY <2>2 DEF TokenInv
    <3>2. /\ \A s \in Requests : req'[s].op \in {"sweep", "insert"} /\ req'[s].name = h => hv[h].exists
          /\ \A q, s \in Requests : req'[q].op = "insert" /\ req'[q].name = h
                                       /\ req'[s].op = "insert" /\ req'[s].name = h => q = s
      BY <1>2, <2>1, <3>1 DEF Sole
    <3>3. /\ \A s \in Requests : req'[s].op = "insert" /\ req'[s].name = h => \A a \in agents : a.name # h
          /\ \A a, b \in agents : a.name = h /\ b.name = h => a = b
      <4>1. \A s \in Requests : req'[s].op = "insert" /\ req'[s].name = h => \A a \in agents : a.name # h
        BY <2>1, <3>1 DEF Sole
      <4>2. \A a, b \in agents : a.name = h /\ b.name = h => a = b
        BY <2>1, <3>1 DEF Sole
      <4>3. QED BY <4>1, <4>2
    <3>4. \A a \in agents : a.name = h =>
              hv[h].exists \/ \E s \in Requests : req'[s].op = "orphans" /\ req'[s].name = h
      BY <1>1, <2>1, <3>1 DEF Sole
    <3>5. QED BY <1>1, <3>2, <3>3, <3>4 DEF Sole
  <2>3. HTTypes'
    BY <1>1, <2>1 DEF HTTypes
  <2>4. QED BY <1>1, <2>2, <2>3 DEF TokenInv, Uses
<1>3. CASE ~hv[req[r].name].exists
  <2>1. /\ req' \in [Requests -> [op : RequestOps, name : Hypervisors]] /\ req'[r].op = "idle"
        /\ \A s \in Requests \ {r} : req'[s] = req[s]
    BY <1>1, <1>3, RequestFinishes DEF IssueReads
  <2>2. HTTypes'
    BY <1>1, <2>1 DEF HTTypes
  <2>3. \A h \in Hypervisors \ crossed' : Sole(h)'
    BY <1>1, <2>1, <2>2, SoleKept
  <2>4. QED BY <1>1, <2>2, <2>3 DEF TokenInv, Uses
<1>4. QED BY <1>2, <1>3

\* The sweep: an issue that is past its own would have crossed this one.
LEMMA TokenSweeps ==
  ASSUME TokenInv, NEW r \in Requests, IssueSweeps(r)
  PROVE  TokenInv'
<1> DEFINE h == req[r].name
<1>1. HTTypes /\ h \in Hypervisors /\ req[r].op = "sweep" /\ UNCHANGED <<hv, reg, lastAgent, uses>>
  BY DEF TokenInv, HTTypes, IssueSweeps, counts
<1>2. agents' = {a \in agents : a.name # h} /\ crossed \subseteq crossed' /\ crossed' \subseteq crossed \cup {h}
  BY DEF IssueSweeps, Kept
<1>3. h \in crossed' \/ \A s \in Requests : ~(req[s].op = "insert" /\ req[s].name = h)
  BY DEF IssueSweeps, Running
<1>4. /\ req' \in [Requests -> [op : RequestOps, name : Hypervisors]]
      /\ req'[r].op = "insert" /\ req'[r].name = h
      /\ \A s \in Requests \ {r} : req'[s] = req[s]
  BY <1>1, RequestBecomes DEF IssueSweeps, RequestOps
<1>5. HTTypes'
  BY <1>1, <1>2, <1>4 DEF HTTypes
<1>6. ASSUME NEW g \in Hypervisors, g \notin crossed' PROVE Sole(g)'
  <2>1. Sole(g)
    BY <1>2, <1>6 DEF TokenInv
  <2>2. \A s \in Requests : req'[s].op \in {"sweep", "insert"} /\ req'[s].name = g => hv[g].exists
    BY <1>1, <1>4, <2>1 DEF Sole
  <2>3. \A q, s \in Requests : req'[q].op = "insert" /\ req'[q].name = g
                                  /\ req'[s].op = "insert" /\ req'[s].name = g => q = s
    BY <1>3, <1>4, <1>6, <2>1 DEF Sole
  <2>4. \A s \in Requests : req'[s].op = "insert" /\ req'[s].name = g => \A a \in agents' : a.name # g
    BY <1>2, <1>4, <2>1 DEF Sole
  <2>5. \A a, b \in agents' : a.name = g /\ b.name = g => a = b
    BY <1>2, <2>1 DEF Sole
  <2>6. \A a \in agents' : a.name = g =>
            hv[g].exists \/ \E s \in Requests : req'[s].op = "orphans" /\ req'[s].name = g
    <3> SUFFICES ASSUME NEW a \in agents', a.name = g, ~hv[g].exists
                 PROVE  \E s \in Requests : req'[s].op = "orphans" /\ req'[s].name = g
      OBVIOUS
    <3>1. PICK s \in Requests : req[s].op = "orphans" /\ req[s].name = g
      BY <1>2, <2>1 DEF Sole
    <3>2. QED BY <1>1, <1>4, <3>1
  <2>7. QED BY <1>1, <2>2, <2>3, <2>4, <2>5, <2>6 DEF Sole
<1>7. QED BY <1>1, <1>5, <1>6 DEF TokenInv, Uses

LEMMA TokenInserts ==
  ASSUME TokenInv, NEW r \in Requests, IssueInserts(r)
  PROVE  TokenInv'
<1> DEFINE h == req[r].name
           new == [token |-> lastAgent + 1, name |-> h]
<1>1. HTTypes /\ h \in Hypervisors /\ req[r].op = "insert" /\ UNCHANGED <<hv, reg, uses, crossed>>
  BY DEF TokenInv, HTTypes, IssueInserts, marks
<1>2. agents' = agents \cup {new} /\ lastAgent' \in Nat /\ new \in [token : Nat, name : Hypervisors] /\ new.name = h
  BY <1>1 DEF IssueInserts, HTTypes
<1>3. /\ req' \in [Requests -> [op : RequestOps, name : Hypervisors]] /\ req'[r].op = "idle"
      /\ \A s \in Requests \ {r} : req'[s] = req[s]
  BY <1>1, RequestFinishes DEF IssueInserts
<1> HIDE DEF new
<1>4. HTTypes'
  BY <1>1, <1>2, <1>3 DEF HTTypes
<1>5. ASSUME NEW g \in Hypervisors, g \notin crossed' PROVE Sole(g)'
  <2>1. Sole(g)
    BY <1>1, <1>5 DEF TokenInv
  <2>2. \A s \in Requests : req'[s].op \in {"sweep", "insert"} /\ req'[s].name = g => hv[g].exists
    BY <1>3, <2>1 DEF Sole
  <2>3. \A q, s \in Requests : req'[q].op = "insert" /\ req'[q].name = g
                                  /\ req'[s].op = "insert" /\ req'[s].name = g => q = s
    BY <1>3, <2>1 DEF Sole
  <2>4. \A s \in Requests : req'[s].op = "insert" /\ req'[s].name = g => \A a \in agents' : a.name # g
    <3> SUFFICES ASSUME NEW s \in Requests, NEW a \in agents', req'[s].op = "insert", req'[s].name = g, a.name = g
                 PROVE  FALSE
      OBVIOUS
    <3>1. s # r /\ req[s].op = "insert" /\ req[s].name = g
      BY <1>3
    <3>2. a = new
      BY <1>2, <2>1, <3>1 DEF Sole
    <3>3. QED BY <1>1, <1>2, <2>1, <3>1, <3>2 DEF Sole
  <2>5. \A a, b \in agents' : a.name = g /\ b.name = g => a = b
    BY <1>1, <1>2, <2>1 DEF Sole
  <2>6. \A a \in agents' : a.name = g =>
            hv[g].exists \/ \E s \in Requests : req'[s].op = "orphans" /\ req'[s].name = g
    <3> SUFFICES ASSUME NEW a \in agents', a.name = g, ~hv[g].exists
                 PROVE  \E s \in Requests : req'[s].op = "orphans" /\ req'[s].name = g
      OBVIOUS
    <3>1. a # new
      BY <1>1, <1>2, <2>1 DEF Sole
    <3>2. PICK s \in Requests : req[s].op = "orphans" /\ req[s].name = g
      BY <1>2, <2>1, <3>1 DEF Sole
    <3>3. QED BY <1>1, <1>3, <3>2
  <2>7. QED BY <1>1, <2>2, <2>3, <2>4, <2>5, <2>6 DEF Sole
<1>6. QED BY <1>1, <1>4, <1>5 DEF TokenInv, Uses

\* The deletion of the row: an issue past its first read would have crossed it.
LEMMA TokenRowDeleted ==
  ASSUME TokenInv, NEW r \in Requests, DeleteRow(r)
  PROVE  TokenInv'
<1> DEFINE h == req[r].name
<1>1. HTTypes /\ h \in Hypervisors /\ req[r].op = "delete" /\ UNCHANGED <<reg, agents, lastAgent, uses>>
  BY DEF TokenInv, HTTypes, DeleteRow, counts
<1>2. /\ hv' \in [Hypervisors -> [exists : BOOLEAN, phase : {"pending", "registered", "ready", "unreachable"}]]
      /\ hv'[h].exists = FALSE /\ \A g \in Hypervisors \ {h} : hv'[g] = hv[g]
  BY <1>1 DEF DeleteRow, HTTypes, NoHV
<1>3. /\ crossed \subseteq crossed' /\ crossed' \subseteq crossed \cup {h}
      /\ h \in crossed' \/ \A s \in Requests : ~(req[s].op \in {"sweep", "insert"} /\ req[s].name = h)
  BY DEF DeleteRow, Running
<1>4. /\ req' \in [Requests -> [op : RequestOps, name : Hypervisors]]
      /\ req'[r].op = IF hv[h].exists THEN "orphans" ELSE "idle"
      /\ hv[h].exists => req'[r].name = h
      /\ \A s \in Requests \ {r} : req'[s] = req[s]
  <2>1. CASE hv[h].exists
    BY <1>1, <2>1, RequestBecomes DEF DeleteRow, RequestOps
  <2>2. CASE ~hv[h].exists
    BY <1>1, <2>2, RequestFinishes DEF DeleteRow
  <2>3. QED BY <2>1, <2>2
<1>5. HTTypes'
  BY <1>1, <1>2, <1>3, <1>4 DEF HTTypes
<1>6. ASSUME NEW g \in Hypervisors, g \notin crossed' PROVE Sole(g)'
  <2>1. Sole(g)
    BY <1>3, <1>6 DEF TokenInv
  <2>2. \A s \in Requests : req'[s].op \in {"sweep", "insert"} /\ req'[s].name = g => hv'[g].exists
    BY <1>2, <1>3, <1>4, <1>6, <2>1 DEF Sole
  <2>3. \A q, s \in Requests : req'[q].op = "insert" /\ req'[q].name = g
                                  /\ req'[s].op = "insert" /\ req'[s].name = g => q = s
    BY <1>4, <2>1 DEF Sole
  <2>4. /\ \A s \in Requests : req'[s].op = "insert" /\ req'[s].name = g => \A a \in agents : a.name # g
        /\ \A a, b \in agents : a.name = g /\ b.name = g => a = b
    <3>1. \A s \in Requests : req'[s].op = "insert" /\ req'[s].name = g => \A a \in agents : a.name # g
      BY <1>4, <2>1 DEF Sole
    <3>2. \A a, b \in agents : a.name = g /\ b.name = g => a = b
      BY <1>4, <2>1 DEF Sole
    <3>3. QED BY <3>1, <3>2
  <2>5. \A a \in agents : a.name = g =>
            hv'[g].exists \/ \E s \in Requests : req'[s].op = "orphans" /\ req'[s].name = g
    <3> SUFFICES ASSUME NEW a \in agents, a.name = g, ~hv'[g].exists
                 PROVE  \E s \in Requests : req'[s].op = "orphans" /\ req'[s].name = g
      OBVIOUS
    <3>1. CASE hv[g].exists
      BY <1>2, <1>4, <3>1
    <3>2. CASE ~hv[g].exists
      <4>1. PICK s \in Requests : req[s].op = "orphans" /\ req[s].name = g
        BY <2>1, <3>2 DEF Sole
      <4>2. QED BY <1>1, <1>4, <4>1
    <3>3. QED BY <3>1, <3>2
  <2>6. QED BY <1>1, <2>2, <2>3, <2>4, <2>5 DEF Sole
<1>7. QED BY <1>1, <1>5, <1>6 DEF TokenInv, Uses

LEMMA TokensDeleted ==
  ASSUME TokenInv, NEW r \in Requests, DeleteTokens(r)
  PROVE  TokenInv'
<1> DEFINE h == req[r].name
<1>1. HTTypes /\ h \in Hypervisors /\ req[r].op = "orphans" /\ UNCHANGED <<hv, reg, lastAgent, uses, crossed>>
  BY DEF TokenInv, HTTypes, DeleteTokens, counts, marks
<1>2. agents' = {a \in agents : a.name # h}
  BY DEF DeleteTokens, OrphansSwept, Kept
<1>3. /\ req' \in [Requests -> [op : RequestOps, name : Hypervisors]] /\ req'[r].op = "idle"
      /\ \A s \in Requests \ {r} : req'[s] = req[s]
  BY <1>1, RequestFinishes DEF DeleteTokens
<1>4. HTTypes'
  BY <1>1, <1>2, <1>3 DEF HTTypes
<1>5. ASSUME NEW g \in Hypervisors, g \notin crossed' PROVE Sole(g)'
  <2>1. Sole(g)
    BY <1>1, <1>5 DEF TokenInv
  <2>2. /\ \A s \in Requests : req'[s].op \in {"sweep", "insert"} /\ req'[s].name = g => hv[g].exists
        /\ \A q, s \in Requests : req'[q].op = "insert" /\ req'[q].name = g
                                     /\ req'[s].op = "insert" /\ req'[s].name = g => q = s
    BY <1>3, <2>1 DEF Sole
  <2>3. /\ \A s \in Requests : req'[s].op = "insert" /\ req'[s].name = g => \A a \in agents' : a.name # g
        /\ \A a, b \in agents' : a.name = g /\ b.name = g => a = b
    <3>1. \A s \in Requests : req'[s].op = "insert" /\ req'[s].name = g => \A a \in agents' : a.name # g
      BY <1>2, <1>3, <2>1 DEF Sole
    <3>2. \A a, b \in agents' : a.name = g /\ b.name = g => a = b
      BY <1>2, <1>3, <2>1 DEF Sole
    <3>3. QED BY <3>1, <3>2
  <2>4. \A a \in agents' : a.name = g =>
            hv[g].exists \/ \E s \in Requests : req'[s].op = "orphans" /\ req'[s].name = g
    <3> SUFFICES ASSUME NEW a \in agents', a.name = g, ~hv[g].exists
                 PROVE  \E s \in Requests : req'[s].op = "orphans" /\ req'[s].name = g
      OBVIOUS
    <3>1. g # h
      BY <1>2
    <3>2. PICK s \in Requests : req[s].op = "orphans" /\ req[s].name = g
      BY <1>2, <2>1 DEF Sole
    <3>3. QED BY <1>1, <1>3, <3>1, <3>2
  <2>5. QED BY <1>1, <2>2, <2>3, <2>4 DEF Sole
<1>6. QED BY <1>1, <1>4, <1>5 DEF TokenInv, Uses

\* A deletion that fails or is cut short is noted, any other request just ends.
LEMMA TokenMishaps ==
  ASSUME TokenInv, NEW r \in Requests, SweepFails(r) \/ CutOff(r)
  PROVE  TokenInv'
<1> DEFINE h == req[r].name
<1>1. HTTypes /\ h \in Hypervisors /\ UNCHANGED <<hv, reg, agents, lastAgent, uses>>
  BY DEF TokenInv, HTTypes, SweepFails, CutOff, tables
<1>2. /\ crossed \subseteq crossed' /\ crossed' \subseteq crossed \cup {h}
      /\ req[r].op = "orphans" \/ SweepFails(r) => h \in crossed'
  BY DEF SweepFails, CutOff
<1>3. /\ req' \in [Requests -> [op : RequestOps, name : Hypervisors]]
      /\ req'[r].op = "idle" \/ (SweepFails(r) /\ req'[r].op = "insert" /\ req'[r].name = h)
      /\ \A s \in Requests \ {r} : req'[s] = req[s]
  <2>1. (SweepFails(r) /\ Becomes(r, "insert")) \/ Finishes(r)
    BY DEF SweepFails, CutOff
  <2>2. QED BY <1>1, <2>1, RequestBecomes, RequestFinishes DEF RequestOps
<1>4. HTTypes'
  BY <1>1, <1>2, <1>3 DEF HTTypes
<1>5. ASSUME NEW g \in Hypervisors, g \notin crossed' PROVE Sole(g)'
  <2>1. Sole(g)
    BY <1>2, <1>5 DEF TokenInv
  <2>2. \A s \in Requests : req'[s].op \in {"sweep", "insert"} /\ req'[s].name = g => req'[s] = req[s]
    BY <1>2, <1>3, <1>5
  <2>3. \A s \in Requests : req[s].op = "orphans" /\ req[s].name = g => req'[s] = req[s]
    BY <1>2, <1>3, <1>5
  <2>4. /\ \A s \in Requests : req'[s].op \in {"sweep", "insert"} /\ req'[s].name = g => hv[g].exists
        /\ \A q, s \in Requests : req'[q].op = "insert" /\ req'[q].name = g
                                     /\ req'[s].op = "insert" /\ req'[s].name = g => q = s
    BY <2>1, <2>2 DEF Sole
  <2>5. /\ \A s \in Requests : req'[s].op = "insert" /\ req'[s].name = g => \A a \in agents : a.name # g
        /\ \A a, b \in agents : a.name = g /\ b.name = g => a = b
    <3>1. \A s \in Requests : req'[s].op = "insert" /\ req'[s].name = g => \A a \in agents : a.name # g
      BY <2>1, <2>2 DEF Sole
    <3>2. \A a, b \in agents : a.name = g /\ b.name = g => a = b
      BY <2>1, <2>2 DEF Sole
    <3>3. QED BY <3>1, <3>2
  <2>6. \A a \in agents : a.name = g =>
            hv[g].exists \/ \E s \in Requests : req'[s].op = "orphans" /\ req'[s].name = g
    BY <2>1, <2>3 DEF Sole
  <2>7. QED BY <1>1, <2>4, <2>5, <2>6 DEF Sole
<1>6. QED BY <1>1, <1>4, <1>5 DEF TokenInv, Uses

LEMMA TokenStep == TokenInv /\ [HTNext]_htVars => TokenInv'
<1> SUFFICES ASSUME TokenInv, [HTNext]_htVars PROVE TokenInv'
  OBVIOUS
<1>1. CASE HTNext
  <2>1. CASE \/ \E h \in Hypervisors : CreateHypervisor(h)
             \/ \E t \in RegTokens : CreateToken(t) \/ ExpireToken(t) \/ MarkTokenUsed(t)
             \/ \E r \in Requests, t \in RegTokens, h \in Hypervisors : RegisterMarks(r, t, h)
    BY <2>1, TokenRegistrations
  <2>2. CASE \E r \in Requests :
                \/ RegisterWrites(r) \/ StatusReads(r)
                \/ \E phase \in {"ready", "unreachable"} : StatusWrites(r, phase)
                \/ \E h \in Hypervisors : IssueStarts(r, h) \/ DeleteStarts(r, h) \/ StatusLists(r, h)
    BY <2>2, TokenRequests
  <2>3. CASE \E r \in Requests : IssueReads(r) \/ IssueSweeps(r) \/ IssueInserts(r) \/ DeleteRow(r) \/ DeleteTokens(r)
    BY <2>3, TokenIssueReads, TokenSweeps, TokenInserts, TokenRowDeleted, TokensDeleted
  <2>4. CASE \E r \in Requests : SweepFails(r) \/ CutOff(r)
    BY <2>4, TokenMishaps
  <2>5. QED BY <1>1, <2>1, <2>2, <2>3, <2>4 DEF HTNext
<1>2. CASE UNCHANGED htVars
  BY <1>2 DEF htVars, TokenInv, HTTypes, Uses, Sole
<1>3. QED BY <1>1, <1>2

(* A registration token admits one registration, or is burned, once: the      *)
(* conditional UPDATE of MarkUsed lets one of any number of racing requests   *)
(* through.                                                                   *)
THEOREM RegistrationTokensAreUsedOnce == HTSpec => []OneUsePerToken
<1>1. TokenInv => OneUsePerToken
  BY DEF TokenInv, Uses, OneUsePerToken
<1>2. QED BY TokenStart, TokenStep, <1>1, PTL DEF HTSpec

(* Unless issues cross one another or a deletion, or a deletion fails, a      *)
(* hypervisor has at most one agent token and none outlives it                *)
(* (CreateAgentToken and Service.Delete of hypervisor/service.go).            *)
THEOREM AgentTokensDieWithHypervisor == HTSpec => []AgentTokensAreLive
<1>1. ASSUME TokenInv PROVE AgentTokensAreLive
  <2> SUFFICES ASSUME NEW h \in Hypervisors \ crossed
               PROVE  /\ Cardinality({a \in agents : a.name = h}) <= 1
                      /\ {a \in agents : a.name = h} # {} => hv[h].exists \/ Running("orphans", h) # {}
    BY DEF AgentTokensAreLive
  <2>1. Sole(h)
    BY <1>1 DEF TokenInv
  <2> DEFINE held == {a \in agents : a.name = h}
  <2>2. CASE held = {}
    <3>1. Cardinality(held) = 0
      BY <2>2, FS_EmptySet
    <3>2. QED BY <2>2, <3>1
  <2>3. CASE held # {}
    <3>1. PICK a \in agents : a.name = h
      BY <2>3
    <3>2. held = {a}
      BY <2>1, <3>1 DEF Sole
    <3>3. Cardinality(held) = 1
      BY <3>2, FS_Singleton
    <3>4. hv[h].exists \/ Running("orphans", h) # {}
      BY <2>1, <3>1 DEF Sole, Running
    <3>5. QED BY <3>3, <3>4
  <2>4. QED BY <2>2, <2>3
<1>2. QED BY TokenStart, TokenStep, <1>1, PTL DEF HTSpec

-----------------------------------------------------------------------------
(* Changes to Cluster API resources                                        *)

ResType == [kind : Resources, uid : Nat, rv : Nat, deleting : BOOLEAN,
            paused : BOOLEAN, annotated : BOOLEAN, replicas : 0..1]
AskStates == {"idle", "reviewed", "allow", "patch", "reread", "conflict", "invalid", "done", "failed"}
AskType == [at : AskStates, change : {"", "pause", "resume", "scale"}, seen : ResType, read : ResType,
            ranFree : BOOLEAN]

CCTypes == res \in ResType /\ version \in Nat /\ parentPaused \in BOOLEAN /\ ask \in [Operators -> AskType]

\* What a request that went past its first read knows: the version it was asked
\* to replace is the one it read, and unless that version is gone, so is the
\* annotation; the Cluster of a worker group was running at some time since.
Informed(a) ==
    /\ a.at \in {"allow", "patch"} =>
          /\ a.read.rv = a.seen.rv /\ a.read.rv <= version
          /\ a.read.rv = version => a.read.annotated = res.annotated
    /\ a.at = "allow" => parentPaused \/ a.ranFree
    /\ a.at = "patch" /\ a.change = "scale" => a.ranFree

ChangeInv == CCTypes /\ res.rv = version /\ strayed = {} /\ \A o \in Operators : Informed(ask[o])

LEMMA NewResType ==
  ASSUME NEW kind \in Resources, NEW uid \in Nat, NEW v \in Nat
  PROVE  NewRes(kind, uid, v) \in ResType /\ NewRes(kind, uid, v).rv = v
BY DEF NewRes, ResType

LEMMA NoAskType == NoAsk \in AskType /\ NoAsk.at = "idle"
BY NewResType DEF NoAsk, AskType, AskStates, Resources

LEMMA ChangeStart == CCInit => ChangeInv
<1> SUFFICES ASSUME CCInit PROVE ChangeInv
  OBVIOUS
<1>1. res \in ResType /\ res.rv = 0 /\ version = 0
  BY NewResType DEF CCInit
<1>2. ask \in [Operators -> AskType] /\ \A o \in Operators : ask[o].at = "idle"
  BY NoAskType DEF CCInit
<1>3. \A o \in Operators : Informed(ask[o])
  BY <1>2 DEF Informed
<1>4. parentPaused \in BOOLEAN /\ strayed = {}
  BY DEF CCInit
<1>5. CCTypes
  BY <1>1, <1>2, <1>4 DEF CCTypes
<1>6. QED BY <1>1, <1>3, <1>4, <1>5 DEF ChangeInv

\* A step of one request that leaves the resource alone.
LEMMA ChangeByOne ==
  ASSUME ChangeInv, NEW o \in Operators, NEW a \in AskType, Asks(o, a),
         Informed(a), UNCHANGED <<res, parentPaused, version, strayed>>
  PROVE  ChangeInv'
<1>1. ask' \in [Operators -> AskType] /\ ask'[o] = a /\ \A p \in Operators \ {o} : ask'[p] = ask[p]
  BY DEF ChangeInv, CCTypes, Asks
<1>2. \A p \in Operators : Informed(ask'[p])
  BY <1>1 DEF ChangeInv
<1>3. \A p \in Operators : Informed(ask[p])'
  BY <1>2 DEF Informed
<1>4. QED BY <1>1, <1>3 DEF ChangeInv, CCTypes

\* An answer that leads no further into the change.
LEMMA ChangeAnswered ==
  ASSUME ChangeInv, NEW o \in Operators, NEW answer \in AskStates \ {"allow", "patch"}, Answer_(o, answer),
         UNCHANGED <<res, parentPaused, version, strayed>>
  PROVE  ChangeInv'
<1> DEFINE a == [ask[o] EXCEPT !.at = answer]
<1>1. ask[o] \in AskType
  BY DEF ChangeInv, CCTypes
<1>2. a \in AskType /\ a.at = answer
  BY <1>1 DEF AskType
<1>3. Informed(a)
  BY <1>2 DEF Informed
<1>4. Asks(o, a)
  BY DEF Answer_
<1>5. QED BY <1>2, <1>3, <1>4, ChangeByOne

LEMMA ChangeReviewed ==
  ASSUME ChangeInv, NEW o \in Operators, Review(o)
  PROVE  ChangeInv'
<1>1. PICK c \in Changes(res.kind) : Asks(o, [NoAsk EXCEPT !.at = "reviewed", !.change = c, !.seen = res])
  BY DEF Review
<1> DEFINE a == [NoAsk EXCEPT !.at = "reviewed", !.change = c, !.seen = res]
<1>2. c \in {"", "pause", "resume", "scale"} /\ res \in ResType
  BY DEF Changes, ChangeInv, CCTypes
<1>3. a \in AskType /\ a.at = "reviewed"
  BY <1>2, NoAskType DEF AskType, AskStates
<1>4. Informed(a)
  BY <1>3 DEF Informed
<1>5. QED BY <1>1, <1>3, <1>4, ChangeByOne DEF Review

LEMMA ChangeRead ==
  ASSUME ChangeInv, NEW o \in Operators, Get_(o)
  PROVE  ChangeInv'
<1>1. UNCHANGED <<res, parentPaused, version, strayed>>
  BY DEF Get_
<1>2. CASE Answer_(o, "conflict") \/ Answer_(o, "invalid")
  BY <1>1, <1>2, ChangeAnswered DEF AskStates
<1>3. CASE SameVersion(res, ask[o].seen) /\ ~res.deleting
  <2> DEFINE a == [ask[o] EXCEPT !.at = IF ask[o].change = "scale" THEN "allow" ELSE "patch",
                                 !.read = res, !.ranFree = ~parentPaused]
  <2>1. Asks(o, a)
    BY <1>3 DEF Get_
  <2>2. ask[o] \in AskType /\ res \in ResType /\ res.rv = version /\ version \in Nat
    BY DEF ChangeInv, CCTypes
  <2>3. /\ a \in AskType /\ a.read = res /\ a.seen = ask[o].seen /\ a.change = ask[o].change
        /\ a.ranFree <=> ~parentPaused
        /\ a.at \in {"allow", "patch"} /\ (a.change = "scale" => a.at = "allow")
    BY <2>2 DEF AskType, AskStates
  <2> HIDE DEF a
  <2>4. Informed(a)
    <3>1. a.read.rv = version /\ a.seen.rv = version /\ a.read.annotated = res.annotated
      BY <1>3, <2>2, <2>3 DEF SameVersion
    <3>2. a.read.rv = a.seen.rv /\ a.read.rv <= version /\ a.read.annotated = res.annotated
      BY <2>2, <3>1
    <3>3. parentPaused \/ a.ranFree
      BY <2>3
    <3>4. ~(a.at = "patch" /\ a.change = "scale")
      BY <2>3
    <3>5. QED BY <3>2, <3>3, <3>4 DEF Informed
  <2>5. QED BY <1>1, <2>1, <2>3, <2>4, ChangeByOne
<1>4. QED BY <1>2, <1>3 DEF Get_

LEMMA ChangeAllowed ==
  ASSUME ChangeInv, NEW o \in Operators, AllowScale(o)
  PROVE  ChangeInv'
<1>1. UNCHANGED <<res, parentPaused, version, strayed>> /\ ask[o].at = "allow"
  BY DEF AllowScale
<1>2. CASE Answer_(o, "invalid")
  BY <1>1, <1>2, ChangeAnswered DEF AskStates
<1>3. CASE Allowed_(ask[o].read) /\ Answer_(o, "patch")
  <2> DEFINE a == [ask[o] EXCEPT !.at = "patch"]
  <2>1. Asks(o, a) /\ ~parentPaused
    BY <1>3 DEF Answer_, Allowed_
  <2>2. ask[o] \in AskType /\ Informed(ask[o])
    BY DEF ChangeInv, CCTypes
  <2>3. /\ a \in AskType /\ a.read = ask[o].read /\ a.seen = ask[o].seen /\ a.change = ask[o].change
        /\ a.ranFree = ask[o].ranFree /\ a.at = "patch"
    BY <2>2 DEF AskType, AskStates
  <2> HIDE DEF a
  <2>4. Informed(a)
    BY <1>1, <2>1, <2>2, <2>3 DEF Informed
  <2>5. QED BY <1>1, <2>1, <2>3, <2>4, ChangeByOne
<1>4. QED BY <1>2, <1>3 DEF AllowScale

\* The resource after a patch, and what the patch of a resume leaves.
LEMMA PatchedType ==
  ASSUME ChangeInv, NEW a \in AskType
  PROVE  /\ Patched(a, res) \in ResType /\ Patched(a, res).rv = version + 1
         /\ a.change = "resume" /\ a.read.annotated = res.annotated => ~Paused(Patched(a, res))
<1>1. res \in ResType /\ version + 1 \in Nat /\ res.replicas \in 0..1
  BY DEF ChangeInv, CCTypes, ResType
<1>2. CASE a.change = "scale"
  <2>1. Patched(a, res) = [res EXCEPT !.replicas = 1 - @, !.rv = version + 1]
    BY <1>2 DEF Patched
  <2>2. 1 - res.replicas \in 0..1
    BY <1>1
  <2>3. QED BY <1>1, <1>2, <2>1, <2>2 DEF ResType
<1>3. CASE a.change = "pause"
  <2>1. Patched(a, res) = [res EXCEPT !.paused = TRUE, !.rv = version + 1]
    BY <1>3 DEF Patched
  <2>2. QED BY <1>1, <1>3, <2>1 DEF ResType
<1>4. CASE ~(a.change \in {"scale", "pause"})
  <2>1. Patched(a, res) = [res EXCEPT !.paused = FALSE, !.rv = version + 1,
                                      !.annotated = IF a.read.annotated THEN FALSE ELSE @]
    BY <1>4 DEF Patched
  <2>2. Patched(a, res) \in ResType /\ Patched(a, res).rv = version + 1
    BY <1>1, <2>1 DEF ResType
  <2>3. a.read.annotated = res.annotated => ~Paused(Patched(a, res))
    BY <1>1, <2>1 DEF ResType, Paused
  <2>4. QED BY <2>2, <2>3
<1>5. QED BY <1>2, <1>3, <1>4

LEMMA ChangePatched ==
  ASSUME ChangeInv, NEW o \in Operators, PatchApplies(o)
  PROVE  ChangeInv'
<1> DEFINE a == ask[o]
<1>1. /\ a \in AskType /\ a.at = "patch" /\ Informed(a)
      /\ res.rv = version /\ version \in Nat /\ CCTypes /\ strayed = {}
  BY DEF ChangeInv, CCTypes, PatchApplies
<1>2. SameVersion(res, a.seen) /\ version' = version + 1 /\ res' = Patched(a, res) /\ UNCHANGED parentPaused
  BY DEF PatchApplies, Tests, Bump
<1>3. a.read.annotated = res.annotated /\ (a.change = "scale" => a.ranFree)
  BY <1>1, <1>2 DEF Informed, SameVersion
<1>4. res' \in ResType /\ res'.rv = version' /\ (a.change = "resume" => ~Paused(res'))
  BY <1>1, <1>2, <1>3, PatchedType
<1>5. strayed' = {}
  BY <1>1, <1>2, <1>3, <1>4 DEF PatchApplies
<1>6. PICK answer \in {"done", "failed"} : ask' = [ask EXCEPT ![o] = [ask[o] EXCEPT !.at = answer]]
  BY DEF PatchApplies, Answer_, Asks
<1> DEFINE b == [ask[o] EXCEPT !.at = answer]
<1>7. b \in AskType /\ b.at = answer
  BY <1>1 DEF AskType, AskStates
<1> HIDE DEF b
<1>8. ask' \in [Operators -> AskType] /\ ask'[o] = b /\ \A p \in Operators \ {o} : ask'[p] = ask[p]
  BY <1>1, <1>6, <1>7 DEF CCTypes, b
<1>9. \A p \in Operators : Informed(ask[p])'
  <2>1. ASSUME NEW p \in Operators, p # o PROVE Informed(ask[p])'
    <3>1. Informed(ask[p]) /\ ask[p] \in AskType /\ ask'[p] = ask[p]
      BY <1>8, <2>1 DEF ChangeInv, CCTypes
    <3>2. ask[p].read.rv \in Nat
      BY <3>1 DEF AskType, ResType
    <3>3. ask[p].at \in {"allow", "patch"} =>
             ask[p].read.rv = ask[p].seen.rv /\ ask[p].read.rv <= version' /\ ask[p].read.rv # version'
      BY <1>1, <1>2, <3>1, <3>2 DEF Informed
    <3>4. QED BY <1>2, <3>1, <3>3 DEF Informed
  <2>2. Informed(ask[o])'
    BY <1>7, <1>8 DEF Informed
  <2>3. QED BY <2>1, <2>2
<1>10. CCTypes'
  BY <1>1, <1>2, <1>4, <1>8 DEF CCTypes
<1>11. QED BY <1>4, <1>5, <1>9, <1>10 DEF ChangeInv

LEMMA ChangeMeddled ==
  ASSUME ChangeInv, Meddle
  PROVE  ChangeInv'
<1>1. /\ CCTypes /\ res \in ResType /\ version' = version + 1 /\ version + 1 \in Nat /\ version \in Nat
      /\ UNCHANGED <<parentPaused, ask, strayed>> /\ strayed = {}
  BY DEF ChangeInv, CCTypes, Meddle, Bump
<1>2. res' \in ResType /\ res'.rv = version'
  <2>1. CASE res' = [res EXCEPT !.annotated = ~@, !.rv = version + 1]
    BY <1>1, <2>1 DEF ResType
  <2>2. CASE res' = [res EXCEPT !.replicas = 1 - @, !.rv = version + 1]
    <3>1. res.replicas \in 0..1
      BY <1>1 DEF ResType
    <3>2. 1 - res.replicas \in 0..1
      BY <3>1
    <3>3. QED BY <1>1, <2>2, <3>2 DEF ResType
  <2>3. CASE res' = [res EXCEPT !.deleting = TRUE, !.rv = version + 1]
    BY <1>1, <2>3 DEF ResType
  <2>4. CASE res' = NewRes(res.kind, res.uid + 1, version + 1)
    <3>1. res.kind \in Resources /\ res.uid + 1 \in Nat
      BY <1>1 DEF ResType
    <3>2. QED BY <1>1, <2>4, <3>1, NewResType
  <2>5. QED BY <2>1, <2>2, <2>3, <2>4 DEF Meddle
<1>3. \A p \in Operators : Informed(ask[p])'
  <2> SUFFICES ASSUME NEW p \in Operators PROVE Informed(ask[p])'
    OBVIOUS
  <2>1. Informed(ask[p]) /\ ask[p] \in AskType
    BY DEF ChangeInv, CCTypes
  <2>2. ask[p].read.rv \in Nat
    BY <2>1 DEF AskType, ResType
  <2>3. ask[p].at \in {"allow", "patch"} =>
           ask[p].read.rv = ask[p].seen.rv /\ ask[p].read.rv <= version' /\ ask[p].read.rv # version'
    BY <1>1, <2>1, <2>2 DEF Informed
  <2>4. QED BY <1>1, <2>1, <2>3 DEF Informed
<1>4. QED BY <1>1, <1>2, <1>3 DEF ChangeInv, CCTypes

LEMMA ChangeParentMeddled ==
  ASSUME ChangeInv, MeddleParent
  PROVE  ChangeInv'
<1>1. CCTypes /\ parentPaused' = ~parentPaused /\ UNCHANGED <<res, version, strayed>>
  BY DEF ChangeInv, MeddleParent
<1>2. ask' = [o \in Operators |-> [ask[o] EXCEPT !.ranFree = @ \/ parentPaused]]
  BY DEF MeddleParent
<1>3. ASSUME NEW o \in Operators
      PROVE  /\ ask'[o] \in AskType /\ ask'[o].at = ask[o].at /\ ask'[o].change = ask[o].change
             /\ ask'[o].read = ask[o].read /\ ask'[o].seen = ask[o].seen
             /\ ask'[o].ranFree <=> ask[o].ranFree \/ parentPaused
  <2>1. ask[o] \in AskType /\ ask'[o] = [ask[o] EXCEPT !.ranFree = @ \/ parentPaused]
    BY <1>1, <1>2 DEF CCTypes
  <2>2. QED BY <2>1 DEF AskType
<1>4. ask' \in [Operators -> AskType]
  BY <1>2, <1>3
<1>5. \A o \in Operators : Informed(ask[o])'
  <2> SUFFICES ASSUME NEW o \in Operators PROVE Informed(ask[o])'
    OBVIOUS
  <2>1. Informed(ask[o])
    BY DEF ChangeInv
  <2>2. QED BY <1>1, <1>3, <2>1 DEF Informed
<1>6. QED BY <1>1, <1>4, <1>5 DEF ChangeInv, CCTypes

LEMMA ChangeStep == ChangeInv /\ [CCNext]_ccVars => ChangeInv'
<1> SUFFICES ASSUME ChangeInv, [CCNext]_ccVars PROVE ChangeInv'
  OBVIOUS
<1>1. ASSUME NEW o \in Operators, PatchRefused(o) \/ Reread(o) PROVE ChangeInv'
  <2>1. \E answer \in {"reread", "failed", "conflict"} : Answer_(o, answer)
    BY <1>1 DEF PatchRefused, Reread
  <2>2. QED BY <1>1, <2>1, ChangeAnswered DEF PatchRefused, Reread, AskStates
<1>2. ASSUME NEW o \in Operators, RequestEnds(o) PROVE ChangeInv'
  <2>1. Informed(NoAsk)
    BY NoAskType DEF Informed
  <2>2. QED BY <1>2, <2>1, NoAskType, ChangeByOne DEF RequestEnds
<1>3. CASE UNCHANGED ccVars
  BY <1>3 DEF ccVars, ChangeInv, CCTypes, Informed
<1>4. QED BY <1>1, <1>2, <1>3, ChangeReviewed, ChangeRead, ChangeAllowed, ChangePatched, ChangeMeddled,
             ChangeParentMeddled DEF CCNext

(* A patch replaces the version its operator reviewed, never scales a worker   *)
(* group whose Cluster was paused throughout, and a resume leaves the Cluster  *)
(* running: the checks before the patch and the tests in it                    *)
(* (infra/clusterapi) suffice, whoever else changes the resources.             *)
THEOREM ReviewedChangesApply == CCSpec => []ReviewedIsReplaced
<1>1. ChangeInv => ReviewedIsReplaced
  BY DEF ChangeInv, ReviewedIsReplaced
<1>2. QED BY ChangeStart, ChangeStep, <1>1, PTL DEF CCSpec

-----------------------------------------------------------------------------
(* Users, sessions and service accounts                                    *)

CallOps == {"idle", "setup", "login", "session", "password", "use", "lookup", "absent", "write", "token", "done"}
UserType == [exists : BOOLEAN, role : Roles, password : Nat]
AccountType == [exists : BOOLEAN, role : Roles, hash : Nat, lastUsed : Nat]
CallType == [op : CallOps, name : Users, seen : UserType, account : AccountType, token : Nat]

UserTypes == /\ users \in [Users -> UserType] /\ sessions \subseteq [token : Nat, user : Users]
             /\ lastSecret \in Nat
FileTypes == /\ account \in AccountType /\ tokenFile \in {"none", "partial", "whole"} /\ fileToken \in Nat
             /\ call \in [Callers -> CallType] /\ touched \in BOOLEAN

\* What a running command knows of the file, and of the account while nobody
\* meddled with it.
KnowsFile(c) == /\ c.op = "token" => tokenFile = "whole" /\ fileToken = c.token
                /\ c.op = "write" => tokenFile = "partial"
KnowsAccount(c) == /\ c.account.exists => account.exists /\ account.hash = c.account.hash
                   /\ c.op = "done" => account.exists

AccountInv ==
    /\ UserTypes /\ FileTypes
    /\ account.lastUsed \in {0, account.hash}
    /\ \A p \in Callers : KnowsFile(call[p])
    /\ \A p, q \in Callers : call[p].op = "write" /\ call[q].op = "write" => p = q
    /\ ~touched => /\ account.exists => tokenFile = "whole" /\ fileToken = account.hash
                   /\ \A p \in Callers : KnowsAccount(call[p])

LEMMA QuietType ==
    /\ NoUser \in UserType /\ NoAccount \in AccountType /\ ~NoAccount.exists /\ NoAccount.lastUsed = 0
    /\ Quiet \in CallType /\ Quiet.op = "idle" /\ ~Quiet.account.exists
<1>1. (CHOOSE u \in Users : TRUE) \in Users
  BY AccAssumption
<1>2. NoUser \in UserType /\ NoAccount \in AccountType /\ ~NoAccount.exists /\ NoAccount.lastUsed = 0
  BY DEF NoUser, NoAccount, UserType, AccountType, Roles
<1>3. Quiet.account = NoAccount
  BY DEF Quiet
<1>4. Quiet \in CallType /\ Quiet.op = "idle"
  BY <1>1, <1>2 DEF Quiet, CallType, CallOps
<1>5. QED BY <1>2, <1>3, <1>4

LEMMA AccountStart == AccInit => AccountInv
<1> SUFFICES ASSUME AccInit PROVE AccountInv
  OBVIOUS
<1>1. UserTypes
  BY QuietType DEF AccInit, UserTypes
<1>2. FileTypes /\ \A p \in Callers : call[p] = Quiet
  BY QuietType DEF AccInit, FileTypes
<1>3. \A p \in Callers : call[p].op = "idle" /\ ~call[p].account.exists
  BY <1>2, QuietType
<1>4. account = NoAccount
  BY DEF AccInit
<1>5. QED BY <1>1, <1>2, <1>3, <1>4, QuietType DEF AccountInv, KnowsFile, KnowsAccount

\* One caller after a step of it.
LEMMA CallerMoves ==
  ASSUME FileTypes, NEW p \in Callers, NEW c \in CallType, Next_(p, c)
  PROVE  call' \in [Callers -> CallType] /\ call'[p] = c /\ \A q \in Callers \ {p} : call'[q] = call[q]
BY DEF FileTypes, Next_

\* A step of one caller that touches neither the file nor the account.
LEMMA AccountByOne ==
  ASSUME AccountInv, NEW p \in Callers, NEW c \in CallType, Next_(p, c), UserTypes',
         UNCHANGED <<account, disk, touched>>, KnowsFile(c), c.op # "write", ~touched => KnowsAccount(c)
  PROVE  AccountInv'
<1>1. call' \in [Callers -> CallType] /\ call'[p] = c /\ \A q \in Callers \ {p} : call'[q] = call[q]
  BY CallerMoves DEF AccountInv
<1>2. FileTypes' /\ account' = account /\ tokenFile' = tokenFile /\ fileToken' = fileToken /\ touched' = touched
  BY <1>1 DEF AccountInv, FileTypes, disk
<1>3. \A q \in Callers : KnowsFile(call[q])'
  <2>1. \A q \in Callers : KnowsFile(call'[q])
    BY <1>1 DEF AccountInv
  <2>2. QED BY <1>2, <2>1 DEF KnowsFile
<1>4. ~touched => \A q \in Callers : KnowsAccount(call[q])'
  <2>1. ~touched => \A q \in Callers : KnowsAccount(call'[q])
    BY <1>1 DEF AccountInv
  <2>2. QED BY <1>2, <2>1 DEF KnowsAccount
<1>5. \A q, r \in Callers : call'[q].op = "write" /\ call'[r].op = "write" => q = r
  BY <1>1 DEF AccountInv
<1>6. QED BY <1>2, <1>3, <1>4, <1>5 DEF AccountInv

\* A caller that ends, or is about to do something else than issue a token.
LEMMA AccountByOther ==
  ASSUME AccountInv, NEW p \in Callers, NEW c \in CallType, Next_(p, c), UserTypes',
         UNCHANGED <<account, disk, touched>>, c.op \notin {"token", "write", "done"},
         c.account.exists => c.account = account
  PROVE  AccountInv'
<1>1. KnowsFile(c) /\ KnowsAccount(c)
  BY DEF KnowsFile, KnowsAccount
<1>2. QED BY <1>1, AccountByOne

\* The user and session tables after a step of theirs.
LEMMA UsersPut ==
  ASSUME UserTypes, NEW u \in Users, NEW role \in Roles, Secret, PutUser(u, role, lastSecret'),
         UNCHANGED sessions
  PROVE  UserTypes'
<1>1. lastSecret' \in Nat
  BY DEF UserTypes, Secret
<1>2. [exists |-> TRUE, role |-> role, password |-> lastSecret'] \in UserType
  BY <1>1 DEF UserType
<1>3. users' \in [Users -> UserType]
  BY <1>2 DEF UserTypes, PutUser
<1>4. QED BY <1>1, <1>3 DEF UserTypes

LEMMA AccountReads ==
  ASSUME AccountInv, NEW p \in Callers,
         \/ \E u \in Users : SetupCheck(p, u) \/ LoginRead(p, u)
         \/ \E s \in sessions : Authenticate(p, s)
         \/ AccountRead(p) \/ CLILookup(p) \/ PasswordRead(p) \/ AbortCall(p) \/ CLIReport(p)
  PROVE  AccountInv'
<1>1. UserTypes' /\ UNCHANGED <<account, disk, touched>>
  BY DEF AccountInv, UserTypes, rows, disk, SetupCheck, LoginRead, Authenticate, AccountRead, CLILookup,
         PasswordRead, AbortCall, CLIReport
<1>2. CASE \/ \E u \in Users : SetupCheck(p, u) \/ LoginRead(p, u)
           \/ \E s \in sessions : Authenticate(p, s)
  <2>1. PICK u \in Users, op \in {"setup", "login", "session"} : Next_(p, [Quiet EXCEPT !.op = op, !.name = u])
    BY <1>2 DEF SetupCheck, LoginRead, Authenticate, Start, AccountInv, UserTypes
  <2> DEFINE c == [Quiet EXCEPT !.op = op, !.name = u]
  <2>2. c \in CallType /\ c.op = op /\ c.account = Quiet.account
    BY QuietType DEF CallType, CallOps
  <2> HIDE DEF c
  <2>3. QED BY <1>1, <2>1, <2>2, QuietType, AccountByOther DEF c
<1>3. CASE AccountRead(p) \/ CLILookup(p)
  <2>1. PICK op \in {"use", "lookup"} : Next_(p, [Quiet EXCEPT !.op = op, !.account = account])
    BY <1>3 DEF AccountRead, CLILookup, Start
  <2> DEFINE c == [Quiet EXCEPT !.op = op, !.account = account]
  <2>2. c \in CallType /\ c.op = op /\ c.account = account
    BY QuietType DEF CallType, CallOps, AccountInv, FileTypes
  <2> HIDE DEF c
  <2>3. QED BY <1>1, <2>1, <2>2, QuietType, AccountByOther DEF c
<1>4. CASE PasswordRead(p)
  <2> DEFINE c == [call[p] EXCEPT !.op = "password", !.seen = users[call[p].name]]
  <2>1. Next_(p, c) /\ call[p] \in CallType /\ call[p].op = "session"
    BY <1>4 DEF PasswordRead, AccountInv, FileTypes
  <2>2. users[call[p].name] \in UserType
    BY <2>1 DEF AccountInv, UserTypes, CallType
  <2>3. c \in CallType /\ c.op = "password" /\ c.account = call[p].account
    BY <2>1, <2>2 DEF CallType, CallOps
  <2> HIDE DEF c
  <2>4. KnowsFile(c) /\ (~touched => KnowsAccount(c))
    BY <2>3 DEF KnowsFile, KnowsAccount, AccountInv
  <2>5. QED BY <1>1, <2>1, <2>3, <2>4, AccountByOne
<1>5. CASE AbortCall(p) \/ CLIReport(p)
  BY <1>1, <1>5, QuietType, AccountByOther DEF AbortCall, CLIReport, Ends
<1>6. QED BY <1>2, <1>3, <1>4, <1>5

LEMMA UserWrites ==
  ASSUME AccountInv, NEW p \in Callers, SetupWrite(p) \/ LoginWrite(p) \/ PasswordWrite(p)
  PROVE  AccountInv'
<1>1. UNCHANGED <<account, disk, touched>> /\ Next_(p, Quiet)
  BY DEF SetupWrite, LoginWrite, PasswordWrite, Ends
<1>2. call[p].name \in Users /\ call[p].seen.role \in Roles /\ UserTypes
  BY DEF AccountInv, FileTypes, CallType, UserType
<1>3. UserTypes'
  <2>1. CASE SetupWrite(p)
    BY <1>2, <2>1, UsersPut DEF SetupWrite, NewUser, Roles
  <2>2. CASE PasswordWrite(p)
    BY <1>2, <2>2, UsersPut DEF PasswordWrite
  <2>3. CASE LoginWrite(p)
    <3>1. lastSecret' \in Nat
      BY <1>2, <2>3 DEF LoginWrite, Secret, UserTypes
    <3>2. [token |-> lastSecret', user |-> call[p].name] \in [token : Nat, user : Users]
      BY <1>2, <3>1
    <3>3. QED BY <1>2, <2>3, <3>1, <3>2 DEF LoginWrite, UserTypes
  <2>4. QED BY <2>1, <2>2, <2>3
<1>4. QED BY <1>1, <1>3, QuietType, AccountByOther

LEMMA TablesWritten ==
  ASSUME AccountInv,
         (\E u \in Users, r \in Roles : CreateUser(u, r)) \/ (\E s \in sessions : DropSession(s))
  PROVE  AccountInv'
<1>1. UNCHANGED <<account, disk, call, touched>>
  BY DEF CreateUser, DropSession
<1>2. UserTypes'
  <2>1. CASE \E u \in Users, r \in Roles : CreateUser(u, r)
    BY <2>1, UsersPut DEF CreateUser, NewUser, AccountInv
  <2>2. CASE \E s \in sessions : DropSession(s)
    BY <2>2 DEF DropSession, AccountInv, UserTypes
  <2>3. QED BY <2>1, <2>2
<1>3. QED BY <1>1, <1>2 DEF AccountInv, FileTypes, KnowsFile, KnowsAccount, disk

\* The account after it was rotated or deleted by the API.
LEMMA AccountMeddled ==
  ASSUME AccountInv, (\E r \in Roles : RotateAccount(r)) \/ DeleteAccount
  PROVE  AccountInv'
<1>1. touched' = TRUE /\ UNCHANGED <<users, sessions, disk, call>>
  BY DEF RotateAccount, DeleteAccount
<1>2. account' \in AccountType /\ account'.lastUsed = 0 /\ lastSecret' \in Nat
  <2>1. CASE DeleteAccount
    BY <2>1, QuietType DEF DeleteAccount, AccountInv, UserTypes
  <2>2. CASE \E r \in Roles : RotateAccount(r)
    <3>1. PICK r \in Roles : RotateAccount(r)
      BY <2>2
    <3>2. lastSecret' \in Nat
      BY <3>1 DEF RotateAccount, Secret, AccountInv, UserTypes
    <3>3. QED BY <3>1, <3>2 DEF RotateAccount, AccountType
  <2>3. QED BY <2>1, <2>2
<1>3. QED BY <1>1, <1>2 DEF AccountInv, UserTypes, FileTypes, KnowsFile, disk

LEMMA AccountUse ==
  ASSUME AccountInv, NEW p \in Callers, AccountUsed(p)
  PROVE  AccountInv'
<1>1. UNCHANGED <<users, sessions, disk, lastSecret, touched>> /\ Next_(p, Quiet) /\ FileTypes
  BY DEF AccountUsed, Ends, AccountInv
<1>2. call' \in [Callers -> CallType] /\ call'[p] = Quiet /\ \A q \in Callers \ {p} : call'[q] = call[q]
  BY <1>1, QuietType, CallerMoves
<1>3. /\ account' \in AccountType /\ (account'.exists <=> account.exists) /\ account'.hash = account.hash
      /\ account'.lastUsed \in {account.lastUsed, account.hash}
  <2>1. CASE UsedBy(call[p].account.hash)
    <3>1. account' = [account EXCEPT !.lastUsed = account.hash]
      BY <2>1 DEF AccountUsed, UsedBy
    <3>2. QED BY <1>1, <3>1 DEF FileTypes, AccountType
  <2>2. CASE ~UsedBy(call[p].account.hash)
    BY <1>1, <2>2 DEF AccountUsed, FileTypes
  <2>3. QED BY <2>1, <2>2
<1>4. FileTypes' /\ tokenFile' = tokenFile /\ fileToken' = fileToken
  BY <1>1, <1>2, <1>3 DEF FileTypes, disk
<1>5. \A q \in Callers : KnowsFile(call[q])' /\ (~touched => KnowsAccount(call[q])')
  <2> SUFFICES ASSUME NEW q \in Callers PROVE KnowsFile(call[q])' /\ (~touched => KnowsAccount(call[q])')
    OBVIOUS
  <2>1. CASE q = p
    BY <1>2, <2>1, QuietType DEF KnowsFile, KnowsAccount
  <2>2. CASE q # p
    <3>1. KnowsFile(call[q]) /\ (~touched => KnowsAccount(call[q])) /\ call'[q] = call[q]
      BY <1>2, <2>2 DEF AccountInv
    <3>2. QED BY <1>3, <1>4, <3>1 DEF KnowsFile, KnowsAccount
  <2>3. QED BY <2>1, <2>2
<1>6. \A q, r \in Callers : call'[q].op = "write" /\ call'[r].op = "write" => q = r
  BY <1>2, QuietType DEF AccountInv
<1>7. UserTypes'
  BY <1>1 DEF AccountInv, UserTypes
<1>8. QED BY <1>1, <1>3, <1>4, <1>5, <1>6, <1>7 DEF AccountInv

LEMMA CommandReadsFile ==
  ASSUME AccountInv, NEW p \in Callers, CLIReadFile(p)
  PROVE  AccountInv'
<1>1. UserTypes' /\ UNCHANGED <<account, disk, touched>> /\ call[p] \in CallType /\ fileToken \in Nat
  BY DEF CLIReadFile, rows, AccountInv, UserTypes, FileTypes
<1>2. CASE Ends(p)
  BY <1>1, <1>2, QuietType, AccountByOther DEF Ends
<1>3. CASE tokenFile = "whole"
  <2> DEFINE c == [call[p] EXCEPT !.op = "token", !.token = fileToken]
  <2>1. Next_(p, c)
    BY <1>3 DEF CLIReadFile
  <2>2. c \in CallType /\ c.op = "token" /\ c.token = fileToken /\ c.account = call[p].account
    BY <1>1 DEF CallType, CallOps
  <2> HIDE DEF c
  <2>3. KnowsFile(c) /\ (~touched => KnowsAccount(c))
    BY <1>3, <2>2 DEF KnowsFile, KnowsAccount, AccountInv
  <2>4. QED BY <1>1, <2>1, <2>2, <2>3, AccountByOne
<1>4. CASE Next_(p, [call[p] EXCEPT !.op = "absent"])
  <2> DEFINE c == [call[p] EXCEPT !.op = "absent"]
  <2>1. c \in CallType /\ c.op = "absent" /\ c.account = call[p].account
    BY <1>1 DEF CallType, CallOps
  <2> HIDE DEF c
  <2>2. KnowsFile(c) /\ (~touched => KnowsAccount(c))
    BY <2>1 DEF KnowsFile, KnowsAccount, AccountInv
  <2>3. QED BY <1>1, <1>4, <2>1, <2>2, AccountByOne DEF c
<1>5. QED BY <1>2, <1>3, <1>4 DEF CLIReadFile

\* O_EXCL: while the file is missing nobody issues, and nobody found an account.
LEMMA CommandCreatesFile ==
  ASSUME AccountInv, NEW p \in Callers, CLICreateFile(p)
  PROVE  AccountInv'
<1>1. UNCHANGED <<users, sessions, account, touched>> /\ call[p] \in CallType /\ call[p].op = "absent"
  BY DEF CLICreateFile, rows, AccountInv, FileTypes
<1>2. CASE ~Creates
  <2>1. Next_(p, Quiet) /\ UNCHANGED <<disk, lastSecret>>
    BY <1>2 DEF CLICreateFile, Ends
  <2>2. UserTypes'
    BY <1>1, <2>1 DEF AccountInv, UserTypes
  <2>3. QED BY <1>1, <2>1, <2>2, QuietType, AccountByOther
<1>3. CASE Creates
  <2> DEFINE c == [call[p] EXCEPT !.op = "write", !.token = lastSecret']
  <2>1. /\ tokenFile = "none" /\ tokenFile' = "partial" /\ fileToken' = lastSecret' /\ lastSecret' \in Nat
        /\ Next_(p, c)
    BY <1>3 DEF Creates, CLICreateFile, Secret, AccountInv, UserTypes
  <2>2. c \in CallType /\ c.op = "write" /\ c.account = call[p].account
    BY <1>1, <2>1 DEF CallType, CallOps
  <2> HIDE DEF c
  <2>3. call' \in [Callers -> CallType] /\ call'[p] = c /\ \A q \in Callers \ {p} : call'[q] = call[q]
    BY <2>1, <2>2, CallerMoves DEF AccountInv
  <2>4. UserTypes' /\ FileTypes'
    BY <1>1, <2>1, <2>3 DEF AccountInv, UserTypes, FileTypes
  <2>5. \A q \in Callers : call[q].op \notin {"token", "write"}
    BY <2>1 DEF AccountInv, KnowsFile
  <2>6. ~touched => ~account.exists
    BY <2>1 DEF AccountInv
  <2>7. \A q \in Callers : KnowsFile(call[q])'
    BY <2>1, <2>2, <2>3, <2>5 DEF KnowsFile
  <2>8. ~touched => \A q \in Callers : KnowsAccount(call[q])'
    <3>1. ~touched => \A q \in Callers : KnowsAccount(call[q])
      BY DEF AccountInv
    <3>2. QED BY <1>1, <2>2, <2>3, <3>1 DEF KnowsAccount
  <2>9. \A q, r \in Callers : call'[q].op = "write" /\ call'[r].op = "write" => q = r
    BY <2>3, <2>5
  <2>10. QED BY <1>1, <2>4, <2>6, <2>7, <2>8, <2>9 DEF AccountInv
<1>4. QED BY <1>2, <1>3

LEMMA CommandWritesFile ==
  ASSUME AccountInv, NEW p \in Callers, CLIWriteFile(p)
  PROVE  AccountInv'
<1> DEFINE c == [call[p] EXCEPT !.op = "token"]
<1>1. /\ UNCHANGED <<users, sessions, account, lastSecret, touched>> /\ call[p] \in CallType
      /\ call[p].op = "write" /\ tokenFile' = "whole" /\ fileToken' = call[p].token /\ Next_(p, c)
  BY DEF CLIWriteFile, rows, AccountInv, FileTypes
<1>2. c \in CallType /\ c.op = "token" /\ c.account = call[p].account /\ c.token = call[p].token
  BY <1>1 DEF CallType, CallOps
<1> HIDE DEF c
<1>3. call' \in [Callers -> CallType] /\ call'[p] = c /\ \A q \in Callers \ {p} : call'[q] = call[q]
  BY <1>1, <1>2, CallerMoves DEF AccountInv
<1>4. call[p].token \in Nat
  BY <1>1 DEF CallType
<1>5. UserTypes' /\ FileTypes'
  BY <1>1, <1>3, <1>4 DEF AccountInv, UserTypes, FileTypes
<1>6. tokenFile = "partial"
  BY <1>1 DEF AccountInv, KnowsFile
<1>7. \A q \in Callers : call[q].op # "token" /\ (call[q].op = "write" => q = p)
  BY <1>1, <1>6 DEF AccountInv, KnowsFile
<1>8. \A q \in Callers : KnowsFile(call[q])'
  BY <1>1, <1>2, <1>3, <1>7 DEF KnowsFile
<1>9. ~touched => ~account.exists /\ \A q \in Callers : KnowsAccount(call[q])'
  <2>1. ~touched => ~account.exists /\ \A q \in Callers : KnowsAccount(call[q])
    BY <1>6 DEF AccountInv
  <2>2. QED BY <1>1, <1>2, <1>3, <2>1 DEF KnowsAccount
<1>10. \A q, r \in Callers : call'[q].op = "write" /\ call'[r].op = "write" => q = r
  BY <1>2, <1>3, <1>7
<1>11. QED BY <1>1, <1>5, <1>8, <1>9, <1>10 DEF AccountInv

LEMMA CommandCompares ==
  ASSUME AccountInv, NEW p \in Callers, CLICompare(p)
  PROVE  AccountInv'
<1>1. /\ UserTypes' /\ UNCHANGED <<account, disk, touched>> /\ call[p] \in CallType
      /\ call[p].account.exists /\ Verdict(p, call[p].account)
  BY DEF CLICompare, rows, AccountInv, UserTypes, FileTypes
<1>2. CASE ~Agrees(call[p].account, call[p].token)
  BY <1>1, <1>2, QuietType, AccountByOther DEF Verdict
<1>3. CASE Agrees(call[p].account, call[p].token)
  <2> DEFINE c == [call[p] EXCEPT !.op = "done"]
  <2>1. Next_(p, c)
    BY <1>1, <1>3 DEF Verdict
  <2>2. c \in CallType /\ c.op = "done" /\ c.account = call[p].account
    BY <1>1 DEF CallType, CallOps
  <2> HIDE DEF c
  <2>3. KnowsFile(c) /\ (~touched => KnowsAccount(c))
    BY <1>1, <2>2 DEF KnowsFile, KnowsAccount, AccountInv
  <2>4. QED BY <1>1, <2>1, <2>2, <2>3, AccountByOne
<1>4. QED BY <1>2, <1>3

\* The account inserted is the one whose token is in the file.
LEMMA CommandInserts ==
  ASSUME AccountInv, NEW p \in Callers, CLIInsert(p)
  PROVE  AccountInv'
<1> DEFINE new == [NoAccount EXCEPT !.exists = TRUE, !.hash = call[p].token, !.role = CLIRole]
<1>1. /\ UNCHANGED <<users, sessions, disk, lastSecret, touched>> /\ call[p] \in CallType
      /\ call[p].op = "token" /\ ~call[p].account.exists /\ Verdict(p, account')
      /\ account' = IF account.exists THEN account ELSE new
  BY DEF CLIInsert, AccountInv, FileTypes
<1>2. tokenFile = "whole" /\ fileToken = call[p].token /\ call[p].token \in Nat
  BY <1>1 DEF AccountInv, KnowsFile, CallType
<1>3. new \in AccountType /\ new.exists /\ new.hash = call[p].token /\ new.lastUsed = 0
  BY <1>2, QuietType DEF AccountType, CLIRole, Roles
<1> HIDE DEF new
<1>4. /\ account' \in AccountType /\ account'.exists /\ account'.lastUsed \in {0, account'.hash}
      /\ account.exists => account' = account
      /\ ~account.exists => account'.hash = fileToken
  BY <1>1, <1>2, <1>3 DEF AccountInv, FileTypes
<1>5. PICK c \in CallType : /\ Next_(p, c) /\ c.op \in {"idle", "done"} /\ ~c.account.exists
  <2>1. CASE Agrees(account', call[p].token)
    <3> DEFINE d == [call[p] EXCEPT !.op = "done"]
    <3>1. Next_(p, d)
      BY <1>1, <2>1 DEF Verdict
    <3>2. d \in CallType /\ d.op = "done" /\ d.account = call[p].account
      BY <1>1 DEF CallType, CallOps
    <3> HIDE DEF d
    <3>3. QED BY <1>1, <3>1, <3>2
  <2>2. CASE ~Agrees(account', call[p].token)
    BY <1>1, <2>2, QuietType DEF Verdict
  <2>3. QED BY <2>1, <2>2
<1>6. call' \in [Callers -> CallType] /\ call'[p] = c /\ \A q \in Callers \ {p} : call'[q] = call[q]
  BY <1>5, CallerMoves DEF AccountInv
<1>7. UserTypes' /\ FileTypes' /\ tokenFile' = tokenFile /\ fileToken' = fileToken
  BY <1>1, <1>4, <1>6 DEF AccountInv, UserTypes, FileTypes, disk
<1>8. \A q \in Callers : KnowsFile(call[q])'
  <2>1. \A q \in Callers : KnowsFile(call[q])
    BY DEF AccountInv
  <2>2. QED BY <1>5, <1>6, <1>7, <2>1 DEF KnowsFile
<1>9. ~touched => \A q \in Callers : KnowsAccount(call[q])'
  <2>1. ~touched => \A q \in Callers : KnowsAccount(call[q])
    BY DEF AccountInv
  <2>2. QED BY <1>4, <1>5, <1>6, <2>1 DEF KnowsAccount
<1>10. \A q, r \in Callers : call'[q].op = "write" /\ call'[r].op = "write" => q = r
  BY <1>5, <1>6 DEF AccountInv
<1>11. ~touched /\ account'.exists => tokenFile' = "whole" /\ fileToken' = account'.hash
  BY <1>2, <1>4, <1>7 DEF AccountInv
<1>12. QED BY <1>1, <1>4, <1>7, <1>8, <1>9, <1>10, <1>11 DEF AccountInv

LEMMA AccountStep == AccountInv /\ [AccNext]_accVars => AccountInv'
<1> SUFFICES ASSUME AccountInv, [AccNext]_accVars PROVE AccountInv'
  OBVIOUS
<1>1. CASE AccNext
  <2>1. CASE \E p \in Callers :
                \/ \E u \in Users : SetupCheck(p, u) \/ LoginRead(p, u)
                \/ \E s \in sessions : Authenticate(p, s)
                \/ AccountRead(p) \/ CLILookup(p) \/ PasswordRead(p) \/ AbortCall(p) \/ CLIReport(p)
    BY <2>1, AccountReads
  <2>2. CASE \E p \in Callers : SetupWrite(p) \/ LoginWrite(p) \/ PasswordWrite(p) \/ AccountUsed(p)
    BY <2>2, UserWrites, AccountUse
  <2>3. CASE \E p \in Callers : CLIReadFile(p) \/ CLICreateFile(p) \/ CLIWriteFile(p) \/ CLICompare(p) \/ CLIInsert(p)
    BY <2>3, CommandReadsFile, CommandCreatesFile, CommandWritesFile, CommandCompares, CommandInserts
  <2>4. CASE (\E u \in Users, r \in Roles : CreateUser(u, r)) \/ (\E s \in sessions : DropSession(s))
    BY <2>4, TablesWritten
  <2>5. CASE (\E r \in Roles : RotateAccount(r)) \/ DeleteAccount
    BY <2>5, AccountMeddled
  <2>6. QED BY <1>1, <2>1, <2>2, <2>3, <2>4, <2>5 DEF AccNext, CLIStep
<1>2. CASE UNCHANGED accVars
  BY <1>2 DEF accVars, AccountInv, UserTypes, FileTypes, KnowsFile, KnowsAccount
<1>3. QED BY <1>1, <1>2

(* gomi service-account (cmd/gomi/service_account.go) reports success only     *)
(* when the account's token is in the file and leaves no account without its   *)
(* token, however many invocations race and wherever they are cut off, unless  *)
(* the API rotates or deletes the account; and MarkServiceAccountUsed records  *)
(* a use under the token that was used or not at all.                          *)
THEOREM ServiceAccountTokenIsKept == AccSpec => []IssuedTokenIsKept
<1>1. AccountInv => IssuedTokenIsKept
  BY DEF AccountInv, IssuedTokenIsKept, KnowsAccount
<1>2. QED BY AccountStart, AccountStep, <1>1, PTL DEF AccSpec

-----------------------------------------------------------------------------
(* DHCP leases                                                             *)

\* Maps from clients, as Go's maps from MAC addresses.
MapsTo(S) == UNION {[D -> S] : D \in SUBSET MACs}
LeaseType == [ip : Nat, at : Nat, static : BOOLEAN]
PoolType == [range : Ranges, ttl : LeaseTimes, reserved : MapsTo(Nat), leases : MapsTo(LeaseType)]

LEMMA MapFacts ==
  ASSUME NEW S, NEW f
  PROVE  f \in MapsTo(S) <=> DOMAIN f \subseteq MACs /\ f \in [DOMAIN f -> S]
BY DEF MapsTo

LEMMA MapAt ==
  ASSUME NEW S, NEW f \in MapsTo(S), NEW k \in DOMAIN f
  PROVE  f[k] \in S /\ k \in MACs
BY MapFacts

LEMMA NoMapIsMap == ASSUME NEW S PROVE NoMap \in MapsTo(S) /\ DOMAIN NoMap = {}
<1>1. DOMAIN NoMap = {} /\ NoMap \in [DOMAIN NoMap -> S]
  BY DEF NoMap
<1>2. QED BY <1>1, MapFacts

LEMMA PutFacts ==
  ASSUME NEW S, NEW f \in MapsTo(S), NEW k \in MACs, NEW v \in S
  PROVE  /\ Put(f, k, v) \in MapsTo(S) /\ DOMAIN Put(f, k, v) = DOMAIN f \cup {k} /\ Put(f, k, v)[k] = v
         /\ \A j \in DOMAIN f \ {k} : Put(f, k, v)[j] = f[j]
<1>1. DOMAIN f \subseteq MACs /\ \A j \in DOMAIN f : f[j] \in S
  BY MapFacts
<1>2. /\ DOMAIN Put(f, k, v) = DOMAIN f \cup {k} /\ Put(f, k, v)[k] = v
      /\ \A j \in DOMAIN f \ {k} : Put(f, k, v)[j] = f[j]
      /\ Put(f, k, v) \in [DOMAIN f \cup {k} -> S]
  BY <1>1 DEF Put
<1>3. QED BY <1>1, <1>2, MapFacts

LEMMA RestrictFacts ==
  ASSUME NEW S, NEW f \in MapsTo(S), NEW D, D \subseteq DOMAIN f
  PROVE  /\ Restrict(f, D) \in MapsTo(S) /\ DOMAIN Restrict(f, D) = D
         /\ \A j \in D : Restrict(f, D)[j] = f[j]
<1>1. DOMAIN f \subseteq MACs /\ \A j \in DOMAIN f : f[j] \in S
  BY MapFacts
<1>2. /\ DOMAIN Restrict(f, D) = D /\ Restrict(f, D) \in [D -> S]
      /\ \A j \in D : Restrict(f, D)[j] = f[j]
  BY <1>1 DEF Restrict
<1>3. QED BY <1>1, <1>2, MapFacts

\* A set of naturals that is not empty has a least element, which Min returns.
LEMMA MinIsIn ==
  ASSUME NEW S, S \subseteq Nat, S # {}
  PROVE  Min(S) \in S
<1>1. PICK x \in S : \A y \in S : ~(<<y, x>> \in OpToRel(<, Nat))
  BY WFMin, NatLessThanWellFounded, Zenon
<1>2. \A y \in S : x <= y
  <2> SUFFICES ASSUME NEW y \in S, ~(x <= y) PROVE FALSE
    OBVIOUS
  <2>1. x \in Nat /\ y \in Nat /\ y < x
    OBVIOUS
  <2>2. <<y, x>> \in OpToRel(<, Nat)
    BY <2>1 DEF OpToRel
  <2>3. QED BY <1>1, <2>2, Zenon
<1>3. QED BY <1>2 DEF Min

\* The pool and the lease after a grant.
LEMMA GrantFacts ==
  ASSUME NEW pool \in PoolType, NEW m \in MACs, NEW lease \in LeaseType, NEW dropped,
         dropped \subseteq DOMAIN pool.leases
  PROVE  LET out == Grant(pool, m, lease, dropped) IN
         /\ out.pool \in PoolType /\ out.pool.range = pool.range /\ out.pool.ttl = pool.ttl
         /\ DOMAIN out.pool.leases = (DOMAIN pool.leases \ dropped) \cup {m} /\ out.pool.leases[m] = lease
         /\ \A k \in DOMAIN pool.leases \ (dropped \cup {m}) : out.pool.leases[k] = pool.leases[k]
         /\ out.lease = {lease} /\ out.writes = {Delete(k) : k \in dropped} \cup {Upsert(m, lease)}
<1> DEFINE out == Grant(pool, m, lease, dropped)
           kept == Restrict(pool.leases, DOMAIN pool.leases \ dropped)
           put == Put(kept, m, lease)
<1>1. pool.leases \in MapsTo(LeaseType)
  BY DEF PoolType
<1>2. /\ kept \in MapsTo(LeaseType) /\ DOMAIN kept = DOMAIN pool.leases \ dropped
      /\ \A j \in DOMAIN pool.leases \ dropped : kept[j] = pool.leases[j]
  BY <1>1, RestrictFacts
<1> HIDE DEF kept
<1>3. /\ put \in MapsTo(LeaseType) /\ DOMAIN put = DOMAIN kept \cup {m} /\ put[m] = lease
      /\ \A j \in DOMAIN kept \ {m} : put[j] = kept[j]
  BY <1>2, PutFacts
<1> HIDE DEF put
<1>4. /\ out.pool = [pool EXCEPT !.leases = put] /\ out.lease = {lease}
      /\ out.writes = {Delete(k) : k \in dropped} \cup {Upsert(m, lease)}
  BY DEF Grant, put, kept
<1> HIDE DEF out
<1>5. /\ out.pool \in PoolType /\ out.pool.range = pool.range /\ out.pool.ttl = pool.ttl
      /\ out.pool.leases = put
  BY <1>3, <1>4 DEF PoolType
<1>6. QED BY <1>2, <1>3, <1>4, <1>5 DEF out

\* A write of a lease that is still under way.
WriteTyped(w) == w.mac \in MACs /\ (w.op = "upsert" => \E l \in LeaseType : w.lease = {l})

LEMMA WritesTyped ==
  ASSUME NEW m \in MACs, NEW lease \in LeaseType
  PROVE  WriteTyped(Upsert(m, lease)) /\ WriteTyped(Delete(m))
BY DEF WriteTyped, Upsert, Delete

\* What Allocate does to the pool of a client that asks: leases of others that
\* have not expired stay as they are; the client gets a static address, its own
\* again, or one that no lease in the pool has.
PoolKept(pool, after, m) ==
    /\ after \in PoolType /\ after.range = pool.range /\ after.ttl = pool.ttl
    /\ \A k \in DOMAIN pool.leases \ {m} : ~Expired(pool.ttl, pool.leases[k]) => k \in DOMAIN after.leases
    /\ \A k \in DOMAIN after.leases \ {m} : k \in DOMAIN pool.leases /\ after.leases[k] = pool.leases[k]
Granted(pool, after, m, l) ==
    /\ l \in LeaseType /\ l.at = now
    /\ m \in DOMAIN after.leases /\ after.leases[m] = l
    /\ \/ l.static
       \/ /\ m \in DOMAIN pool.leases /\ ~pool.leases[m].static
          /\ l.ip = pool.leases[m].ip /\ InRange(pool.range, l.ip)
       \/ /\ InRange(pool.range, l.ip)
          /\ \A k \in DOMAIN after.leases \ {m} : after.leases[k].ip # l.ip

LEMMA AllocateFacts ==
  ASSUME NEW pool \in PoolType, NEW m \in MACs, now \in Nat
  PROVE  LET out == Allocate(pool, m) IN
         /\ PoolKept(pool, out.pool, m)
         /\ \/ \E l \in LeaseType : out.lease = {l} /\ Granted(pool, out.pool, m, l)
            \/ out.lease = {} /\ ~OwnIsGood(pool, m) /\ m \notin DOMAIN out.pool.leases
         /\ \A w \in out.writes : WriteTyped(w)
<1> DEFINE out == Allocate(pool, m)
<1>1. /\ pool.leases \in MapsTo(LeaseType) /\ pool.range \in Ranges
      /\ DOMAIN pool.leases \subseteq MACs /\ \A k \in DOMAIN pool.leases : pool.leases[k] \in LeaseType
  BY MapFacts DEF PoolType
<1>2. CASE m \in DOMAIN pool.reserved
  <2> DEFINE l == [ip |-> pool.reserved[m], at |-> now, static |-> TRUE]
  <2>1. out = Grant(pool, m, l, {})
    BY <1>2 DEF Allocate
  <2>2. pool.reserved \in MapsTo(Nat)
    BY DEF PoolType
  <2>3. pool.reserved[m] \in Nat
    BY <1>2, <2>2, MapFacts
  <2>4. l \in LeaseType /\ l.at = now /\ l.static
    BY <2>3 DEF LeaseType
  <2> HIDE DEF l, out
  <2>5. /\ out.pool \in PoolType /\ out.pool.range = pool.range /\ out.pool.ttl = pool.ttl
        /\ DOMAIN out.pool.leases = DOMAIN pool.leases \cup {m} /\ out.pool.leases[m] = l
        /\ \A k \in DOMAIN pool.leases \ {m} : out.pool.leases[k] = pool.leases[k]
        /\ out.lease = {l} /\ out.writes = {Upsert(m, l)}
    BY <2>1, <2>4, GrantFacts
  <2>6. PoolKept(pool, out.pool, m) /\ Granted(pool, out.pool, m, l)
    BY <2>4, <2>5 DEF PoolKept, Granted
  <2>7. QED BY <2>4, <2>5, <2>6, WritesTyped DEF out
<1>3. CASE m \notin DOMAIN pool.reserved /\ OwnIsGood(pool, m)
  <2> DEFINE l == [pool.leases[m] EXCEPT !.at = now]
  <2>1. out = Grant(pool, m, l, {})
    BY <1>3 DEF Allocate
  <2>2. m \in DOMAIN pool.leases /\ InRange(pool.range, pool.leases[m].ip) /\ pool.leases[m] \in LeaseType
    BY <1>1, <1>3 DEF OwnIsGood
  <2>3. l \in LeaseType /\ l.at = now /\ l.ip = pool.leases[m].ip /\ (l.static <=> pool.leases[m].static)
    BY <2>2 DEF LeaseType
  <2> HIDE DEF l, out
  <2>4. /\ out.pool \in PoolType /\ out.pool.range = pool.range /\ out.pool.ttl = pool.ttl
        /\ DOMAIN out.pool.leases = DOMAIN pool.leases \cup {m} /\ out.pool.leases[m] = l
        /\ \A k \in DOMAIN pool.leases \ {m} : out.pool.leases[k] = pool.leases[k]
        /\ out.lease = {l} /\ out.writes = {Upsert(m, l)}
    BY <2>1, <2>3, GrantFacts
  <2>5. PoolKept(pool, out.pool, m) /\ Granted(pool, out.pool, m, l)
    BY <2>2, <2>3, <2>4 DEF PoolKept, Granted
  <2>6. QED BY <2>3, <2>4, <2>5, WritesTyped DEF out
<1>4. CASE m \notin DOMAIN pool.reserved /\ ~OwnIsGood(pool, m) /\ Free(pool, m) = {}
  <2> DEFINE kept == Restrict(pool.leases, DOMAIN pool.leases \ Dropped(pool, m))
  <2>1. /\ out.pool = [pool EXCEPT !.leases = kept] /\ out.lease = {}
        /\ out.writes = {Delete(k) : k \in Dropped(pool, m)}
    BY <1>4 DEF Allocate
  <2>2. /\ kept \in MapsTo(LeaseType) /\ DOMAIN kept = DOMAIN pool.leases \ Dropped(pool, m)
        /\ \A j \in DOMAIN pool.leases \ Dropped(pool, m) : kept[j] = pool.leases[j]
    BY <1>1, RestrictFacts
  <2> HIDE DEF kept, out
  <2>3. /\ out.pool \in PoolType /\ out.pool.range = pool.range /\ out.pool.ttl = pool.ttl
        /\ out.pool.leases = kept
    BY <2>1, <2>2 DEF PoolType
  <2>4. PoolKept(pool, out.pool, m) /\ m \notin DOMAIN out.pool.leases
    BY <2>2, <2>3 DEF PoolKept, Dropped
  <2>5. \A k \in Dropped(pool, m) : WriteTyped(Delete(k))
    BY <1>1 DEF WriteTyped, Delete, Dropped
  <2>6. QED BY <1>4, <2>1, <2>4, <2>5 DEF out
<1>5. CASE m \notin DOMAIN pool.reserved /\ ~OwnIsGood(pool, m) /\ Free(pool, m) # {}
  <2> DEFINE l == [ip |-> Min(Free(pool, m)), at |-> now, static |-> FALSE]
  <2>1. out = Grant(pool, m, l, Dropped(pool, m))
    BY <1>5 DEF Allocate
  <2>2. pool.range.lo \in Nat /\ pool.range.hi \in Nat
    BY <1>1, LeaseAssumption
  <2>3. Free(pool, m) \subseteq Nat
    BY <2>2 DEF Free
  <2>4. Min(Free(pool, m)) \in Free(pool, m)
    BY <1>5, <2>3, MinIsIn
  <2>5. l \in LeaseType /\ l.at = now /\ l.ip \in Free(pool, m)
    BY <2>3, <2>4 DEF LeaseType
  <2> HIDE DEF l, out
  <2>6. Dropped(pool, m) \subseteq DOMAIN pool.leases
    BY DEF Dropped
  <2>7. /\ out.pool \in PoolType /\ out.pool.range = pool.range /\ out.pool.ttl = pool.ttl
        /\ DOMAIN out.pool.leases = (DOMAIN pool.leases \ Dropped(pool, m)) \cup {m} /\ out.pool.leases[m] = l
        /\ \A k \in DOMAIN pool.leases \ (Dropped(pool, m) \cup {m}) : out.pool.leases[k] = pool.leases[k]
        /\ out.lease = {l} /\ out.writes = {Delete(k) : k \in Dropped(pool, m)} \cup {Upsert(m, l)}
    BY <2>1, <2>5, <2>6, GrantFacts
  <2>8. InRange(pool.range, l.ip)
    BY <2>2, <2>5 DEF Free, InRange
  <2>9. \A k \in DOMAIN out.pool.leases \ {m} : out.pool.leases[k].ip # l.ip
    BY <2>5, <2>7 DEF Free, Used
  <2>10. PoolKept(pool, out.pool, m) /\ Granted(pool, out.pool, m, l)
    <3>1. PoolKept(pool, out.pool, m)
      BY <2>7 DEF PoolKept, Dropped
    <3>2. Granted(pool, out.pool, m, l)
      BY <2>5, <2>7, <2>8, <2>9 DEF Granted
    <3>3. QED BY <3>1, <3>2
  <2>11. \A k \in Dropped(pool, m) : WriteTyped(Delete(k))
    BY <1>1 DEF WriteTyped, Delete, Dropped
  <2>12. QED BY <2>5, <2>7, <2>10, <2>11, WritesTyped DEF out
<1>6. QED BY <1>2, <1>3, <1>4, <1>5

BoundType == [ip : Nat, at : Nat, static : BOOLEAN, until : Nat]
AskedType == [pool : Nat, lease : LeaseTimes]

LeaseTypes ==
    /\ pools \in Seq(PoolType) /\ Len(pools) > 0
    /\ config \in [range : Ranges, lease : LeaseTimes] /\ reserve \in MapsTo(Nat)
    /\ store \in MapsTo(LeaseType) /\ \A w \in writes : WriteTyped(w)
    /\ asked \in MapsTo(AskedType) /\ \A m \in DOMAIN asked : asked[m].pool \in 1..Len(pools)
    /\ now \in Nat /\ bound \in MapsTo(BoundType)

\* A client that uses an address the pool has not been made to forget, and the
\* lease in the pool that stands for it.
Relies(m) == m \in DOMAIN bound \ excused /\ ~bound[m].static /\ now <= bound[m].until
Backs(pool, m) ==
    /\ m \in DOMAIN pool.leases /\ ~pool.leases[m].static
    /\ pool.leases[m].ip = bound[m].ip /\ pool.leases[m].at = bound[m].at
    /\ InRange(pool.range, bound[m].ip)
    /\ pool.ttl > 0 => bound[m].until <= bound[m].at + pool.ttl

\* The leases of a pool that were allocated from it have different addresses.
Distinct(pool) ==
    \A j, k \in DOMAIN pool.leases \ excused :
        j # k /\ ~pool.leases[j].static /\ ~pool.leases[k].static => pool.leases[j].ip # pool.leases[k].ip

LeaseInv == /\ LeaseTypes /\ Current.ttl = config.lease /\ Distinct(Current)
            /\ \A m \in MACs : Relies(m) => Backs(Current, m)

LEMMA CurrentType == LeaseTypes => Current \in PoolType /\ Len(pools) \in 1..Len(pools)
BY DEF LeaseTypes, Current

LEMMA BoundAt ==
  ASSUME LeaseTypes, NEW m \in DOMAIN bound
  PROVE  m \in MACs /\ bound[m] \in BoundType /\ bound[m].until \in Nat /\ bound[m].at \in Nat /\ bound[m].ip \in Nat
<1>1. bound \in MapsTo(BoundType)
  BY DEF LeaseTypes
<1>2. m \in MACs /\ bound[m] \in BoundType
  BY <1>1, MapAt
<1>3. QED BY <1>2 DEF BoundType

LEMMA LeaseStart == LeaseInit => LeaseInv
<1> SUFFICES ASSUME LeaseInit PROVE LeaseInv
  OBVIOUS
<1> DEFINE first == [range |-> config.range, ttl |-> config.lease, reserved |-> reserve, leases |-> NoMap]
<1>1. config \in [range : Ranges, lease : LeaseTimes] /\ pools = <<first>> /\ now = 0
  BY DEF LeaseInit
<1>2. reserve \in MapsTo(Nat) /\ store \in MapsTo(LeaseType) /\ asked \in MapsTo(AskedType)
      /\ bound \in MapsTo(BoundType) /\ DOMAIN asked = {} /\ DOMAIN bound = {} /\ writes = {}
  BY NoMapIsMap DEF LeaseInit
<1>3. first \in PoolType /\ first.ttl = config.lease /\ first.leases = NoMap
  BY <1>1, <1>2, NoMapIsMap DEF PoolType
<1> HIDE DEF first
<1>4. pools \in Seq(PoolType) /\ Len(pools) > 0 /\ Current = first
  BY <1>1, <1>3 DEF Current
<1>5. LeaseTypes
  BY <1>1, <1>2, <1>4 DEF LeaseTypes
<1>6. Distinct(Current)
  BY <1>3, <1>4, NoMapIsMap DEF Distinct
<1>7. \A m \in MACs : ~Relies(m)
  BY <1>2 DEF Relies
<1>8. QED BY <1>3, <1>4, <1>5, <1>6, <1>7 DEF LeaseInv

\* A step that leaves the pools, the lease time and the grants alone.
LEMMA LeasesLeft ==
  ASSUME LeaseInv, LeaseTypes', UNCHANGED <<pools, bound, excused>>, config'.lease = config.lease,
         now <= now'
  PROVE  LeaseInv'
<1>1. Current' = Current
  BY DEF Current
<1>2. \A m \in MACs : Relies(m)' => Relies(m)
  <2> SUFFICES ASSUME NEW m \in MACs, Relies(m)' PROVE Relies(m)
    OBVIOUS
  <2>1. m \in DOMAIN bound \ excused /\ ~bound[m].static /\ now' <= bound[m].until
    BY DEF Relies
  <2>2. bound[m].until \in Nat /\ now \in Nat /\ now' \in Nat
    BY <2>1, BoundAt DEF LeaseInv, LeaseTypes
  <2>3. QED BY <2>1, <2>2 DEF Relies
<1>3. \A m \in MACs : Backs(Current, m) => Backs(Current, m)'
  BY <1>1 DEF Backs
<1>4. QED BY <1>1, <1>2, <1>3 DEF LeaseInv, Distinct

LEMMA AskedPut ==
  ASSUME asked \in MapsTo(AskedType), NEW m \in MACs, NEW a \in AskedType, asked' = Put(asked, m, a)
  PROVE  /\ asked' \in MapsTo(AskedType) /\ DOMAIN asked' = DOMAIN asked \cup {m} /\ asked'[m] = a
         /\ \A k \in DOMAIN asked \ {m} : asked'[k] = asked[k]
<1>1. asked' \in MapsTo(AskedType)
  BY PutFacts
<1>2. /\ DOMAIN asked' = DOMAIN asked \cup {m} /\ asked'[m] = a
      /\ \A k \in DOMAIN asked \ {m} : asked'[k] = asked[k]
  BY DEF Put
<1>3. QED BY <1>1, <1>2

LEMMA LeaseLittleSteps ==
  ASSUME LeaseInv,
         \/ \E m \in MACs : Receive(m)
         \/ \E w \in writes : WriteLands(w) \/ WriteFails(w)
         \/ \E r \in Reservations : Reserve(r)
         \/ StopServer \/ Tick
  PROVE  LeaseInv'
<1>1. LeaseTypes /\ now \in Nat /\ Len(pools) \in 1..Len(pools) /\ config.lease \in LeaseTimes
  BY CurrentType DEF LeaseInv, LeaseTypes
<1>2. CASE \E m \in MACs : Receive(m)
  <2>1. PICK m \in MACs : asked' = Put(asked, m, [pool |-> Len(pools), lease |-> config.lease])
    BY <1>2 DEF Receive
  <2>2. UNCHANGED <<pools, config, reserve, store, writes, now, bound, excused>>
    BY <1>2 DEF Receive
  <2> DEFINE a == [pool |-> Len(pools), lease |-> config.lease]
  <2>3. a \in AskedType /\ a.pool \in 1..Len(pools) /\ asked \in MapsTo(AskedType) /\ asked' = Put(asked, m, a)
    BY <1>1, <2>1 DEF AskedType, LeaseTypes
  <2> HIDE DEF a
  <2>4. /\ asked' \in MapsTo(AskedType) /\ DOMAIN asked' = DOMAIN asked \cup {m} /\ asked'[m] = a
        /\ \A k \in DOMAIN asked \ {m} : asked'[k] = asked[k]
    BY <2>3, AskedPut
  <2>5. \A k \in DOMAIN asked' : asked'[k].pool \in 1..Len(pools)
    BY <1>1, <2>3, <2>4 DEF LeaseTypes
  <2>6. LeaseTypes'
    BY <1>1, <2>2, <2>4, <2>5 DEF LeaseTypes, WriteTyped
  <2>7. QED BY <1>1, <2>2, <2>6, LeasesLeft
<1>3. CASE \E w \in writes : WriteLands(w) \/ WriteFails(w)
  <2>1. PICK w \in writes : WriteLands(w) \/ WriteFails(w)
    BY <1>3
  <2>2. UNCHANGED <<pools, config, reserve, asked, now, bound, excused>> /\ writes' \subseteq writes
    BY <2>1 DEF WriteLands, WriteFails
  <2>3. store \in MapsTo(LeaseType) /\ WriteTyped(w)
    BY <1>1 DEF LeaseTypes
  <2>4. store' \in MapsTo(LeaseType)
    <3>1. CASE store' = store
      BY <2>3, <3>1
    <3>2. CASE store' = Restrict(store, DOMAIN store \ {w.mac})
      BY <2>3, <3>2, RestrictFacts
    <3>3. CASE w.op = "upsert" /\ WriteLands(w)
      <4>1. PICK l \in LeaseType : w.lease = {l}
        BY <2>3, <3>3 DEF WriteTyped
      <4>2. (CHOOSE x \in w.lease : TRUE) \in LeaseType
        BY <4>1
      <4>3. w.mac \in MACs
        BY <2>3 DEF WriteTyped
      <4>4. QED BY <2>3, <3>3, <4>2, <4>3, PutFacts DEF WriteLands
    <3>4. QED BY <2>1, <3>1, <3>2, <3>3 DEF WriteLands, WriteFails
  <2>5. LeaseTypes'
    <3>1. \A v \in writes' : WriteTyped(v)
      BY <1>1, <2>2 DEF LeaseTypes
    <3>2. (\A v \in writes : WriteTyped(v))'
      BY <3>1 DEF WriteTyped
    <3>3. QED BY <1>1, <2>2, <2>4, <3>2 DEF LeaseTypes
  <2>6. QED BY <1>1, <2>2, <2>5, LeasesLeft
<1>4. CASE (\E r \in Reservations : Reserve(r)) \/ StopServer \/ Tick
  <2>1. UNCHANGED <<pools, config, store, writes, asked, bound, excused>>
    BY <1>4 DEF Reserve, StopServer, Tick
  <2>2. now' \in Nat /\ now <= now'
    BY <1>1, <1>4 DEF Reserve, StopServer, Tick
  <2>3. reserve' \in MapsTo(Nat)
    <3>1. reserve' = reserve \/ reserve' \in Reservations
      BY <1>4 DEF Reserve, StopServer, Tick
    <3>2. QED BY <1>1, <3>1, LeaseAssumption, MapFacts DEF LeaseTypes
  <2>4. LeaseTypes'
    BY <1>1, <2>1, <2>2, <2>3 DEF LeaseTypes, WriteTyped
  <2>5. QED BY <2>1, <2>2, <2>4, LeasesLeft
<1>5. QED BY <1>2, <1>3, <1>4

\* The pools after one of them was written.
LEMMA PoolWritten ==
  ASSUME LeaseTypes, NEW i \in 1..Len(pools), NEW x \in PoolType, pools' = [pools EXCEPT ![i] = x]
  PROVE  /\ pools' \in Seq(PoolType) /\ Len(pools') = Len(pools)
         /\ Current' = IF i = Len(pools) THEN x ELSE Current
BY DEF LeaseTypes, Current

LEMMA LeaseUpdateReservations ==
  ASSUME LeaseInv, UpdateReservations
  PROVE  LeaseInv'
<1> DEFINE x == [Current EXCEPT !.reserved = reserve]
<1>1. LeaseTypes /\ Current \in PoolType /\ reserve \in MapsTo(Nat) /\ Len(pools) \in 1..Len(pools)
  BY CurrentType DEF LeaseInv, LeaseTypes
<1>2. x \in PoolType /\ x.leases = Current.leases /\ x.range = Current.range /\ x.ttl = Current.ttl
  BY <1>1 DEF PoolType
<1>3. pools' = [pools EXCEPT ![Len(pools)] = x]
  BY DEF UpdateReservations, Current
<1> HIDE DEF x
<1>4. pools' \in Seq(PoolType) /\ Len(pools') = Len(pools) /\ Current' = x
  BY <1>1, <1>2, <1>3, PoolWritten
<1>5. UNCHANGED <<config, reserve, store, writes, asked, now, bound, excused>>
  BY DEF UpdateReservations
<1>6. LeaseTypes'
  BY <1>1, <1>4, <1>5 DEF LeaseTypes, WriteTyped
<1>7. Distinct(Current)'
  BY <1>2, <1>4, <1>5 DEF LeaseInv, Distinct
<1>8. \A m \in MACs : Relies(m)' => Backs(Current, m)'
  <2>1. \A m \in MACs : Relies(m) => Backs(Current, m)
    BY DEF LeaseInv
  <2>2. QED BY <1>2, <1>4, <1>5, <2>1 DEF Relies, Backs
<1>9. Current'.ttl = config'.lease
  BY <1>2, <1>4, <1>5 DEF LeaseInv
<1>10. QED BY <1>6, <1>7, <1>8, <1>9 DEF LeaseInv

LEMMA LeaseReleased ==
  ASSUME LeaseInv, NEW m \in MACs, ReleaseLease(m)
  PROVE  LeaseInv'
<1>1. /\ LeaseTypes /\ Current \in PoolType /\ Len(pools) \in 1..Len(pools)
      /\ UNCHANGED <<config, reserve, asked, now, excused>>
  BY CurrentType DEF LeaseInv, ReleaseLease
<1>2. bound' = Restrict(bound, DOMAIN bound \ {m}) /\ bound \in MapsTo(BoundType)
  BY <1>1 DEF ReleaseLease, LeaseTypes
<1>3. bound' \in MapsTo(BoundType) /\ DOMAIN bound' = DOMAIN bound \ {m} /\ \A k \in DOMAIN bound' : bound'[k] = bound[k]
  BY <1>2, RestrictFacts
<1>4. \A k \in MACs : Relies(k)' => Relies(k) /\ k # m /\ bound'[k] = bound[k]
  BY <1>1, <1>3 DEF Relies
<1>5. CASE serving
  <2> DEFINE kept == Restrict(Current.leases, DOMAIN Current.leases \ {m})
             x == [Current EXCEPT !.leases = kept]
  <2>1. pools' = [pools EXCEPT ![Len(pools)] = x] /\ writes' = writes \cup {Delete(m)} /\ store' = store
    BY <1>5 DEF ReleaseLease, Current
  <2>2. Current.leases \in MapsTo(LeaseType)
    BY <1>1 DEF PoolType
  <2>3. /\ kept \in MapsTo(LeaseType) /\ DOMAIN kept = DOMAIN Current.leases \ {m}
        /\ \A k \in DOMAIN kept : kept[k] = Current.leases[k]
    BY <2>2, RestrictFacts
  <2> HIDE DEF kept
  <2>4. x \in PoolType /\ x.leases = kept /\ x.range = Current.range /\ x.ttl = Current.ttl
    BY <1>1, <2>3 DEF PoolType
  <2> HIDE DEF x
  <2>5. pools' \in Seq(PoolType) /\ Len(pools') = Len(pools) /\ Current' = x
    BY <1>1, <2>1, <2>4, PoolWritten
  <2>6. \A w \in writes' : WriteTyped(w)
    BY <1>1, <2>1 DEF LeaseTypes, WriteTyped, Delete
  <2>7. LeaseTypes'
    <3>1. (\A w \in writes : WriteTyped(w))'
      BY <2>6 DEF WriteTyped
    <3>2. QED BY <1>1, <1>3, <2>1, <2>5, <3>1 DEF LeaseTypes
  <2>8. Distinct(Current)'
    BY <1>1, <2>3, <2>4, <2>5 DEF LeaseInv, Distinct
  <2>9. \A k \in MACs : Relies(k)' => Backs(Current, k)'
    <3> SUFFICES ASSUME NEW k \in MACs, Relies(k)' PROVE Backs(Current, k)'
      OBVIOUS
    <3>1. Backs(Current, k) /\ k # m /\ bound'[k] = bound[k]
      BY <1>4 DEF LeaseInv
    <3>2. QED BY <2>3, <2>4, <2>5, <3>1 DEF Backs
  <2>10. Current'.ttl = config'.lease
    BY <1>1, <2>4, <2>5 DEF LeaseInv
  <2>11. QED BY <2>7, <2>8, <2>9, <2>10 DEF LeaseInv
<1>6. CASE ~serving
  <2>1. /\ UNCHANGED <<pools, writes>> /\ Current' = Current
        /\ store' = store \/ store' = Restrict(store, DOMAIN store \ {m})
    BY <1>6 DEF ReleaseLease, Current
  <2>2. store' \in MapsTo(LeaseType)
    BY <1>1, <2>1, RestrictFacts DEF LeaseTypes
  <2>3. LeaseTypes'
    BY <1>1, <1>3, <2>1, <2>2 DEF LeaseTypes, WriteTyped
  <2>4. \A k \in MACs : Relies(k)' => Backs(Current, k)'
    <3> SUFFICES ASSUME NEW k \in MACs, Relies(k)' PROVE Backs(Current, k)'
      OBVIOUS
    <3>1. Backs(Current, k) /\ bound'[k] = bound[k]
      BY <1>4 DEF LeaseInv
    <3>2. QED BY <2>1, <3>1 DEF Backs
  <2>5. QED BY <1>1, <2>1, <2>3, <2>4 DEF LeaseInv, Distinct
<1>7. QED BY <1>5, <1>6

\* A pool restored from the table knows the leases whose record in the table is
\* what memory held.
LEMMA RestoredLeases ==
  ASSUME LeaseTypes, NEW range \in Ranges, NEW ttl \in LeaseTimes, NEW reserved \in MapsTo(Nat)
  PROVE  LET new == NewPool(range, ttl, reserved, "ok") IN
         /\ new \in PoolType /\ new.range = range /\ new.ttl = ttl
         /\ \A k \in DOMAIN new.leases \ Unsaved :
                k \in DOMAIN Current.leases /\ new.leases[k] = Current.leases[k]
         /\ \A k \in DOMAIN Current.leases \ Unsaved :
                InRange(range, Current.leases[k].ip) /\ ~Expired(ttl, Current.leases[k])
                    => k \in DOMAIN new.leases
<1> DEFINE new == NewPool(range, ttl, reserved, "ok")
           kept == Restrict(store, Restorable(range, ttl))
<1>1. store \in MapsTo(LeaseType) /\ DOMAIN store \subseteq MACs /\ pools # <<>>
  BY MapFacts DEF LeaseTypes
<1>2. Restorable(range, ttl) \subseteq DOMAIN store
  BY DEF Restorable
<1>3. /\ kept \in MapsTo(LeaseType) /\ DOMAIN kept = Restorable(range, ttl)
      /\ \A k \in DOMAIN kept : kept[k] = store[k]
  BY <1>1, <1>2, RestrictFacts
<1> HIDE DEF kept
<1>4. new \in PoolType /\ new.range = range /\ new.ttl = ttl /\ new.leases = kept
  BY <1>3 DEF NewPool, PoolType, kept
<1> HIDE DEF new
<1>5. DOMAIN Current.leases \subseteq MACs
  <2>1. Current.leases \in MapsTo(LeaseType)
    BY CurrentType DEF PoolType
  <2>2. QED BY <2>1, MapFacts
<1>6. \A k \in MACs \ Unsaved : /\ k \in DOMAIN store => k \in DOMAIN Current.leases /\ store[k] = Current.leases[k]
                                /\ k \in DOMAIN Current.leases => k \in DOMAIN store
  BY <1>1 DEF Unsaved, Held, Stored
<1>7. \A k \in DOMAIN new.leases \ Unsaved :
         k \in DOMAIN Current.leases /\ new.leases[k] = Current.leases[k]
  BY <1>1, <1>2, <1>3, <1>4, <1>6
<1>8. ASSUME NEW k \in DOMAIN Current.leases \ Unsaved,
             InRange(range, Current.leases[k].ip), ~Expired(ttl, Current.leases[k])
      PROVE  k \in DOMAIN new.leases
  <2>1. k \in DOMAIN store /\ store[k] = Current.leases[k]
    <3>1. k \in DOMAIN Current.leases /\ k \notin Unsaved
      BY <1>8
    <3>2. k \in MACs
      BY <1>5, <3>1
    <3>3. QED BY <1>6, <3>1, <3>2
  <2>2. k \in Restorable(range, ttl)
    BY <1>8, <2>1 DEF Restorable
  <2>3. QED BY <1>3, <1>4, <2>2
<1>9. QED BY <1>3, <1>4, <1>7, <1>8 DEF new, kept

\* A table that cannot be listed leaves a pool without leases.
LEMMA EmptyPool ==
  ASSUME LeaseTypes, NEW range \in Ranges, NEW ttl \in LeaseTimes, NEW reserved \in MapsTo(Nat)
  PROVE  LET new == NewPool(range, ttl, reserved, "error") IN
         new \in PoolType /\ new.ttl = ttl /\ DOMAIN new.leases = {}
<1> DEFINE kept == Restrict(store, {})
<1>1. store \in MapsTo(LeaseType)
  BY DEF LeaseTypes
<1>2. kept \in MapsTo(LeaseType) /\ DOMAIN kept = {}
  BY <1>1, RestrictFacts
<1> HIDE DEF kept
<1>3. NewPool(range, ttl, reserved, "error") =
          [range |-> range, ttl |-> ttl, reserved |-> reserved, leases |-> kept]
  BY DEF NewPool, kept
<1> DEFINE new == NewPool(range, ttl, reserved, "error")
<1>4. new \in PoolType /\ new.ttl = ttl /\ new.leases = kept
  BY <1>2, <1>3 DEF PoolType
<1> HIDE DEF new
<1>5. DOMAIN new.leases = {}
  BY <1>2, <1>4
<1>6. QED BY <1>4, <1>5 DEF new

\* What building a pool leaves of the table.
LEMMA RestoredStore ==
  ASSUME LeaseTypes, NEW range, NEW ttl, NEW list \in {"ok", "error"}, Restore(range, ttl, list)
  PROVE  store' \in MapsTo(LeaseType)
<1>1. store \in MapsTo(LeaseType)
  BY DEF LeaseTypes
<1>2. store' = store \/ \E gone \in SUBSET DOMAIN store : store' = Restrict(store, DOMAIN store \ gone)
  BY DEF Restore, Purged
<1>3. ASSUME NEW gone, store' = Restrict(store, DOMAIN store \ gone) PROVE store' \in MapsTo(LeaseType)
  <2>1. DOMAIN store \ gone \subseteq DOMAIN store
    OBVIOUS
  <2>2. QED BY <1>1, <1>3, <2>1, RestrictFacts
<1>4. QED BY <1>1, <1>2, <1>3

\* The same, when the table could be listed.
LEMMA ListedRebuild ==
  ASSUME LeaseInv, LeaseTypes', NEW range \in Ranges, NEW ttl \in LeaseTimes, NEW reserved \in MapsTo(Nat),
         Current' = NewPool(range, ttl, reserved, "ok"), config'.lease = ttl, UNCHANGED <<bound, now>>,
         excused' = excused \cup Unsaved \cup Displaced(range) \cup Shortened(ttl)
  PROVE  LeaseInv'
<1> DEFINE new == NewPool(range, ttl, reserved, "ok")
<1>1. LeaseTypes /\ Current \in PoolType /\ ttl \in Nat
  BY CurrentType, LeaseAssumption DEF LeaseInv
<1>2. /\ new.range = range /\ new.ttl = ttl
      /\ \A k \in DOMAIN new.leases \ Unsaved :
            k \in DOMAIN Current.leases /\ new.leases[k] = Current.leases[k]
      /\ \A k \in DOMAIN Current.leases \ Unsaved :
            InRange(range, Current.leases[k].ip) /\ ~Expired(ttl, Current.leases[k])
                => k \in DOMAIN new.leases
  BY <1>1, RestoredLeases
<1>3. Current' = new
  OBVIOUS
<1> HIDE DEF new
<1>4. Distinct(Current)'
  <2> SUFFICES ASSUME NEW j \in DOMAIN new.leases \ excused', NEW k \in DOMAIN new.leases \ excused', j # k,
                      ~new.leases[j].static, ~new.leases[k].static
               PROVE  new.leases[j].ip # new.leases[k].ip
    BY <1>3 DEF Distinct
  <2>1. /\ j \in DOMAIN Current.leases \ excused /\ new.leases[j] = Current.leases[j]
        /\ k \in DOMAIN Current.leases \ excused /\ new.leases[k] = Current.leases[k]
    BY <1>2
  <2>2. Distinct(Current)
    BY DEF LeaseInv
  <2>3. QED BY <2>1, <2>2 DEF Distinct
<1>5. ASSUME NEW m \in MACs, Relies(m)' PROVE Backs(Current, m)'
  <2>1. m \in DOMAIN bound /\ m \notin excused' /\ Relies(m) /\ m \notin Unsaved /\ m \notin Displaced(range)
    BY <1>5 DEF Relies
  <2>2. Backs(Current, m)
    BY <2>1 DEF LeaseInv
  <2>3. bound[m].until \in Nat /\ bound[m].at \in Nat /\ now \in Nat
    BY <1>1, <2>1, BoundAt DEF LeaseTypes
  <2>4. ttl > 0 => bound[m].until <= bound[m].at + ttl
    BY <1>1, <2>1, <2>3 DEF Shortened
  <2>5. ~Expired(ttl, Current.leases[m])
    BY <1>1, <2>1, <2>2, <2>3, <2>4 DEF Expired, Backs, Relies
  <2>6. InRange(range, bound[m].ip)
    BY <2>1 DEF Displaced
  <2>7. m \in DOMAIN new.leases /\ new.leases[m] = Current.leases[m]
    BY <1>2, <2>1, <2>2, <2>5, <2>6 DEF Backs
  <2>8. QED BY <1>2, <1>3, <2>2, <2>4, <2>6, <2>7 DEF Backs
<1>6. Current'.ttl = config'.lease
  BY <1>2, <1>3
<1>7. QED BY <1>4, <1>5, <1>6 DEF LeaseInv

\* A step that replaces the current pool by one restored from the table, and
\* excuses those it cannot know.
LEMMA LeaseRebuilt ==
  ASSUME LeaseInv, LeaseTypes', NEW range \in Ranges, NEW ttl \in LeaseTimes, NEW reserved \in MapsTo(Nat),
         NEW list \in {"ok", "error"}, Current' = NewPool(range, ttl, reserved, list), config'.lease = ttl,
         UNCHANGED <<bound, now>>, Restore(range, ttl, list)
  PROVE  LeaseInv'
<1>a. CASE list = "error"
  <2>2. LeaseTypes /\ excused' = excused \cup DOMAIN bound /\ Current' = NewPool(range, ttl, reserved, "error")
    BY <1>a DEF LeaseInv, Restore
  <2>3. Current'.ttl = ttl /\ DOMAIN Current'.leases = {}
    BY <2>2, EmptyPool
  <2>4. Distinct(Current)'
    BY <2>3 DEF Distinct
  <2>5. \A m \in MACs : ~Relies(m)'
    BY <2>2 DEF Relies
  <2>6. QED BY <2>3, <2>4, <2>5 DEF LeaseInv
<1>b. CASE list = "ok"
  <2>2. /\ Current' = NewPool(range, ttl, reserved, "ok")
        /\ excused' = excused \cup Unsaved \cup Displaced(range) \cup Shortened(ttl)
    BY <1>b DEF Restore
  <2>3. QED BY <2>2, ListedRebuild
<1>c. QED BY <1>a, <1>b

LEMMA LeaseRestarts ==
  ASSUME LeaseInv, StartServer \/ Restart
  PROVE  LeaseInv'
<1>0. PICK list \in {"ok", "error"} :
         /\ \/ StartServer /\ pools' = Superseded(NewPool(config.range, config.lease, reserve, list))
            \/ Restart /\ pools' = <<NewPool(config.range, config.lease, reserve, list)>>
         /\ Restore(config.range, config.lease, list)
  BY DEF StartServer, Restart
<1> DEFINE new == NewPool(config.range, config.lease, reserve, list)
<1>1. /\ LeaseTypes /\ config.range \in Ranges /\ config.lease \in LeaseTimes /\ reserve \in MapsTo(Nat)
      /\ config.lease = Current.ttl
  BY DEF LeaseInv, LeaseTypes
<1>2. UNCHANGED <<config, reserve, now, bound>>
  BY DEF StartServer, Restart
<1>3. new \in PoolType /\ store' \in MapsTo(LeaseType)
  <2>1. ASSUME list = "ok" PROVE new \in PoolType
    BY <2>1, <1>1, RestoredLeases
  <2>2. ASSUME list = "error" PROVE new \in PoolType
    BY <2>2, <1>1, EmptyPool
  <2>3. store' \in MapsTo(LeaseType)
    BY <1>0, <1>1, RestoredStore
  <2>4. QED BY <2>1, <2>2, <2>3
<1>z. (StartServer /\ pools' = Superseded(new)) \/ (Restart /\ pools' = <<new>>)
  BY <1>0
<1> HIDE DEF new
<1>4. /\ pools' \in Seq(PoolType) /\ Len(pools') > 0 /\ Current' = new
      /\ DOMAIN asked' = {} \/ (asked' = asked /\ Len(pools') = Len(pools) + 1)
      /\ asked' \in MapsTo(AskedType) /\ \A w \in writes' : w \in writes
  <2>1. CASE pools' = <<new>>
    <3>1. pools' \in Seq(PoolType) /\ Len(pools') > 0 /\ Current' = new
      BY <1>3, <2>1 DEF Current
    <3>2. DOMAIN asked' = {} \/ (asked' = asked /\ Len(pools') = Len(pools) + 1)
      <4>1. CASE Restart
        BY <4>1, NoMapIsMap DEF Restart
      <4>2. CASE StartServer /\ DOMAIN asked = {}
        BY <4>2 DEF StartServer
      <4>3. CASE StartServer /\ pools' = Superseded(new) /\ DOMAIN asked # {}
        BY <1>1, <1>3, <4>3 DEF StartServer, Superseded, LeaseTypes
      <4>4. QED BY <4>1, <4>2, <4>3, <1>z
    <3>3. asked' \in MapsTo(AskedType) /\ \A w \in writes' : w \in writes
      BY <1>1, NoMapIsMap DEF StartServer, Restart, LeaseTypes
    <3>4. QED BY <3>1, <3>2, <3>3
  <2>2. CASE pools' = Append(pools, new) /\ StartServer
    <3>1. pools \in Seq(PoolType)
      BY <1>1 DEF LeaseTypes
    <3>2. pools' \in Seq(PoolType) /\ Len(pools') = Len(pools) + 1 /\ Current' = new
      BY <1>3, <2>2, <3>1 DEF Current
    <3>3. QED BY <1>1, <2>2, <3>1, <3>2 DEF StartServer, LeaseTypes
  <2>3. QED BY <2>1, <2>2, <1>z DEF Superseded
<1>5. LeaseTypes'
  <2>1. \A m \in DOMAIN asked' : asked'[m].pool \in 1..Len(pools')
    BY <1>1, <1>4 DEF LeaseTypes
  <2>2. (\A w \in writes : WriteTyped(w))'
    BY <1>1, <1>4 DEF LeaseTypes, WriteTyped
  <2>3. QED BY <1>1, <1>2, <1>3, <1>4, <2>1, <2>2 DEF LeaseTypes
<1>6. Current' = NewPool(config.range, config.lease, reserve, list) /\ config'.lease = config.lease
  BY <1>2, <1>4 DEF new
<1>7. QED BY <1>0, <1>1, <1>2, <1>5, <1>6, LeaseRebuilt

LEMMA LeaseReconfigured ==
  ASSUME LeaseInv, NEW range \in Ranges, NEW lease \in LeaseTimes, Reconfigure(range, lease)
  PROVE  LeaseInv'
<1>1. /\ LeaseTypes /\ Current \in PoolType /\ Len(pools) \in 1..Len(pools) /\ pools \in Seq(PoolType)
      /\ UNCHANGED <<reserve, writes, asked, now, bound>>
      /\ config' = [range |-> range, lease |-> lease]
  BY CurrentType DEF LeaseInv, LeaseTypes, Reconfigure
<1>2. config' \in [range : Ranges, lease : LeaseTimes] /\ config'.lease = lease
  BY <1>1
<1>3. CASE range # config.range
  <2>0. PICK list \in {"ok", "error"} : /\ pools' = Append(pools, NewPool(range, lease, NoMap, list))
                                 /\ Restore(range, lease, list)
    BY <1>3 DEF Reconfigure
  <2> DEFINE new == NewPool(range, lease, NoMap, list)
  <2>1. pools' = Append(pools, new)
    BY <2>0
  <2>2. NoMap \in MapsTo(Nat)
    BY NoMapIsMap
  <2>3. new \in PoolType /\ store' \in MapsTo(LeaseType)
    <3>1. ASSUME list = "ok" PROVE new \in PoolType
      BY <3>1, <1>1, <2>2, RestoredLeases
    <3>2. ASSUME list = "error" PROVE new \in PoolType
      BY <3>2, <1>1, <2>2, EmptyPool
    <3>3. store' \in MapsTo(LeaseType)
      BY <2>0, <1>1, RestoredStore
    <3>4. QED BY <3>1, <3>2, <3>3
  <2> HIDE DEF new
  <2>4. pools' \in Seq(PoolType) /\ Len(pools') = Len(pools) + 1 /\ Current' = new
    BY <1>1, <2>1, <2>3 DEF Current
  <2>5. \A m \in DOMAIN asked' : asked'[m].pool \in 1..Len(pools')
    BY <1>1, <2>4 DEF LeaseTypes
  <2>6. LeaseTypes'
    BY <1>1, <1>2, <2>3, <2>4, <2>5 DEF LeaseTypes, WriteTyped
  <2>7. Current' = NewPool(range, lease, NoMap, list)
    BY <2>4 DEF new
  <2>8. QED BY <2>0, <1>1, <1>2, <2>2, <2>6, <2>7, LeaseRebuilt
<1>4. CASE range = config.range
  <2> DEFINE x == [Current EXCEPT !.ttl = lease]
  <2>1. pools' = [pools EXCEPT ![Len(pools)] = x] /\ excused' = excused \cup Shortened(lease) /\ store' = store
    BY <1>4 DEF Reconfigure, Current
  <2>2. x \in PoolType /\ x.leases = Current.leases /\ x.range = Current.range /\ x.ttl = lease
    BY <1>1 DEF PoolType
  <2> HIDE DEF x
  <2>3. pools' \in Seq(PoolType) /\ Len(pools') = Len(pools) /\ Current' = x
    BY <1>1, <2>1, <2>2, PoolWritten
  <2>4. LeaseTypes'
    BY <1>1, <1>2, <2>1, <2>3 DEF LeaseTypes, WriteTyped
  <2>5. Distinct(Current)'
    BY <2>1, <2>2, <2>3 DEF LeaseInv, Distinct
  <2>6. ASSUME NEW m \in MACs, Relies(m)' PROVE Backs(Current, m)'
    <3>1. m \in DOMAIN bound /\ m \notin Shortened(lease) /\ Relies(m)
      BY <1>1, <2>1, <2>6 DEF Relies
    <3>2. Backs(Current, m) /\ bound[m].until \in Nat /\ bound[m].at \in Nat /\ lease \in Nat
      BY <1>1, <3>1, BoundAt, LeaseAssumption DEF LeaseInv
    <3>3. lease > 0 => bound[m].until <= bound[m].at + lease
      BY <3>1, <3>2 DEF Shortened
    <3>4. QED BY <1>1, <2>2, <2>3, <3>2, <3>3 DEF Backs
  <2>7. QED BY <1>2, <2>2, <2>3, <2>4, <2>5, <2>6 DEF LeaseInv
<1>5. QED BY <1>3, <1>4

\* The handler allocates from a pool: the current one, or one that it copied
\* before it was replaced and that nobody else answers from.
LEMMA LeaseAnswered ==
  ASSUME LeaseInv, NEW m \in MACs, Answer(m)
  PROVE  LeaseInv'
<1> DEFINE i == asked[m].pool
           pool == pools[i]
           out == Allocate(pool, m)
<1>1. /\ LeaseTypes /\ now \in Nat /\ m \in DOMAIN asked /\ i \in 1..Len(pools)
      /\ Current \in PoolType /\ Len(pools) \in 1..Len(pools)
      /\ asked \in MapsTo(AskedType) /\ bound \in MapsTo(BoundType)
      /\ UNCHANGED <<config, reserve, store, now>>
  BY CurrentType DEF LeaseInv, LeaseTypes, Answer
<1>2. pool \in PoolType
  BY <1>1 DEF LeaseTypes
<1>3. /\ PoolKept(pool, out.pool, m)
      /\ \/ \E l \in LeaseType : out.lease = {l} /\ Granted(pool, out.pool, m, l)
         \/ out.lease = {} /\ ~OwnIsGood(pool, m) /\ m \notin DOMAIN out.pool.leases
      /\ \A w \in out.writes : WriteTyped(w)
  BY <1>1, <1>2, AllocateFacts
<1>4. /\ pools' = [pools EXCEPT ![i] = out.pool] /\ writes' = writes \cup out.writes
      /\ asked' = Restrict(asked, DOMAIN asked \ {m})
  BY DEF Answer
<1> DEFINE stale == ~serving \/ i # Len(pools) \/ asked[m].lease # config.lease
           until == now + Promise(asked[m].lease)
<1>5. \/ out.lease = {} /\ bound' = bound /\ excused' = excused
      \/ \E l \in LeaseType :
            /\ out.lease = {l} /\ Granted(pool, out.pool, m, l)
            /\ bound' = Put(bound, m, [ip |-> l.ip, at |-> now, static |-> l.static, until |-> until])
            /\ excused' = IF stale THEN excused \cup {m} ELSE excused
  <2>1. CASE out.lease = {}
    BY <2>1 DEF Answer
  <2>2. ASSUME NEW l \in LeaseType, out.lease = {l}
        PROVE  /\ bound' = Put(bound, m, [ip |-> l.ip, at |-> now, static |-> l.static, until |-> until])
               /\ excused' = IF stale THEN excused \cup {m} ELSE excused
    <3>1. out.lease # {} /\ (CHOOSE x \in out.lease : TRUE) = l
      BY <2>2
    <3>2. QED BY <3>1 DEF Answer
  <2>3. QED BY <1>3, <2>1, <2>2
<1> HIDE DEF out
<1>6. /\ out.pool \in PoolType /\ pools' \in Seq(PoolType) /\ Len(pools') = Len(pools)
      /\ Current' = IF i = Len(pools) THEN out.pool ELSE Current
      /\ out.pool.range = pool.range /\ out.pool.ttl = pool.ttl
  BY <1>1, <1>3, <1>4, PoolWritten DEF PoolKept
<1>7. i = Len(pools) => pool = Current
  BY DEF Current
<1>8. /\ \A k \in DOMAIN bound \ {m} : k \in DOMAIN bound' /\ bound'[k] = bound[k]
      /\ \A k \in DOMAIN bound' \ {m} : k \in DOMAIN bound
      /\ bound' \in MapsTo(BoundType) /\ excused \subseteq excused'
  <2>1. CASE bound' = bound /\ excused' = excused
    BY <1>1, <2>1
  <2>2. ASSUME NEW l \in LeaseType,
               bound' = Put(bound, m, [ip |-> l.ip, at |-> now, static |-> l.static, until |-> until])
        PROVE  /\ \A k \in DOMAIN bound \ {m} : k \in DOMAIN bound' /\ bound'[k] = bound[k]
               /\ \A k \in DOMAIN bound' \ {m} : k \in DOMAIN bound
               /\ bound' \in MapsTo(BoundType)
    <3> DEFINE b == [ip |-> l.ip, at |-> now, static |-> l.static, until |-> until]
    <3>1. asked[m] \in AskedType
      BY <1>1, MapAt
    <3>2. asked[m].lease \in Nat
      BY <3>1, LeaseAssumption DEF AskedType
    <3>3. until \in Nat
      BY <1>1, <3>2, LeaseAssumption DEF Promise
    <3> HIDE DEF until
    <3>4. b \in BoundType /\ bound' = Put(bound, m, b)
      BY <1>1, <2>2, <3>3 DEF BoundType, LeaseType
    <3> HIDE DEF b
    <3>5. bound' \in MapsTo(BoundType)
      BY <1>1, <3>4, PutFacts
    <3>6. QED BY <3>4, <3>5 DEF Put
  <2>3. QED BY <1>5, <2>1, <2>2
<1>9. LeaseTypes'
  <2>1. /\ asked' \in MapsTo(AskedType) /\ DOMAIN asked' = DOMAIN asked \ {m}
        /\ \A k \in DOMAIN asked' : asked'[k] = asked[k]
    BY <1>1, <1>4, RestrictFacts
  <2>2. \A w \in writes' : WriteTyped(w)
    BY <1>1, <1>3, <1>4 DEF LeaseTypes
  <2>3. (\A w \in writes : WriteTyped(w))'
    BY <2>2 DEF WriteTyped
  <2>4. QED BY <1>1, <1>6, <1>8, <2>1, <2>3 DEF LeaseTypes
<1>10. Current'.ttl = Current.ttl /\ Current'.range = Current.range /\ config.lease = Current.ttl
  BY <1>6, <1>7 DEF LeaseInv
<1>11. Distinct(Current)'
  <2>1. Distinct(Current)
    BY DEF LeaseInv
  <2>2. CASE i # Len(pools)
    BY <1>6, <1>8, <2>1, <2>2 DEF Distinct
  <2>3. CASE i = Len(pools)
    <3> DEFINE old == Current.leases
               new == out.pool.leases
    <3>1. pool.leases = old /\ Current'.leases = new
      BY <1>6, <1>7, <2>3
    <3>2. \A k \in DOMAIN new \ {m} : k \in DOMAIN old /\ new[k] = old[k]
      BY <1>3, <3>1 DEF PoolKept
    <3>3. ASSUME NEW k \in DOMAIN new \ excused', k # m, m \in DOMAIN new, m \notin excused',
                 ~new[m].static, ~new[k].static
          PROVE  new[m].ip # new[k].ip
      <4>1. PICK l \in LeaseType : Granted(pool, out.pool, m, l)
        BY <1>3, <3>3
      <4>2. new[m] = l
        BY <4>1 DEF Granted
      <4>3. CASE \A j \in DOMAIN new \ {m} : new[j].ip # l.ip
        BY <3>3, <4>2, <4>3
      <4>4. CASE m \in DOMAIN old /\ ~old[m].static /\ l.ip = old[m].ip
        <5>1. k \in DOMAIN old \ excused /\ new[k] = old[k] /\ m \in DOMAIN old \ excused
          BY <1>8, <3>2, <3>3, <4>4
        <5>2. old[m].ip # old[k].ip
          BY <2>1, <3>3, <4>4, <5>1 DEF Distinct
        <5>3. QED BY <4>2, <4>4, <5>1, <5>2
      <4>5. QED BY <3>1, <3>3, <4>1, <4>2, <4>3, <4>4 DEF Granted
    <3>4. ASSUME NEW j \in DOMAIN new \ excused', NEW k \in DOMAIN new \ excused', j # k, j # m, k # m,
                 ~new[j].static, ~new[k].static
          PROVE  new[j].ip # new[k].ip
      BY <1>8, <2>1, <3>2, <3>4 DEF Distinct
    <3> HIDE DEF new, old
    <3>5. \A j, k \in DOMAIN new \ excused' : j # k /\ ~new[j].static /\ ~new[k].static => new[j].ip # new[k].ip
      BY <3>3, <3>4
    <3>6. QED BY <3>1, <3>5 DEF Distinct
  <2>4. QED BY <2>2, <2>3
<1>12. ASSUME NEW k \in MACs, Relies(k)', k # m PROVE Backs(Current, k)'
  <2>1. Relies(k) /\ bound'[k] = bound[k] /\ k \in DOMAIN bound
    BY <1>1, <1>8, <1>12 DEF Relies
  <2>2. Backs(Current, k)
    BY <2>1 DEF LeaseInv
  <2>3. k \in DOMAIN Current'.leases /\ Current'.leases[k] = Current.leases[k]
    <3>1. CASE i # Len(pools)
      BY <1>6, <2>2, <3>1 DEF Backs
    <3>2. CASE i = Len(pools)
      <4>1. bound[k].until \in Nat /\ bound[k].at \in Nat /\ now \in Nat /\ Current.ttl \in Nat
        BY <1>1, <2>1, BoundAt, LeaseAssumption DEF PoolType
      <4>2. ~Expired(Current.ttl, Current.leases[k])
        BY <2>1, <2>2, <4>1 DEF Expired, Backs, Relies
      <4>3. pool = Current /\ Current' = out.pool
        BY <1>6, <1>7, <3>2
      <4>4. QED BY <1>3, <1>12, <2>2, <4>2, <4>3 DEF PoolKept, Backs
    <3>3. QED BY <3>1, <3>2
  <2>4. QED BY <1>10, <2>1, <2>2, <2>3 DEF Backs
<1>13. ASSUME Relies(m)' PROVE Backs(Current, m)'
  <2>1. CASE out.lease = {}
    <3>1. bound' = bound /\ excused' = excused /\ ~OwnIsGood(pool, m)
      BY <1>3, <1>5, <2>1
    <3>2. Relies(m) /\ Backs(Current, m) /\ m \in DOMAIN bound
      BY <1>1, <1>13, <3>1 DEF Relies, LeaseInv
    <3>3. bound[m].until \in Nat /\ bound[m].at \in Nat /\ now \in Nat /\ Current.ttl \in Nat
      BY <1>1, <3>2, BoundAt, LeaseAssumption DEF PoolType
    <3>4. OwnIsGood(Current, m)
      BY <3>2, <3>3 DEF OwnIsGood, Expired, Backs, Relies
    <3>5. i # Len(pools)
      BY <1>7, <3>1, <3>4
    <3>6. QED BY <1>6, <3>1, <3>2, <3>5 DEF Backs
  <2>2. ASSUME NEW l \in LeaseType, Granted(pool, out.pool, m, l),
               bound' = Put(bound, m, [ip |-> l.ip, at |-> now, static |-> l.static, until |-> until]),
               excused' = IF stale THEN excused \cup {m} ELSE excused
        PROVE  Backs(Current, m)'
    <3>1. /\ bound'[m] = [ip |-> l.ip, at |-> now, static |-> l.static, until |-> until]
      BY <2>2 DEF Put
    <3>2. bound'[m].ip = l.ip /\ bound'[m].at = now /\ bound'[m].until = until /\ (bound'[m].static <=> l.static)
      BY <2>2, <3>1 DEF LeaseType
    <3>3. ~l.static /\ ~stale
      BY <1>13, <2>2, <3>2 DEF Relies
    <3>4. pool = Current /\ Current' = out.pool /\ asked[m].lease = Current.ttl
      BY <1>6, <1>7, <1>10, <3>3
    <3>5. /\ m \in DOMAIN Current'.leases /\ Current'.leases[m] = l /\ l.at = now
          /\ InRange(Current'.range, l.ip)
      BY <1>10, <2>2, <3>3, <3>4 DEF Granted
    <3>6. Current.ttl \in Nat
      BY <1>1, LeaseAssumption DEF PoolType
    <3>7. Current'.ttl > 0 => until <= now + Current'.ttl
      BY <1>1, <1>10, <3>4, <3>6 DEF Promise
    <3>8. QED BY <3>2, <3>3, <3>5, <3>7 DEF Backs
  <2>3. QED BY <1>5, <2>1, <2>2
<1>14. QED BY <1>1, <1>9, <1>10, <1>11, <1>12, <1>13 DEF LeaseInv

LEMMA LeaseStep == LeaseInv /\ [LeaseNext]_leaseVars => LeaseInv'
<1> SUFFICES ASSUME LeaseInv, [LeaseNext]_leaseVars PROVE LeaseInv'
  OBVIOUS
<1>1. CASE LeaseNext
  BY <1>1, LeaseLittleSteps, LeaseUpdateReservations, LeaseReleased, LeaseRestarts, LeaseReconfigured, LeaseAnswered
  DEF LeaseNext
<1>2. CASE UNCHANGED leaseVars
  <2>1. UNCHANGED <<pools, config, reserve, store, writes, asked, now, bound, excused>>
    BY <1>2 DEF leaseVars
  <2>2. LeaseTypes' /\ now <= now'
    BY <2>1 DEF LeaseInv, LeaseTypes, WriteTyped
  <2>3. QED BY <2>1, <2>2, LeasesLeft
<1>3. QED BY <1>1, <1>2

(* leasePool (pxe/lease.go) gives an address to two clients that may both be   *)
(* using it only when one holds it by static reservation, or one was granted   *)
(* it across a rebuild, a change of range or lease time, or a write to the     *)
(* table that was lost: for any number of clients, ranges and requests.        *)
THEOREM LeasesDoNotConflict == LeaseSpec => []NoAddressConflict
<1>1. ASSUME LeaseInv PROVE NoAddressConflict
  <2> SUFFICES ASSUME NEW m1 \in DOMAIN bound, NEW m2 \in DOMAIN bound, m1 # m2, bound[m1].ip = bound[m2].ip,
                      Relies(m1), Relies(m2)
               PROVE  FALSE
    BY DEF NoAddressConflict, Relies
  <2>1. m1 \in MACs /\ m2 \in MACs
    BY <1>1, BoundAt DEF LeaseInv
  <2>2. Backs(Current, m1) /\ Backs(Current, m2) /\ Distinct(Current)
    BY <1>1, <2>1 DEF LeaseInv
  <2>3. QED BY <2>2 DEF Backs, Distinct, Relies
<1>2. QED BY LeaseStart, LeaseStep, <1>1, PTL DEF LeaseSpec
=============================================================================
