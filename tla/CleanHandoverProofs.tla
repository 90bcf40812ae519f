------------------------ MODULE CleanHandoverProofs ------------------------
(***************************************************************************)
(* The safety of handing a host from one owner to the next.  Unregistering *)
(* a host and enrolling it again restarts its revision at 1, and the       *)
(* guarded UPDATEs of CommitDeployment, Transition and CompleteRelease     *)
(* compare the revision and not the enrollment: a request that read the    *)
(* host before it was unregistered can match the same revision of its next *)
(* enrollment.  The hosts to which that happened are in crossed; for all   *)
(* others the theorems hold, however often hosts are unregistered and      *)
(* enrolled.                                                               *)
(***************************************************************************)
EXTENDS BareMetalClaimsProofs

----------------------------------------------------------------------------
(* The inductive invariant *)

ClaimKinds == {"get", "deploy", "delete", "retry"}

\* A host that is not enrolled is nobody's and starts from revision 0.
Blank(h) == ~h.enrolled => h.revision = 0 /\ h.owner = None

\* A host row agrees with the deployments committed on the host (d is the last
\* one, W the cleanups, B the attempts whose system came up).
SafeHostRow(h, d, W, B) ==
  /\ h.state = "Claimed" => h.attempt = NoAttempt
  /\ h.state = "Releasing" /\ h.attempt # NoAttempt => h.attempt \in W
  /\ h.state = "Deploying" => h.attempt \notin W
  /\ h.state = "Ready" => h.attempt \in B \ W
  /\ h.attempt # NoAttempt => d = h.attempt
  /\ h.attempt = NoAttempt => d = NoAttempt \/ d \in W \cap B

\* Every UPDATE raises the revision; a DELETE begins a new count.
Newer(g, h) == h.born < g.born \/ (h.born = g.born /\ h.revision < g.revision)

\* What a claim handler has read of the present enrollment is either out of date
\* by its revision, and then it can change nothing any more, or still what the
\* table holds.
SafeRead(r, h) ==
  r.kind \in ClaimKinds =>
    /\ r.host.born <= h.born
    /\ r.host.born = h.born => r.host.revision <= h.revision
    /\ r.host.born = h.born /\ r.host.revision = h.revision => r.host = h
    /\ r.kind = "deploy" => r.host.state = "Claimed"
    /\ r.step = "releasing" => r.host.attempt = NoAttempt
    /\ /\ r.step = "row" /\ r.host.born = h.born /\ r.host.revision = h.revision
       /\ r.host.attempt # NoAttempt
       => r.row.attempt = r.host.attempt

SafeInv ==
  /\ FenceInv
  /\ \A a \in wipes : a <= lastAttempt
  /\ \A n \in Machines : Blank(host[n])
  /\ \A n \in Machines \ crossed : SafeHostRow(host[n], lastDeploy[n], wipes, booted)
  /\ \A p \in Handlers : SafeRead(req[p], host[req[p].name])

----------------------------------------------------------------------------
(* Steps *)

\* A step preserves the invariant if every host it changes gets a higher
\* revision or is unregistered, and agrees with its deployments unless a request
\* crossed its enrollment, and every request it changes has read what the table
\* now holds.
LEMMA SafeKept ==
  ASSUME SafeInv, FenceInv',
         \A n \in Machines : host'[n] = host[n] \/ Newer(host'[n], host[n]),
         \A n \in Machines : Blank(host'[n]),
         \A n \in Machines \ crossed' : SafeHostRow(host'[n], lastDeploy'[n], wipes', booted'),
         \A p \in Handlers : req'[p] = req[p] \/ SafeRead(req'[p], host'[req'[p].name]),
         \A a \in wipes' : a <= lastAttempt'
  PROVE  SafeInv'
<1>1. ASSUME NEW p \in Handlers
      PROVE  SafeRead(req'[p], host'[req'[p].name])
  <2>1. CASE req'[p] = req[p] /\ req[p].kind \in ClaimKinds
    <3> DEFINE n == req[p].name
               h == req[p].host
    <3>1. n \in Machines /\ h \in HostRows /\ host[n] \in HostRows /\ host'[n] \in HostRows
      BY Fields, Rows DEF SafeInv, FenceInv, TypeOK
    <3>2. /\ h.revision \in Nat /\ host[n].revision \in Nat /\ host'[n].revision \in Nat
          /\ h.born \in Nat /\ host[n].born \in Nat /\ host'[n].born \in Nat
      BY <3>1 DEF HostRows
    <3>3. /\ SafeRead(req[p], host[n]) /\ h.born <= host[n].born
          /\ h.born = host[n].born => h.revision <= host[n].revision
      BY <2>1 DEF SafeInv, SafeRead
    <3>4. CASE host'[n] = host[n]
      BY <2>1, <3>3, <3>4
    <3>5. CASE Newer(host'[n], host[n])
      <4>1. /\ h.born <= host'[n].born
            /\ h.born = host'[n].born => h.revision < host'[n].revision
        BY <3>2, <3>3, <3>5 DEF Newer
      <4>2. h.born = host'[n].born => h.revision <= host'[n].revision
                                      /\ h.revision # host'[n].revision
        BY <3>2, <4>1
      <4>3. QED BY <2>1, <3>3, <4>1, <4>2 DEF SafeRead
    <3>6. QED BY <3>1, <3>4, <3>5
  <2>2. CASE req[p].kind \notin ClaimKinds /\ req'[p] = req[p]
    BY <2>2 DEF SafeRead
  <2>3. QED BY <2>1, <2>2
<1>2. QED BY <1>1 DEF SafeInv

\* Requests that end, or that are not about a claim, have read nothing that the
\* invariant speaks of.
ReadsSafe == \A p \in Handlers : req'[p] = req[p] \/ SafeRead(req'[p], host'[req'[p].name])

LEMMA FinishSafe ==
  ASSUME TypeOK, NEW p \in Handlers, Finish(p)
  PROVE  ReadsSafe
<1>1. Idle.kind = "idle"
  BY DEF Idle, Request
<1>2. req' = [req EXCEPT ![p] = Idle] /\ req \in [Handlers -> Reqs]
  BY DEF Finish, Keep, TypeOK
<1>3. QED BY <1>1, <1>2 DEF ReadsSafe, SafeRead, ClaimKinds

LEMMA KeepSafe ==
  ASSUME TypeOK, NEW p \in Handlers, NEW kind, NEW step, NEW n, NEW h, NEW m,
         Keep(p, Request(kind, step, n, h, m)),
         kind \notin ClaimKinds \/ SafeRead(Request(kind, step, n, h, m), host'[n])
  PROVE  ReadsSafe
<1> DEFINE r == Request(kind, step, n, h, m)
<1>1. r.kind = kind /\ r.name = n
  BY DEF Request
<1>2. req' = [req EXCEPT ![p] = r] /\ req \in [Handlers -> Reqs]
  BY DEF Keep, TypeOK
<1> HIDE DEF r
<1>3. SafeRead(r, host'[r.name])
  BY <1>1 DEF r, SafeRead
<1>4. QED BY <1>2, <1>3 DEF ReadsSafe

\* Steps that leave the table of hosts alone.
LEMMA SafeRequestStep ==
  ASSUME SafeInv, FenceInv', ReadsSafe,
         UNCHANGED <<host, wipes, lastDeploy, crossed>>, booted \subseteq booted',
         lastAttempt <= lastAttempt'
  PROVE  SafeInv'
<1>1. /\ \A n \in Machines \ crossed' : SafeHostRow(host'[n], lastDeploy'[n], wipes', booted')
      /\ \A n \in Machines : Blank(host'[n])
  BY DEF SafeInv, SafeHostRow
<1>2. lastAttempt \in Nat /\ lastAttempt' \in Nat /\ wipes \subseteq Nat
  BY DEF SafeInv, FenceInv, TypeOK
<1>3. \A a \in wipes' : a <= lastAttempt'
  BY <1>2 DEF SafeInv
<1>4. QED BY <1>1, <1>3, SafeKept DEF ReadsSafe

\* Statements that change one host.
LEMMA SafeHostStep ==
  ASSUME SafeInv, FenceInv', ReadsSafe, NEW n \in Machines, NEW h,
         host' = [host EXCEPT ![n] = h], Newer(h, host[n]), Blank(h),
         n \in crossed' \/ SafeHostRow(h, lastDeploy[n], wipes, booted),
         crossed \subseteq crossed',
         UNCHANGED <<lastAttempt, booted, wipes, lastDeploy>>
  PROVE  SafeInv'
<1>1. host \in [Machines -> HostRows]
  BY DEF SafeInv, FenceInv, TypeOK
<1>2. \A k \in Machines : host'[k] = host[k] \/ Newer(host'[k], host[k])
  BY <1>1
<1>3. /\ \A k \in Machines \ crossed' : SafeHostRow(host'[k], lastDeploy'[k], wipes', booted')
      /\ \A k \in Machines : Blank(host'[k])
  BY <1>1 DEF SafeInv
<1>4. \A a \in wipes' : a <= lastAttempt'
  BY DEF SafeInv
<1>5. QED BY <1>2, <1>3, <1>4, SafeKept DEF ReadsSafe

\* What Crosses records.
LEMMA CrossesRecords ==
  ASSUME NEW n, NEW h, Crosses(n, h)
  PROVE  crossed \subseteq crossed' /\ (n \notin crossed' => n \notin crossed /\ h.born = host[n].born)
BY DEF Crosses

\* A guarded UPDATE keeps the enrollment and raises the revision.
LEMMA AdvancedRow ==
  ASSUME NEW h \in HostRows, NEW next, NEW k
  PROVE  /\ Advance(h, next, k).state = next /\ Advance(h, next, k).attempt = k
         /\ Advance(h, next, k).enrolled = h.enrolled /\ Advance(h, next, k).owner = h.owner
         /\ Advance(h, next, k).born = h.born
         /\ Newer(Advance(h, next, k), h)
<1> DEFINE g == Advance(h, next, k)
<1>1. /\ g.state = next /\ g.attempt = k /\ g.enrolled = h.enrolled /\ g.owner = h.owner
      /\ g.born = h.born /\ g.revision = h.revision + 1
  BY DEF Advance, HostRows
<1>2. h.revision \in Nat
  BY DEF HostRows
<1> HIDE DEF g
<1>3. Newer(g, h)
  BY <1>1, <1>2 DEF Newer
<1>4. QED BY <1>1, <1>3 DEF g

LEMMA UpdatedRow ==
  ASSUME NEW h \in HostRows, NEW o \in Owners \cup {None}, NEW q \in Pools
  PROVE  /\ Released(h).state = "Available" /\ Released(h).attempt = NoAttempt
         /\ Released(h).enrolled = h.enrolled /\ Released(h).owner = None
         /\ Newer(Released(h), h)
         /\ Released(h).born = h.born /\ Claimed(h, o).born = h.born
         /\ Repooled(h, q).born = h.born
         /\ Claimed(h, o).state = "Claimed" /\ Claimed(h, o).attempt = h.attempt
         /\ Claimed(h, o).enrolled = h.enrolled /\ Newer(Claimed(h, o), h)
         /\ Repooled(h, q).state = "Available" /\ Repooled(h, q).attempt = h.attempt
         /\ Repooled(h, q).enrolled = h.enrolled /\ Newer(Repooled(h, q), h)
<1> DEFINE f == [h EXCEPT !.owner = None]
           g == [h EXCEPT !.owner = o]
           c == [h EXCEPT !.pool = q]
<1>1. /\ f \in HostRows /\ f.enrolled = h.enrolled /\ f.born = h.born /\ f.revision = h.revision
      /\ f.owner = None
      /\ g \in HostRows /\ g.enrolled = h.enrolled /\ g.born = h.born /\ g.revision = h.revision
      /\ c \in HostRows /\ c.enrolled = h.enrolled /\ c.born = h.born /\ c.revision = h.revision
  BY DEF HostRows
<1>2. /\ Released(h) = Advance(f, "Available", NoAttempt)
      /\ Claimed(h, o) = Advance(g, "Claimed", h.attempt)
      /\ Repooled(h, q) = Advance(c, "Available", h.attempt)
  BY DEF Released, Claimed, Repooled
<1> HIDE DEF f, g, c
<1>3. /\ Newer(Released(h), f) /\ Newer(Claimed(h, o), g) /\ Newer(Repooled(h, q), c)
  BY <1>1, <1>2, AdvancedRow
<1>4. /\ Newer(Released(h), h) /\ Newer(Claimed(h, o), h) /\ Newer(Repooled(h, q), h)
  BY <1>1, <1>3 DEF Newer
<1>5. QED BY <1>1, <1>2, <1>4, AdvancedRow

\* CommitDeployment of a newly prepared attempt.
LEMMA SafeCommitStep ==
  ASSUME SafeInv, FenceInv', ReadsSafe, NEW n \in Machines, NEW h, NEW x \in MachineRows,
         CommitDeployment(n, h, PrepareReinstall(x, lastAttempt + 1)),
         UNCHANGED booted
  PROVE  SafeInv'
<1> DEFINE m == PrepareReinstall(x, lastAttempt + 1)
           k == lastAttempt + 1
           g == Advance(host[n], DeploymentState(m), k)
<1>1. /\ lastAttempt \in Nat /\ k \in Nat /\ k > lastAttempt /\ k # 0
      /\ host \in [Machines -> HostRows] /\ lastDeploy \in [Machines -> Nat]
      /\ wipes \subseteq Nat
  BY DEF SafeInv, FenceInv, TypeOK
<1>2. m.attempt = k
  BY DEF PrepareReinstall, MachineRows
<1>3. CASE UNCHANGED <<host, machine, lastAttempt, wipes, lastDeploy, crossed>>
  <2>1. lastAttempt <= lastAttempt'
    BY <1>1, <1>3
  <2>2. QED BY <1>3, <2>1, SafeRequestStep
<1>4. CASE CommitAllowed(n, h, m)
  <2>1. /\ host' = [host EXCEPT ![n] = g]
        /\ lastAttempt' = k
        /\ wipes' = wipes \cup {a \in {k} : m.cleanup}
        /\ lastDeploy' = [lastDeploy EXCEPT ![n] = k]
        /\ crossed \subseteq crossed'
    BY <1>2, <1>4, CrossesRecords DEF CommitDeployment
  <2>2. \A a \in wipes : a <= lastAttempt
    BY DEF SafeInv
  <2>3. k \notin wipes
    BY <1>1, <2>2
  <2>4. host[n] \in HostRows
    BY <1>1
  <2>5. /\ g.state = DeploymentState(m) /\ g.attempt = k /\ g.enrolled = host[n].enrolled
        /\ Newer(g, host[n])
    BY <2>4, AdvancedRow
  <2>6. host[n].enrolled
    BY <1>4 DEF CommitAllowed, SafeInv, Blank
  <2>7. SafeHostRow(g, k, wipes', booted)
    <3>1. CASE m.cleanup
      BY <1>1, <2>1, <2>5, <3>1 DEF SafeHostRow, DeploymentState
    <3>2. CASE ~m.cleanup
      BY <1>1, <2>1, <2>3, <2>5, <3>2 DEF SafeHostRow, DeploymentState
    <3>3. QED BY <3>1, <3>2
  <2> HIDE DEF g, k, m
  <2>8. \A j \in Machines : /\ host'[j] = host[j] \/ Newer(host'[j], host[j])
                            /\ Blank(host'[j])
    <3>1. Blank(g)
      BY <2>5, <2>6 DEF Blank
    <3>2. QED BY <1>1, <2>1, <2>4, <2>5, <3>1 DEF SafeInv
  <2>9. ASSUME NEW j \in Machines \ crossed'
        PROVE  SafeHostRow(host'[j], lastDeploy'[j], wipes', booted')
    <3>1. CASE j = n
      BY <1>1, <2>1, <2>7, <3>1
    <3>2. CASE j # n
      <4>1. host'[j] = host[j] /\ lastDeploy'[j] = lastDeploy[j]
        BY <1>1, <2>1, <3>2
      <4>2. SafeHostRow(host[j], lastDeploy[j], wipes, booted)
        BY <2>1 DEF SafeInv
      <4>3. host[j].attempt # k
        <5>1. host[j].attempt \in Nat /\ host[j].attempt <= lastAttempt
          BY <1>1 DEF SafeInv, FenceInv, HostInv, HostRows
        <5>2. QED BY <1>1, <5>1
      <4>4. wipes \subseteq wipes' /\ \A a \in wipes' : a \in wipes \/ a = k
        BY <2>1
      <4>5. QED BY <4>1, <4>2, <4>3, <4>4 DEF SafeHostRow
    <3>3. QED BY <3>1, <3>2
  <2>10. \A a \in wipes' : a <= lastAttempt'
    BY <1>1, <2>1, <2>2
  <2>11. QED BY <2>8, <2>9, <2>10, SafeKept DEF ReadsSafe
<1>5. QED BY <1>3, <1>4 DEF CommitDeployment

LEMMA SafeClaimHandler ==
  ASSUME SafeInv, NEW p \in Handlers, ClaimHandler(p)
  PROVE  SafeInv'
<1> DEFINE r == req[p]
           n == r.name
           d == lastDeploy[n]
<1>0. TypeOK /\ FenceInv /\ FenceInv'
  BY FenceClaimHandler DEF SafeInv, FenceInv
<1>1. /\ n \in Machines /\ r.host \in HostRows /\ r.row \in MachineRows
      /\ r.host.owner \in Owners \cup {None} /\ r.host.attempt \in Nat
      /\ lastAttempt \in Nat
  BY <1>0, Fields DEF TypeOK
<1>2. \A k \in Machines :
        /\ host[k] \in HostRows /\ host[k].revision \in Nat /\ host[k].born \in Nat
        /\ k \notin crossed => SafeHostRow(host[k], lastDeploy[k], wipes, booted)
        /\ Blank(host[k]) /\ HostInv(k)
  <2>1. \A k \in Machines : host[k] \in HostRows
    BY <1>0, Rows
  <2>2. QED BY <2>1 DEF HostRows, SafeInv, FenceInv
<1>3. SafeRead(r, host[n]) /\ Good(n, r.row)
  BY <1>0 DEF SafeInv, FenceInv
<1>4. ASSUME NEW o \in Owners, NEW q \in Pools, AcquireLookup(p, o, q) PROVE SafeInv'
  <2>1. ReadsSafe
    BY <1>0, <1>4, KeepSafe DEF AcquireLookup, Begin, ClaimKinds
  <2>2. QED BY <1>0, <1>1, <1>4, <2>1, SafeRequestStep DEF AcquireLookup, tables, world, history
<1>5. ASSUME NEW k \in Machines, AcquireUpdate(p, k) PROVE SafeInv'
  <2> DEFINE h == Claimed(host[k], r.host.owner)
  <2>1. ReadsSafe
    BY <1>0, <1>5, FinishSafe DEF AcquireUpdate
  <2>2. /\ h.attempt = host[k].attempt /\ h.state = "Claimed"
        /\ h.enrolled = host[k].enrolled /\ Newer(h, host[k])
    BY <1>1, <1>2, UpdatedRow, ConstantsAssumption
  <2>3. \/ host' = host
        \/ /\ host' = [host EXCEPT ![k] = h] /\ host[k].owner = None /\ host[k].enrolled
    BY <1>5 DEF AcquireUpdate, FirstAvailable, Owned
  <2> HIDE DEF h
  <2>4. CASE host' = host
    BY <1>0, <1>1, <1>5, <2>1, <2>4, SafeRequestStep DEF AcquireUpdate, world, history
  <2>5. CASE host' = [host EXCEPT ![k] = h] /\ host[k].owner = None /\ host[k].enrolled
    <3>1. Blank(h)
      BY <2>2, <2>5 DEF Blank
    <3>2. k \notin crossed => SafeHostRow(h, lastDeploy[k], wipes, booted)
      BY <1>2, <2>2, <2>5 DEF HostInv, SafeHostRow
    <3>3. QED BY <1>0, <1>5, <2>1, <2>2, <2>5, <3>1, <3>2, SafeHostStep
              DEF AcquireUpdate, world, history
  <2>6. QED BY <2>3, <2>4, <2>5
<1>6. CASE GetMachine(p)
  <2> DEFINE s == Request(r.kind, "row", n, r.host, machine[n])
  <2>1. /\ s.kind = r.kind /\ s.step = "row" /\ s.host = r.host /\ s.row = machine[n]
    BY DEF Request
  <2>2. host' = host
    BY <1>6 DEF GetMachine, tables
  <2>3. SafeRead(s, host[n])
    <3> HIDE DEF s
    <3>1. SUFFICES ASSUME s.kind \in ClaimKinds PROVE SafeRead(s, host[n])
      BY DEF SafeRead
    <3>2. r.host.born = host[n].born /\ r.host.revision = host[n].revision
            /\ r.host.attempt # NoAttempt
            => machine[n].attempt = r.host.attempt
      BY <1>1, <1>2, <1>3, <2>1, <3>1 DEF SafeRead, HostInv
    <3>3. QED BY <1>3, <2>1, <3>1, <3>2 DEF SafeRead
  <2>4. ReadsSafe
    BY <1>0, <1>6, <2>2, <2>3, KeepSafe DEF GetMachine
  <2>5. QED BY <1>0, <1>1, <1>6, <2>4, SafeRequestStep DEF GetMachine, tables, world, history
<1>7. CASE SettleClaim(p)
  <2>1. ReadsSafe
    BY <1>0, <1>7, FinishSafe DEF SettleClaim
  <2>2. r.kind \in ClaimKinds
    BY <1>7 DEF SettleClaim, Running, ClaimKinds
  <2>3. r.host.born = host[n].born /\ r.host.revision = host[n].revision => r.host = host[n]
    BY <1>3, <2>2 DEF SafeRead
  <2>4. Succeeded(r.row) /\ r.row.attempt # NoAttempt /\ r.row.attempt = host[n].attempt
          => host[n].attempt \in booted
    BY <1>3 DEF Succeeded, Good, GoodIn
  <2>5. PICK next \in {"Ready", "Failed"} :
          \/ host' = host
          \/ /\ host' = [host EXCEPT ![n] = Released(host[n])]
             /\ ReleaseAllowed(n, r.host) /\ Succeeded(r.row)
             /\ r.row.attempt # NoAttempt /\ r.row.attempt = r.host.attempt
          \/ /\ host' = [host EXCEPT ![n] = Advance(host[n], next, r.host.attempt)]
             /\ TransitionAllowed(n, r.host, next, r.host.attempt)
             /\ r.row.attempt # NoAttempt /\ r.row.attempt = r.host.attempt
             /\ next = "Ready" => Succeeded(r.row) /\ r.host.state = "Deploying"
    <3>1. CASE Succeeded(r.row)
      BY <1>7, <3>1 DEF SettleClaim
    <3>2. CASE ~Succeeded(r.row)
      BY <1>7, <3>2 DEF SettleClaim
    <3>3. QED BY <3>1, <3>2
  <2>6. CASE host' = host
    BY <1>0, <1>1, <1>7, <2>1, <2>6, SafeRequestStep DEF SettleClaim, world
  <2>60. ASSUME host' # host
         PROVE  /\ crossed \subseteq crossed'
                /\ n \notin crossed' => n \notin crossed /\ r.host.born = host[n].born
    BY <1>7, <2>60, CrossesRecords DEF SettleClaim
  <2>7. CASE /\ host' = [host EXCEPT ![n] = Released(host[n])]
             /\ ReleaseAllowed(n, r.host) /\ Succeeded(r.row)
             /\ r.row.attempt # NoAttempt /\ r.row.attempt = r.host.attempt
    <3> DEFINE h == Released(host[n])
    <3>1. /\ h.attempt = NoAttempt /\ h.state = "Available" /\ h.owner = None
          /\ h.enrolled = host[n].enrolled /\ Newer(h, host[n])
      BY <1>1, <1>2, UpdatedRow, ConstantsAssumption
    <3>2. host[n].owner # None /\ host[n].state = "Releasing"
          /\ r.host.revision = host[n].revision
      BY <2>7 DEF ReleaseAllowed
    <3> HIDE DEF h
    <3>3. host' = [host EXCEPT ![n] = h] /\ host' # host
      BY <1>0, <1>1, <2>7, <3>1, <3>2 DEF h, TypeOK
    <3>4. ASSUME n \notin crossed' PROVE SafeHostRow(h, d, wipes, booted)
      <4>1. n \notin crossed /\ r.host = host[n]
        BY <2>3, <2>60, <3>2, <3>3, <3>4
      <4>2. host[n].attempt \in wipes \cap booted /\ d = host[n].attempt
        BY <1>1, <1>2, <2>4, <2>7, <3>2, <4>1 DEF SafeHostRow
      <4>3. QED BY <3>1, <4>2 DEF SafeHostRow
    <3>5. Blank(h)
      BY <1>1, <1>2, <3>1, <3>2 DEF Blank
    <3>6. QED BY <1>0, <1>1, <1>7, <2>1, <2>60, <3>1, <3>3, <3>4, <3>5, SafeHostStep
              DEF SettleClaim, world
  <2>8. CASE /\ host' = [host EXCEPT ![n] = Advance(host[n], next, r.host.attempt)]
             /\ TransitionAllowed(n, r.host, next, r.host.attempt)
             /\ r.row.attempt # NoAttempt /\ r.row.attempt = r.host.attempt
             /\ next = "Ready" => Succeeded(r.row) /\ r.host.state = "Deploying"
    <3> DEFINE h == Advance(host[n], next, r.host.attempt)
    <3>1. /\ h.attempt = r.host.attempt /\ h.state = next
          /\ h.enrolled = host[n].enrolled /\ Newer(h, host[n])
      BY <1>1, <1>2, AdvancedRow
    <3>2. /\ host[n].owner # None /\ host[n].state = r.host.state
          /\ host[n].attempt = r.host.attempt /\ r.host.revision = host[n].revision
          /\ host[n].state # next
      BY <2>8 DEF TransitionAllowed, ValidTransition
    <3> HIDE DEF h
    <3>3. host' = [host EXCEPT ![n] = h] /\ host' # host
      BY <1>0, <1>1, <2>8, <3>1, <3>2 DEF h, TypeOK
    <3>4. ASSUME n \notin crossed' PROVE SafeHostRow(h, d, wipes, booted)
      <4>1. n \notin crossed
        BY <2>60, <3>3, <3>4
      <4>2. next = "Ready" => host[n].attempt \in booted \ wipes
        BY <1>1, <1>2, <2>4, <2>8, <3>2, <4>1 DEF SafeHostRow
      <4>3. host[n].attempt # NoAttempt /\ d = host[n].attempt
        BY <1>1, <1>2, <2>8, <3>2, <4>1 DEF SafeHostRow
      <4>4. QED BY <3>1, <3>2, <4>2, <4>3 DEF SafeHostRow
    <3>5. Blank(h)
      BY <1>1, <1>2, <3>1, <3>2 DEF Blank
    <3>6. QED BY <1>0, <1>1, <1>7, <2>1, <2>60, <3>1, <3>3, <3>4, <3>5, SafeHostStep
              DEF SettleClaim, world
  <2>9. QED BY <2>5, <2>6, <2>7, <2>8
<1>8. CASE DeployClaim(p)
  <2>1. SealFor(r.row, r.host.owner, FALSE) \in MachineRows
    BY <1>1, RowTransformations DEF DeployEvents
  <2>2. ReadsSafe
    BY <1>0, <1>8, FinishSafe DEF DeployClaim
  <2>3. QED BY <1>0, <1>1, <1>8, <2>1, <2>2, SafeCommitStep DEF DeployClaim, world
<1>9. CASE ReleaseClaimed(p)
  <2> DEFINE h == Advance(host[n], "Releasing", NoAttempt)
             s == Request("delete", "releasing", n, host'[n], UnprovisionedRow)
  <2>1. CASE ~TransitionAllowed(n, r.host, "Releasing", NoAttempt)
    <3>1. ReadsSafe
      BY <1>0, <1>9, <2>1, FinishSafe DEF ReleaseClaimed
    <3>2. QED BY <1>0, <1>1, <1>9, <2>1, <3>1, SafeRequestStep DEF ReleaseClaimed, world
  <2>2. CASE TransitionAllowed(n, r.host, "Releasing", NoAttempt)
    <3>1. /\ h.attempt = NoAttempt /\ h.state = "Releasing"
          /\ h.enrolled = host[n].enrolled /\ Newer(h, host[n])
          /\ h \in HostRows
      <4>1. h \in HostRows
        <5>1. "Releasing" \in States /\ NoAttempt \in Nat /\ host[n] \in HostRows
          BY <1>1, <1>2 DEF States, NoAttempt
        <5>2. QED BY <5>1, AdvanceTyped
      <4>2. QED BY <1>1, <1>2, <4>1, AdvancedRow
    <3>2. host[n].owner # None /\ host[n].attempt = NoAttempt /\ host[n].enrolled
      BY <1>1, <1>2, <2>2 DEF TransitionAllowed, ValidTransition, Blank
    <3>3. /\ host' = [host EXCEPT ![n] = h] /\ Keep(p, s)
          /\ UNCHANGED <<lastAttempt, booted, wipes, lastDeploy>>
          /\ crossed \subseteq crossed' /\ (n \notin crossed' => n \notin crossed)
      BY <1>9, <2>2, CrossesRecords DEF ReleaseClaimed, world
    <3> HIDE DEF h
    <3>4. host'[n] = h
      BY <1>0, <1>1, <3>3 DEF TypeOK
    <3>5. s.kind = "delete" /\ s.step = "releasing" /\ s.host = host'[n]
      BY DEF Request
    <3>6. SafeRead(s, host'[n])
      <4> HIDE DEF s
      <4>1. h.revision \in Nat /\ h.born \in Nat
        BY <3>1 DEF HostRows
      <4>2. QED BY <3>1, <3>4, <3>5, <4>1 DEF SafeRead
    <3>7. ReadsSafe
      BY <1>0, <3>3, <3>6, KeepSafe
    <3>8. n \in crossed' \/ SafeHostRow(h, d, wipes, booted)
      BY <1>1, <1>2, <3>1, <3>2, <3>3 DEF SafeHostRow
    <3>9. Blank(h)
      BY <3>1, <3>2 DEF Blank
    <3>10. QED BY <1>0, <1>1, <3>1, <3>3, <3>7, <3>8, <3>9, SafeHostStep
  <2>3. QED BY <2>1, <2>2
<1>10. CASE CompleteClaimedRelease(p)
  <2> DEFINE h == Released(host[n])
  <2>1. ReadsSafe
    BY <1>0, <1>10, FinishSafe DEF CompleteClaimedRelease
  <2>2. CASE ~ReleaseAllowed(n, r.host)
    BY <1>0, <1>1, <1>10, <2>1, <2>2, SafeRequestStep DEF CompleteClaimedRelease, world
  <2>3. CASE ReleaseAllowed(n, r.host)
    <3>1. /\ h.attempt = NoAttempt /\ h.state = "Available" /\ h.owner = None
          /\ h.enrolled = host[n].enrolled /\ Newer(h, host[n])
      BY <1>1, <1>2, UpdatedRow, ConstantsAssumption
    <3>2. r.host.revision = host[n].revision /\ r.host.attempt = NoAttempt
          /\ host[n].owner # None /\ r.kind \in ClaimKinds
      BY <1>3, <1>10, <2>3
      DEF CompleteClaimedRelease, Running, ReleaseAllowed, SafeRead, ClaimKinds
    <3>3. /\ host' = [host EXCEPT ![n] = h] /\ UNCHANGED <<lastAttempt, booted, wipes, lastDeploy>>
          /\ crossed \subseteq crossed'
          /\ n \notin crossed' => n \notin crossed /\ r.host.born = host[n].born
      BY <1>10, <2>3, CrossesRecords DEF CompleteClaimedRelease, world
    <3> HIDE DEF h
    <3>4. ASSUME n \notin crossed' PROVE SafeHostRow(h, d, wipes, booted)
      <4>1. host[n].attempt = NoAttempt
        BY <1>3, <3>2, <3>3, <3>4 DEF SafeRead
      <4>2. QED BY <1>1, <1>2, <3>1, <3>3, <3>4, <4>1 DEF SafeHostRow
    <3>5. Blank(h)
      BY <1>1, <1>2, <3>1, <3>2 DEF Blank
    <3>6. QED BY <1>0, <1>1, <2>1, <3>1, <3>3, <3>4, <3>5, SafeHostStep
  <2>4. QED BY <2>2, <2>3
<1>11. CASE CleanupClaim(p)
  <2> DEFINE x == SealFor(r.row, r.host.owner, TRUE)
  <2>1. x \in MachineRows
    BY <1>1, RowTransformations DEF DeployEvents
  <2>2. ReadsSafe
    BY <1>0, <1>11, FinishSafe DEF CleanupClaim
  <2>3. \/ CommitDeployment(n, r.host, PrepareReinstall(x, lastAttempt + 1))
        \/ UNCHANGED <<host, machine, lastAttempt, wipes, lastDeploy, crossed>>
    BY <1>11 DEF CleanupClaim, tables, history
  <2> HIDE DEF x
  <2>4. CASE CommitDeployment(n, r.host, PrepareReinstall(x, lastAttempt + 1))
    BY <1>0, <1>1, <1>11, <2>1, <2>2, <2>4, SafeCommitStep DEF CleanupClaim, world
  <2>5. CASE UNCHANGED <<host, machine, lastAttempt, wipes, lastDeploy, crossed>>
    BY <1>0, <1>1, <1>11, <2>2, <2>5, SafeRequestStep DEF CleanupClaim, world
  <2>6. QED BY <2>3, <2>4, <2>5
<1>12. CASE RetryClaim(p)
  <2>1. ReadsSafe
    BY <1>0, <1>12, FinishSafe DEF RetryClaim
  <2>2. \/ CommitDeployment(n, r.host, PrepareReinstall(r.row, lastAttempt + 1))
        \/ UNCHANGED <<host, machine, lastAttempt, wipes, lastDeploy, crossed>>
    BY <1>12 DEF RetryClaim, tables, history
  <2>3. CASE CommitDeployment(n, r.host, PrepareReinstall(r.row, lastAttempt + 1))
    BY <1>0, <1>1, <1>12, <2>1, <2>3, SafeCommitStep DEF RetryClaim, world
  <2>4. CASE UNCHANGED <<host, machine, lastAttempt, wipes, lastDeploy, crossed>>
    BY <1>0, <1>1, <1>12, <2>1, <2>4, SafeRequestStep DEF RetryClaim, world
  <2>5. QED BY <2>2, <2>3, <2>4
<1>13. ASSUME NEW kind \in ClaimKinds, NEW k \in Machines, FindOwner(p, kind, k)
       PROVE  SafeInv'
  <2> DEFINE s == Request(kind, "host", k, host[k], UnprovisionedRow)
  <2>1. s.kind = kind /\ s.step = "host" /\ s.host = host[k]
    BY DEF Request
  <2>2. host' = host /\ (kind = "deploy" => host[k].state = "Claimed")
    BY <1>13 DEF FindOwner, tables, Continues
  <2>3. SafeRead(s, host[k])
    <3> HIDE DEF s
    <3> QED BY <1>2, <2>1, <2>2 DEF SafeRead
  <2>4. ReadsSafe
    BY <1>0, <1>13, <2>2, <2>3, KeepSafe DEF FindOwner, Begin
  <2>5. QED BY <1>0, <1>1, <1>13, <2>4, SafeRequestStep DEF FindOwner, tables, world, history
<1>14. QED
  BY <1>4, <1>5, <1>6, <1>7, <1>8, <1>9, <1>10, <1>11, <1>12, <1>13
  DEF ClaimHandler, ClaimKinds

\* No other step changes the deployments committed on a host.
LEMMA SafeOtherSteps ==
  ASSUME SafeInv,
         \/ \E p \in Handlers : OrdinaryHandler(p) \/ Callback(p)
         \/ \E n \in Machines : Unregister(n) \/ \E q \in Pools : UpdatePool(n, q)
         \/ Reconciler
  PROVE  SafeInv'
<1>0. TypeOK /\ FenceInv /\ FenceInv'
  BY FenceOrdinaryHandler, FenceCallback, FenceOtherSteps DEF SafeInv, FenceInv
<1>1. lastAttempt \in Nat /\ lastAttempt <= lastAttempt
  BY <1>0 DEF TypeOK
<1>2. \A k \in Machines :
        /\ host[k] \in HostRows /\ host[k].revision \in Nat /\ host[k].born \in Nat
        /\ k \notin crossed => SafeHostRow(host[k], lastDeploy[k], wipes, booted)
        /\ Blank(host[k]) /\ HostInv(k)
  <2>1. \A k \in Machines : host[k] \in HostRows
    BY <1>0, Rows
  <2>2. QED BY <2>1 DEF HostRows, SafeInv, FenceInv
<1>3. ASSUME NEW p \in Handlers, OrdinaryHandler(p) PROVE SafeInv'
  <2>1. CASE SettingsRead(p)
    <3>1. ReadsSafe
      BY <1>0, <2>1, KeepSafe DEF SettingsRead, ClaimKinds
    <3>2. QED BY <1>0, <1>1, <2>1, <3>1, SafeRequestStep DEF SettingsRead, tables, world, history
  <2>2. CASE RedeployRead(p)
    <3>1. ReadsSafe
      BY <1>0, <2>2, KeepSafe DEF RedeployRead, ClaimKinds
    <3>2. lastAttempt <= lastAttempt'
      BY <1>1, <2>2 DEF RedeployRead
    <3>3. QED BY <1>0, <2>2, <3>1, <3>2, SafeRequestStep DEF RedeployRead, tables, world, history
  <2>3. CASE WriteRow(p)
    <3>1. ReadsSafe
      BY <1>0, <2>3, FinishSafe DEF WriteRow
    <3>2. QED BY <1>0, <1>1, <2>3, <3>1, SafeRequestStep DEF WriteRow, world, history
  <2>4. CASE Abort(p)
    <3>1. ReadsSafe
      BY <1>0, <2>4, FinishSafe DEF Abort
    <3>2. QED BY <1>0, <1>1, <2>4, <3>1, SafeRequestStep DEF Abort, tables, world, history
  <2>5. ASSUME NEW q \in Pools, RegisterInsert(p, q) PROVE SafeInv'
    <3> DEFINE n == req[p].name
               h == Enrolled(q, host[n].born)
    <3>1. ReadsSafe /\ n \in Machines
      BY <1>0, <2>5, FinishSafe, Fields DEF RegisterInsert
    <3>2. CASE host[n].enrolled
      BY <1>0, <1>1, <2>5, <3>1, <3>2, SafeRequestStep DEF RegisterInsert, world, history
    <3>3. CASE ~host[n].enrolled
      <4>1. /\ h.enrolled /\ h.state = "Available" /\ h.attempt = NoAttempt /\ h.revision = 1
            /\ h.born = host[n].born
        BY <1>2, <3>1, Enrollments
      <4>2. /\ host' = [host EXCEPT ![n] = h]
            /\ UNCHANGED <<lastAttempt, booted, wipes, lastDeploy, crossed>>
        BY <2>5, <3>3 DEF RegisterInsert, world, history
      <4> HIDE DEF h
      <4>3. host[n].revision = 0 /\ host[n].attempt = NoAttempt
        BY <1>2, <3>1, <3>3 DEF Blank, HostInv
      <4>4. n \in crossed' \/ SafeHostRow(h, lastDeploy[n], wipes, booted)
        BY <1>2, <3>1, <4>1, <4>2, <4>3 DEF SafeHostRow
      <4>5. Newer(h, host[n]) /\ Blank(h)
        BY <1>2, <4>1, <4>3 DEF Newer, Blank
      <4>6. QED BY <1>0, <3>1, <4>2, <4>4, <4>5, SafeHostStep
    <3>4. QED BY <3>2, <3>3
  <2>6. ASSUME NEW n \in Machines, RegisterCheck(p, n) PROVE SafeInv'
    <3>1. ReadsSafe
      BY <1>0, <2>6, KeepSafe DEF RegisterCheck, Begin, ClaimKinds
    <3>2. QED BY <1>0, <1>1, <2>6, <3>1, SafeRequestStep DEF RegisterCheck, tables, world, history
  <2>7. ASSUME NEW n \in Machines, NEW kind \in {"redeploy", "settings"},
               ProtectAllocated(p, kind, n)
        PROVE  SafeInv'
    <3>1. kind \notin ClaimKinds
      BY DEF ClaimKinds
    <3>2. ReadsSafe
      BY <1>0, <2>7, <3>1, KeepSafe DEF ProtectAllocated, Begin
    <3>3. QED BY <1>0, <1>1, <2>7, <3>2, SafeRequestStep DEF ProtectAllocated, tables, world, history
  <2>8. QED BY <1>3, <2>1, <2>2, <2>3, <2>4, <2>5, <2>6, <2>7 DEF OrdinaryHandler
<1>4. ASSUME NEW p \in Handlers, Callback(p) PROVE SafeInv'
  <2>1. CASE InventoryReread(p)
    <3>1. ReadsSafe
      BY <1>0, <2>1, KeepSafe DEF InventoryReread, ClaimKinds
    <3>2. QED BY <1>0, <1>1, <2>1, <3>1, SafeRequestStep DEF InventoryReread, tables, world, history
  <2>2. ASSUME NEW n \in Machines, NEW event \in DeployEvents, DeployEvent(p, event, n)
        PROVE  SafeInv'
    <3>1. event \notin ClaimKinds
      BY DEF ClaimKinds, DeployEvents
    <3>2. ReadsSafe
      BY <1>0, <2>2, <3>1, KeepSafe DEF DeployEvent, BeginWrite, Begin
    <3>3. QED BY <1>0, <1>1, <2>2, <3>2, SafeRequestStep DEF DeployEvent, BeginWrite, tables, history
  <2>3. ASSUME NEW n \in Machines, InstallComplete(p, n) PROVE SafeInv'
    <3>1. ReadsSafe
      BY <1>0, <2>3, KeepSafe DEF InstallComplete, BeginWrite, Begin, ClaimKinds
    <3>2. QED BY <1>0, <1>1, <2>3, <3>1, SafeRequestStep DEF InstallComplete, BeginWrite, tables, history
  <2>4. ASSUME NEW n \in Machines, Marker(p, n) PROVE SafeInv'
    <3>1. ReadsSafe
      BY <1>0, <2>4, KeepSafe DEF Marker, BeginWrite, Begin, ClaimKinds
    <3>2. QED BY <1>0, <1>1, <2>4, <3>1, SafeRequestStep DEF Marker, BeginWrite, tables, world, history
  <2>5. ASSUME NEW n \in Machines, InventoryRead(p, n) PROVE SafeInv'
    <3>1. ReadsSafe
      BY <1>0, <2>5, KeepSafe DEF InventoryRead, Begin, ClaimKinds
    <3>2. QED BY <1>0, <1>1, <2>5, <3>1, SafeRequestStep DEF InventoryRead, tables, world, history
  <2>6. QED BY <1>4, <2>1, <2>2, <2>3, <2>4, <2>5 DEF Callback
<1>5. ASSUME NEW n \in Machines, Unregister(n) PROVE SafeInv'
  <2> DEFINE h == Unregistered(host[n])
  <2>1. ReadsSafe
    BY <1>5 DEF Unregister, ReadsSafe
  <2>2. /\ h.state = "Available" /\ h.attempt = NoAttempt /\ h.born = host[n].born + 1
        /\ ~h.enrolled /\ h.owner = None /\ h.revision = 0
    BY <1>2, Enrollments, ConstantsAssumption
  <2>3. /\ host' = [host EXCEPT ![n] = h] /\ host[n].owner = None
        /\ UNCHANGED <<lastAttempt, booted, wipes, lastDeploy, crossed>>
    BY <1>5 DEF Unregister, world, history, Owned
  <2> HIDE DEF h
  <2>4. n \in crossed' \/ SafeHostRow(h, lastDeploy[n], wipes, booted)
    BY <1>2, <2>2, <2>3 DEF SafeHostRow, HostInv
  <2>5. Newer(h, host[n]) /\ Blank(h)
    BY <1>2, <2>2 DEF Newer, Blank
  <2>6. QED BY <1>0, <2>1, <2>3, <2>4, <2>5, SafeHostStep
<1>6. ASSUME NEW n \in Machines, NEW q \in Pools, UpdatePool(n, q) PROVE SafeInv'
  <2> DEFINE h == Repooled(host[n], q)
  <2>1. ReadsSafe
    BY <1>6 DEF UpdatePool, ReadsSafe
  <2>2. /\ h.state = "Available" /\ h.attempt = host[n].attempt
        /\ h.enrolled = host[n].enrolled /\ Newer(h, host[n])
    BY <1>2, UpdatedRow
  <2>3. /\ host' = [host EXCEPT ![n] = h] /\ host[n].enrolled
        /\ UNCHANGED <<lastAttempt, booted, wipes, lastDeploy, crossed>>
    BY <1>6 DEF UpdatePool, world, history
  <2> HIDE DEF h
  <2>4. n \in crossed' \/ SafeHostRow(h, lastDeploy[n], wipes, booted)
    BY <1>2, <2>2, <2>3 DEF SafeHostRow
  <2>5. Blank(h)
    BY <2>2, <2>3 DEF Blank
  <2>6. QED BY <1>0, <2>1, <2>2, <2>3, <2>4, <2>5, SafeHostStep
<1>7. CASE Reconciler
  <2>1. UNCHANGED <<host, req, lastAttempt, booted, wipes, lastDeploy, crossed>>
    BY <1>7 DEF Reconciler, SyncList, SyncStop, SyncTimeout, SyncInTime, SyncEnds,
                tables, world, history
  <2>2. ReadsSafe
    BY <2>1 DEF ReadsSafe
  <2>3. QED BY <1>0, <1>1, <2>1, <2>2, SafeRequestStep
<1>8. QED BY <1>3, <1>4, <1>5, <1>6, <1>7

LEMMA SafeStep ==
  SafeInv /\ [Next]_vars => SafeInv'
<1> SUFFICES ASSUME SafeInv, [Next]_vars PROVE SafeInv'
  OBVIOUS
<1>1. CASE UNCHANGED vars
  <2>1. FenceInv' /\ ReadsSafe
    BY <1>1, FenceStep DEF SafeInv, ReadsSafe, vars
  <2>2. lastAttempt <= lastAttempt'
    BY <1>1 DEF SafeInv, FenceInv, TypeOK, vars
  <2>3. QED BY <1>1, <2>1, <2>2, SafeRequestStep DEF vars
<1>2. CASE Next
  BY <1>2, SafeClaimHandler, SafeOtherSteps DEF Next
<1>3. QED BY <1>1, <1>2

LEMMA SafeInit == Init => SafeInv
<1> SUFFICES ASSUME Init PROVE SafeInv
  OBVIOUS
<1>1. \A n \in Machines : SafeHostRow(host[n], lastDeploy[n], wipes, booted) /\ Blank(host[n])
  BY DEF Init, Unenrolled, SafeHostRow, Blank
<1>2. \A p \in Handlers : req[p].kind = "idle"
  BY DEF Init, Idle, Request
<1>3. \A p \in Handlers : SafeRead(req[p], host[req[p].name])
  BY <1>2 DEF SafeRead, ClaimKinds
<1>4. QED BY <1>1, <1>3, FenceInit DEF SafeInv, Init

----------------------------------------------------------------------------
(* Theorems *)

\* A host that is free or not yet deployed holds nothing of an earlier owner,
\* unless a request crossed an enrollment of it: CompleteRelease is reached only
\* when the cleanup committed last has come up, whatever GET, DELETE and retry
\* requests, enrollments, callbacks and reconciler passes interleave.
THEOREM CleanHandover == Spec => []NoPriorWorkload
<1>1. SafeInv => NoPriorWorkload
  BY DEF SafeInv, SafeHostRow, NoPriorWorkload
<1>2. SafeInv /\ [Next]_vars => SafeInv'
  BY SafeStep
<1>3. QED BY <1>1, <1>2, SafeInit, PTL DEF Spec

\* With the same exception a claim is Ready only when the system of its own
\* workload attempt came up.
THEOREM ReadyClaims == Spec => []ReadyIsReal
<1>1. SafeInv => ReadyIsReal
  BY DEF SafeInv, SafeHostRow, ReadyIsReal
<1>2. SafeInv /\ [Next]_vars => SafeInv'
  BY SafeStep
<1>3. QED BY <1>1, <1>2, SafeInit, PTL DEF Spec

----------------------------------------------------------------------------
(* Action properties *)

\* What a handler that commits a deployment has read is what the table holds,
\* unless the host was enrolled anew since.
LEMMA CommitReadsCurrent ==
  ASSUME SafeInv, NEW p \in Handlers, NEW m \in MachineRows, Commits(p, m)
  PROVE  /\ req[p].name \in Machines
         /\ host[req[p].name].owner # None
         /\ req[p].name \notin crossed' =>
              /\ req[p].host = host[req[p].name]
              /\ host[req[p].name].attempt # NoAttempt =>
                   host[req[p].name].attempt \in restored
<1> DEFINE r == req[p]
           n == r.name
<1>1. n \in Machines /\ Good(n, r.row) /\ SafeRead(r, host[n])
      /\ (n \notin crossed => SafeHostRow(host[n], lastDeploy[n], wipes, booted))
  BY Fields DEF SafeInv, FenceInv
<1>2. /\ r.kind \in ClaimKinds /\ r.step = "row"
      /\ r.kind = "deploy" \/ r.row.applied
      /\ host[n].revision = r.host.revision /\ host[n].owner = r.host.owner
      /\ r.host.owner # None
      /\ Crosses(n, r.host)
  BY DEF Commits, CommitAllowed, CommitDeployment, ClaimKinds
<1>3. n \notin crossed' => n \notin crossed /\ r.host = host[n]
  BY <1>1, <1>2, CrossesRecords DEF SafeRead
<1>4. CASE n \notin crossed' /\ host[n].attempt # NoAttempt
  <2>1. r.row.attempt = host[n].attempt
    BY <1>1, <1>2, <1>3, <1>4 DEF SafeRead
  <2>2. r.kind # "deploy"
    BY <1>1, <1>2, <1>3, <1>4 DEF SafeRead, SafeHostRow
  <2>3. r.row.token = host[n].attempt /\ r.row.token \in restored
    BY <1>1, <1>2, <1>4, <2>1, <2>2 DEF Good, GoodIn
  <2>4. QED BY <1>1, <1>2, <1>3, <2>3
<1>5. QED BY <1>1, <1>2, <1>3, <1>4

\* The attempt of a claim is replaced only when its installer has put the host
\* identity back on disk.  DELETE and retry look for the evidence in a row they
\* read earlier; the revision they compare makes sure that it is still the
\* evidence of the attempt they replace, unless the host was enrolled anew.
THEOREM AttemptsReplacedWithEvidence == Spec => IdentityOnDisk
<1> DEFINE Kept ==
      \A n \in Machines \ crossed' :
        host[n].attempt # NoAttempt /\ host'[n].attempt \notin {NoAttempt, host[n].attempt}
          => host[n].attempt \in restored
<1>1. SafeInv /\ [Next]_vars => Kept
  <2> SUFFICES ASSUME SafeInv, [Next]_vars PROVE Kept
    OBVIOUS
  <2>1. TypeOK /\ host \in [Machines -> HostRows]
    BY DEF SafeInv, FenceInv, TypeOK
  <2>2. CASE host' = host
    BY <2>2
  <2>3. ASSUME NEW k \in Machines, NEW h \in HostRows, HostUpdated(k, h) PROVE Kept
    BY <2>1, <2>3 DEF HostUpdated
  <2>4. ASSUME NEW p \in Handlers, NEW m \in MachineRows, Commits(p, m) PROVE Kept
    <3>1. \A n \in Machines \ {req[p].name} : host'[n] = host[n]
      BY <2>1, <2>4 DEF Commits, CommitDeployment
    <3>2. QED BY <2>4, <3>1, CommitReadsCurrent
  <2>5. QED BY <2>1, <2>2, <2>3, <2>4, StepIsOneKind DEF StepKinds, Quiet, Boots
<1>2. SafeInv /\ [Next]_vars => [Kept]_vars
  BY <1>1
<1>3. SafeInv /\ [Next]_vars => SafeInv'
  BY SafeStep
<1>4. QED BY <1>2, <1>3, SafeInit, PTL DEF Spec, IdentityOnDisk, Kept

\* A request moves only by its own steps.
LEMMA OwnSteps ==
  ASSUME TypeOK, Next, NEW p \in Handlers, req'[p] # req[p]
  PROVE  ClaimHandler(p) \/ OrdinaryHandler(p) \/ Callback(p)
<1>1. req \in [Handlers -> Reqs]
  BY DEF TypeOK
<1>2. req' # req
  OBVIOUS
<1>3. ASSUME NEW q \in Handlers, ClaimHandler(q) \/ OrdinaryHandler(q) \/ Callback(q)
      PROVE  \E r : req' = [req EXCEPT ![q] = r]
  <2>1. CASE ClaimHandler(q)
    BY <2>1 DEF ClaimHandler, AcquireLookup, AcquireUpdate, GetMachine, SettleClaim,
      DeployClaim, ReleaseClaimed, CompleteClaimedRelease, CleanupClaim, RetryClaim,
      FindOwner, Begin, Keep, Finish
  <2>2. CASE OrdinaryHandler(q)
    BY <2>2 DEF OrdinaryHandler, SettingsRead, RedeployRead, WriteRow, Abort, RegisterInsert,
      RegisterCheck, ProtectAllocated, Begin, Keep, Finish
  <2>3. CASE Callback(q)
    BY <2>3 DEF Callback, InventoryReread, DeployEvent, InstallComplete, Marker,
      InventoryRead, BeginWrite, Begin, Keep
  <2>4. QED BY <1>3, <2>1, <2>2, <2>3
<1>4. CASE \E q \in Handlers : ClaimHandler(q) \/ OrdinaryHandler(q) \/ Callback(q)
  <2>1. PICK q \in Handlers : ClaimHandler(q) \/ OrdinaryHandler(q) \/ Callback(q)
    BY <1>4
  <2>2. PICK r : req' = [req EXCEPT ![q] = r]
    BY <1>3, <2>1
  <2>3. q = p
    BY <1>1, <2>2
  <2>4. QED BY <2>1, <2>3
<1>5. CASE \/ \E n \in Machines : Unregister(n) \/ \E q \in Pools : UpdatePool(n, q)
           \/ Reconciler
  BY <1>2, <1>5 DEF Unregister, UpdatePool, Reconciler, SyncList, SyncStop, SyncTimeout,
                    SyncInTime, SyncEnds
<1>6. QED BY <1>4, <1>5 DEF Next

\* A retry replaces only the attempt the administrator named, however late its
\* last statement runs, as long as the host is not enrolled anew meanwhile.
THEOREM RetriesReplaceNamedAttempt == Spec => RetryNamesCurrentAttempt
<1> DEFINE Named(p) ==
      Running(p, "retry", "row") /\ req'[p] = Idle /\ host'[req[p].name] # host[req[p].name]
        => host[req[p].name].attempt = req[p].host.attempt
           \/ host[req[p].name].born # req[p].host.born
<1>1. ASSUME SafeInv, [Next]_vars, NEW p \in Handlers PROVE Named(p)
  <2> DEFINE r == req[p]
             n == r.name
  <2> SUFFICES ASSUME Running(p, "retry", "row"), req'[p] = Idle, host'[n] # host[n]
               PROVE  host[n].attempt = r.host.attempt \/ host[n].born # r.host.born
    OBVIOUS
  <2>0. TypeOK /\ r.row \in MachineRows /\ n \in Machines /\ lastAttempt + 1 \in Nat
    BY <1>1, Fields DEF SafeInv, FenceInv, TypeOK
  <2>1. r.kind = "retry" /\ r.step = "row" /\ Idle.kind = "idle"
    BY DEF Running, Idle, Request
  <2>2. r # Idle /\ Next
    BY <1>1, <2>1 DEF vars
  <2>3. ClaimHandler(p) \/ OrdinaryHandler(p) \/ Callback(p)
    BY <2>0, <2>2, OwnSteps
  <2>4. RetryClaim(p)
    <3>1. CASE ClaimHandler(p)
      BY <2>1, <2>2, <3>1 DEF ClaimHandler, AcquireLookup, AcquireUpdate, GetMachine,
        SettleClaim, DeployClaim, ReleaseClaimed, CompleteClaimedRelease, CleanupClaim,
        FindOwner, Begin, Running
    <3>2. CASE OrdinaryHandler(p)
      BY <2>1, <2>2, <3>2 DEF OrdinaryHandler, SettingsRead, RedeployRead, WriteRow, Abort,
        RegisterInsert, RegisterCheck, ProtectAllocated, Begin, Running, tables
    <3>3. CASE Callback(p)
      BY <2>1, <2>2, <3>3 DEF Callback, InventoryReread, DeployEvent, InstallComplete,
        Marker, InventoryRead, BeginWrite, Begin, Running
    <3>4. QED BY <2>3, <3>1, <3>2, <3>3
  <2>5. CommitAllowed(n, r.host, PrepareReinstall(r.row, lastAttempt + 1))
    BY <2>4 DEF RetryClaim, CommitDeployment, tables
  <2>6. r.host.revision = host[n].revision
    BY <2>5 DEF CommitAllowed
  <2>7. SafeRead(r, host[n])
    BY <1>1 DEF SafeInv
  <2>8. QED BY <2>1, <2>6, <2>7 DEF SafeRead, ClaimKinds
<1>2. SafeInv /\ [Next]_vars => [\A p \in Handlers : Named(p)]_vars
  BY <1>1
<1>3. SafeInv /\ [Next]_vars => SafeInv'
  BY SafeStep
<1>4. QED BY <1>2, <1>3, SafeInit, PTL DEF Spec, RetryNamesCurrentAttempt, Named

----------------------------------------------------------------------------
(* The refinement *)

\* No attempt is the last deployment of two hosts, and every attempt the history
\* mentions was drawn.
PoolInv ==
  /\ SafeInv
  /\ crossed = {} /\ \A n \in Machines : host[n].born = 0
  /\ \A a \in booted : a <= lastAttempt
  /\ \A n \in Machines : lastDeploy[n] <= lastAttempt
  /\ \A n, k \in Machines : lastDeploy[n] # NoAttempt /\ lastDeploy[n] = lastDeploy[k] => n = k

\* While nobody unregisters a host, every request has read the first and only
\* enrollment.
LEMMA NoCrossing ==
  ASSUME SafeInv, crossed = {}, \A n \in Machines : host[n].born = 0, NEW p \in Handlers,
         req[p].kind \in ClaimKinds, Crosses(req[p].name, req[p].host)
  PROVE  crossed' = {}
<1>1. /\ req[p].name \in Machines /\ req[p].host \in HostRows
      /\ SafeRead(req[p], host[req[p].name])
  BY Fields DEF SafeInv, FenceInv
<1>2. req[p].host.born \in Nat /\ req[p].host.born <= 0 /\ host[req[p].name].born = 0
  BY <1>1 DEF HostRows, SafeRead
<1>3. req[p].host.born = host[req[p].name].born
  BY <1>2
<1>4. QED BY <1>3 DEF Crosses

LEMMA OneEnrollment ==
  ASSUME "unregister" \notin Requests, SafeInv, crossed = {},
         \A n \in Machines : host[n].born = 0, [Next]_vars
  PROVE  crossed' = {} /\ \A n \in Machines : host'[n].born = 0
<1> DEFINE Goal == crossed' = {} /\ \A n \in Machines : host'[n].born = 0
<1>0. TypeOK /\ host \in [Machines -> HostRows] /\ \A n \in Machines : host[n] \in HostRows
  BY DEF SafeInv, FenceInv, TypeOK
<1>1. \A p \in Handlers : /\ req[p].name \in Machines /\ req[p].host \in HostRows
                          /\ req[p].host.owner \in Owners \cup {None}
  BY <1>0, Fields
<1>2. ASSUME UNCHANGED <<host, crossed>> PROVE Goal
  BY <1>2
<1>3. ASSUME NEW n \in Machines, NEW h, host' = [host EXCEPT ![n] = h], h.born = host[n].born,
             crossed' = {}
      PROVE  Goal
  BY <1>0, <1>3
<1>4. ASSUME NEW p \in Handlers, NEW m, req[p].kind \in ClaimKinds,
             CommitDeployment(req[p].name, req[p].host, m)
      PROVE  Goal
  <2> DEFINE n == req[p].name
             h == Advance(host[n], DeploymentState(m), m.attempt)
  <2>1. CASE UNCHANGED <<host, crossed>>
    BY <1>2, <2>1
  <2>2. CASE host' = [host EXCEPT ![n] = h] /\ Crosses(n, req[p].host)
    <3>1. h.born = host[n].born /\ n \in Machines
      BY <1>0, <1>1, AdvancedRow
    <3>2. crossed' = {}
      BY <1>4, <2>2, NoCrossing
    <3> HIDE DEF h
    <3>3. QED BY <1>3, <2>2, <3>1, <3>2
  <2>3. QED BY <1>4, <2>1, <2>2 DEF CommitDeployment
<1>5. ASSUME NEW p \in Handlers, ClaimHandler(p) PROVE Goal
  <2> DEFINE r == req[p]
             n == r.name
  <2>0. n \in Machines /\ host[n] \in HostRows /\ r.host.owner \in Owners \cup {None}
    BY <1>0, <1>1
  <2>1. CASE \/ \E o \in Owners, q \in Pools : AcquireLookup(p, o, q)
             \/ GetMachine(p)
             \/ \E kind \in ClaimKinds, k \in Machines : FindOwner(p, kind, k)
    BY <1>2, <2>1 DEF AcquireLookup, GetMachine, FindOwner, tables, history
  <2>2. ASSUME NEW k \in Machines, AcquireUpdate(p, k) PROVE Goal
    <3> DEFINE h == Claimed(host[k], r.host.owner)
    <3>1. h.born = host[k].born
      BY <1>0, <2>0, UpdatedRow, ConstantsAssumption
    <3>2. (host' = host \/ host' = [host EXCEPT ![k] = h]) /\ crossed' = crossed
      BY <2>2 DEF AcquireUpdate, history
    <3> HIDE DEF h
    <3>3. QED BY <1>2, <1>3, <3>1, <3>2
  <2>3. ASSUME NEW h, host' = [host EXCEPT ![n] = h], h.born = host[n].born,
               crossed' = crossed \/ Crosses(n, r.host), r.kind \in ClaimKinds
        PROVE  Goal
    <3>1. crossed' = {}
      BY <2>3, NoCrossing
    <3>2. QED BY <1>3, <2>0, <2>3, <3>1
  <2>4. /\ Released(host[n]).born = host[n].born
        /\ \A next, k : Advance(host[n], next, k).born = host[n].born
    BY <2>0, UpdatedRow, AdvancedRow, ConstantsAssumption
  <2>5. CASE SettleClaim(p)
    <3>1. r.kind \in ClaimKinds /\ (crossed' = crossed \/ Crosses(n, r.host))
      BY <2>5 DEF SettleClaim, Running, ClaimKinds
    <3>2. \/ host' = host
          \/ host' = [host EXCEPT ![n] = Released(host[n])]
          \/ \E next : host' = [host EXCEPT ![n] = Advance(host[n], next, r.host.attempt)]
      BY <2>5 DEF SettleClaim
    <3>3. CASE host' = host
      BY <1>2, <2>5, <3>3 DEF SettleClaim
    <3>4. CASE host' # host
      BY <2>3, <2>4, <3>1, <3>2, <3>4
    <3>5. QED BY <3>3, <3>4
  <2>6. CASE ReleaseClaimed(p)
    <3>1. r.kind \in ClaimKinds
      BY <2>6 DEF ReleaseClaimed, Running, ClaimKinds
    <3>2. CASE TransitionAllowed(n, r.host, "Releasing", NoAttempt)
      BY <2>3, <2>4, <2>6, <3>1, <3>2 DEF ReleaseClaimed
    <3>3. CASE ~TransitionAllowed(n, r.host, "Releasing", NoAttempt)
      BY <1>2, <2>6, <3>3 DEF ReleaseClaimed
    <3>4. QED BY <3>2, <3>3
  <2>7. CASE CompleteClaimedRelease(p)
    <3>1. r.kind \in ClaimKinds
      BY <2>7 DEF CompleteClaimedRelease, Running, ClaimKinds
    <3>2. CASE ReleaseAllowed(n, r.host)
      BY <2>3, <2>4, <2>7, <3>1, <3>2 DEF CompleteClaimedRelease
    <3>3. CASE ~ReleaseAllowed(n, r.host)
      BY <1>2, <2>7, <3>3 DEF CompleteClaimedRelease
    <3>4. QED BY <3>2, <3>3
  <2>8. CASE DeployClaim(p)
    <3>1. r.kind \in ClaimKinds
      BY <2>8 DEF DeployClaim, Running, ClaimKinds
    <3>2. QED BY <1>4, <2>8, <3>1 DEF DeployClaim
  <2>9. CASE CleanupClaim(p)
    <3>1. r.kind \in ClaimKinds
      BY <2>9 DEF CleanupClaim, Running, ClaimKinds
    <3>2. CASE CleanupWarranted(r.host, r.row)
      BY <1>4, <2>9, <3>1, <3>2 DEF CleanupClaim
    <3>3. CASE ~CleanupWarranted(r.host, r.row)
      BY <1>2, <2>9, <3>3 DEF CleanupClaim, tables, history
    <3>4. QED BY <3>2, <3>3
  <2>10. CASE RetryClaim(p)
    <3>1. r.kind \in ClaimKinds
      BY <2>10 DEF RetryClaim, Running, ClaimKinds
    <3>2. CASE RetryWarranted(r.host, r.row)
      BY <1>4, <2>10, <3>1, <3>2 DEF RetryClaim
    <3>3. CASE ~RetryWarranted(r.host, r.row)
      BY <1>2, <2>10, <3>3 DEF RetryClaim, tables, history
    <3>4. QED BY <3>2, <3>3
  <2>11. QED BY <1>5, <2>1, <2>2, <2>5, <2>6, <2>7, <2>8, <2>9, <2>10 DEF ClaimHandler, ClaimKinds
<1>6. ASSUME NEW p \in Handlers, OrdinaryHandler(p) PROVE Goal
  <2>1. ASSUME NEW q \in Pools, RegisterInsert(p, q) PROVE Goal
    <3> DEFINE n == req[p].name
               h == Enrolled(q, host[n].born)
    <3>1. h.born = host[n].born /\ n \in Machines
      BY <1>0, <1>1, Enrollments
    <3>2. (host' = host \/ host' = [host EXCEPT ![n] = h]) /\ crossed' = crossed
      BY <2>1 DEF RegisterInsert, history
    <3> HIDE DEF h
    <3>3. QED BY <1>2, <1>3, <3>1, <3>2
  <2>2. CASE \/ SettingsRead(p) \/ RedeployRead(p) \/ WriteRow(p) \/ Abort(p)
             \/ \E n \in Machines : \/ RegisterCheck(p, n)
                                    \/ \E kind \in {"redeploy", "settings"} :
                                         ProtectAllocated(p, kind, n)
    BY <1>2, <2>2 DEF SettingsRead, RedeployRead, WriteRow, Abort, RegisterCheck,
                      ProtectAllocated, tables, history
  <2>3. QED BY <1>6, <2>1, <2>2 DEF OrdinaryHandler
<1>7. ASSUME NEW p \in Handlers, Callback(p) PROVE Goal
  BY <1>2, <1>7 DEF Callback, InventoryReread, DeployEvent, InstallComplete, Marker,
                    InventoryRead, BeginWrite, tables, history
<1>8. ASSUME NEW n \in Machines, NEW q \in Pools, UpdatePool(n, q) PROVE Goal
  <2> DEFINE h == Repooled(host[n], q)
  <2>1. h.born = host[n].born
    BY <1>0, UpdatedRow
  <2>2. host' = [host EXCEPT ![n] = h] /\ crossed' = crossed
    BY <1>8 DEF UpdatePool, history
  <2> HIDE DEF h
  <2>3. QED BY <1>3, <2>1, <2>2
<1>9. CASE Reconciler
  BY <1>2, <1>9 DEF Reconciler, SyncList, SyncStop, SyncTimeout, SyncInTime, SyncEnds,
                    tables, history
<1>10. \A n \in Machines : ~Unregister(n)
  BY DEF Unregister, Asked
<1>11. QED BY <1>2, <1>5, <1>6, <1>7, <1>8, <1>9, <1>10 DEF Next, vars

\* A commit, spelled out.
LEMMA CommitEffect ==
  ASSUME PoolInv, NEW p \in Handlers, NEW m \in MachineRows, Commits(p, m)
  PROVE  /\ req[p].name \in Machines
         /\ host[req[p].name].owner # None
         /\ \A k \in Machines : host'[k].owner = host[k].owner
         /\ lastAttempt \in Nat /\ lastAttempt' = lastAttempt + 1
         /\ lastDeploy' = [lastDeploy EXCEPT ![req[p].name] = lastAttempt + 1]
         /\ wipes \subseteq wipes' /\ \A a \in wipes' : a \in wipes \/ a = lastAttempt + 1
         /\ booted' = booted
         /\ crossed' = {} /\ \A k \in Machines : host'[k].born = 0
<1> DEFINE n == req[p].name
           h == Advance(host[n], DeploymentState(m), m.attempt)
<1>1. /\ host \in [Machines -> HostRows] /\ lastAttempt \in Nat
      /\ lastDeploy \in [Machines -> Nat] /\ wipes \subseteq Nat
  BY DEF PoolInv, SafeInv, FenceInv, TypeOK
<1>2. n \in Machines /\ host[n].owner # None
  BY CommitReadsCurrent DEF PoolInv
<1>3. /\ host' = [host EXCEPT ![n] = h]
      /\ lastAttempt' = lastAttempt + 1
      /\ wipes' = wipes \cup {a \in {lastAttempt + 1} : m.cleanup}
      /\ lastDeploy' = [lastDeploy EXCEPT ![n] = lastAttempt + 1]
      /\ booted' = booted
      /\ Crosses(n, req[p].host) /\ req[p].kind \in ClaimKinds
  BY DEF Commits, CommitDeployment, ClaimKinds
<1>4. h.owner = host[n].owner /\ h.born = host[n].born
  BY <1>1, <1>2, AdvancedRow
<1> HIDE DEF h
<1>5. \A k \in Machines : host'[k].owner = host[k].owner /\ host'[k].born = host[k].born
  BY <1>1, <1>2, <1>3, <1>4
<1>6. crossed' = {}
  BY <1>3, NoCrossing DEF PoolInv
<1>7. QED BY <1>1, <1>2, <1>3, <1>5, <1>6 DEF PoolInv

LEMMA PoolInvStep ==
  ASSUME "unregister" \notin Requests
  PROVE  PoolInv /\ [Next]_vars => PoolInv'
<1> SUFFICES ASSUME PoolInv, [Next]_vars PROVE PoolInv'
  OBVIOUS
<1>0. /\ SafeInv' /\ TypeOK /\ TypeOK'
      /\ crossed' = {} /\ \A n \in Machines : host'[n].born = 0
  BY SafeStep, OneEnrollment DEF PoolInv, SafeInv, FenceInv
<1>1. /\ lastAttempt \in Nat /\ lastAttempt' \in Nat /\ booted \subseteq Nat
      /\ lastDeploy \in [Machines -> Nat]
  BY <1>0 DEF TypeOK
<1>2. ASSUME lastAttempt <= lastAttempt', UNCHANGED <<booted, lastDeploy>> PROVE PoolInv'
  <2>1. /\ \A a \in booted' : a <= lastAttempt'
        /\ \A n \in Machines : lastDeploy'[n] <= lastAttempt'
    BY <1>1, <1>2 DEF PoolInv
  <2>2. QED BY <1>0, <1>2, <2>1 DEF PoolInv
<1>3. CASE Quiet
  BY <1>2, <1>3 DEF Quiet
<1>4. ASSUME NEW n \in Machines, Boots(n) PROVE PoolInv'
  <2>1. machine[n].token <= lastAttempt
    BY DEF PoolInv, SafeInv, FenceInv, Good, GoodIn
  <2>2. QED BY <1>0, <1>1, <1>4, <2>1 DEF Boots, PoolInv
<1>5. ASSUME NEW n \in Machines, NEW h \in HostRows, HostUpdated(n, h) PROVE PoolInv'
  BY <1>1, <1>2, <1>5 DEF HostUpdated
<1>6. ASSUME NEW p \in Handlers, NEW m \in MachineRows, Commits(p, m) PROVE PoolInv'
  <2> DEFINE n == req[p].name
  <2>1. /\ n \in Machines /\ lastAttempt' = lastAttempt + 1 /\ booted' = booted
        /\ lastDeploy' = [lastDeploy EXCEPT ![n] = lastAttempt + 1]
    BY <1>6, CommitEffect
  <2> HIDE DEF n
  <2>2. \A a \in booted' : a <= lastAttempt'
    BY <1>1, <2>1 DEF PoolInv
  <2>3. \A k \in Machines : lastDeploy[k] \in Nat /\ lastDeploy[k] <= lastAttempt
    BY <1>1 DEF PoolInv
  <2>4. \A k \in Machines : lastDeploy'[k] <= lastAttempt'
    BY <1>1, <2>1, <2>3
  <2>5. \A k, j \in Machines : lastDeploy'[k] # NoAttempt /\ lastDeploy'[k] = lastDeploy'[j] => k = j
    BY <1>1, <2>1, <2>3 DEF PoolInv
  <2>6. QED BY <1>0, <2>2, <2>4, <2>5 DEF PoolInv
<1>7. QED BY <1>0, <1>3, <1>4, <1>5, <1>6, StepIsOneKind DEF StepKinds

LEMMA PoolInvInit == Init => PoolInv
<1> SUFFICES ASSUME Init PROVE PoolInv
  OBVIOUS
<1>1. SafeInv
  BY SafeInit
<1>2. /\ booted = {} /\ lastAttempt = 0 /\ \A n \in Machines : lastDeploy[n] = 0
      /\ crossed = {} /\ \A n \in Machines : host[n].born = 0
  BY DEF Init, NoAttempt, Unenrolled
<1>3. \A n \in Machines : lastDeploy[n] <= lastAttempt /\ lastDeploy[n] = NoAttempt
  BY <1>2 DEF NoAttempt
<1>4. QED BY <1>1, <1>2, <1>3 DEF PoolInv

\* A host as HostPool sees it.
Holder == [n \in Machines |-> host[n].owner]
Dirty == [n \in Machines |-> /\ lastDeploy[n] # NoAttempt
                             /\ lastDeploy[n] \notin wipes \cap booted]

\* Every step of the handlers is a step of the pool, or does not change it.
LEMMA StepImplementsPool ==
  ASSUME PoolInv, PoolInv', [Next]_vars
  PROVE  [Pool!Next]_(Pool!poolVars)
<1>0. TypeOK /\ host \in [Machines -> HostRows] /\ lastDeploy \in [Machines -> Nat]
  BY DEF PoolInv, SafeInv, FenceInv, TypeOK
<1>1. \A n \in Machines : /\ host[n].owner = None => ~Dirty[n]
                          /\ host'[n].owner = None => ~Dirty'[n]
  BY DEF PoolInv, SafeInv, FenceInv, HostInv, SafeHostRow, Dirty
<1>2. ASSUME Holder' = Holder, Dirty' = Dirty PROVE UNCHANGED Pool!poolVars
  BY <1>2 DEF Holder, Dirty, Pool!poolVars
<1>3. CASE Quiet
  BY <1>2, <1>3 DEF Quiet, Holder, Dirty
<1>4. ASSUME NEW b \in Machines, Boots(b) PROVE [Pool!Next]_(Pool!poolVars)
  <2>1. host' = host /\ wipes' = wipes /\ lastDeploy' = lastDeploy
        /\ booted' = booted \cup {machine[b].token}
    BY <1>4 DEF Boots
  <2>2. Holder' = Holder
    BY <2>1 DEF Holder
  <2>3. CASE Dirty' = Dirty
    BY <1>2, <2>2, <2>3
  <2>4. CASE Dirty' # Dirty
    <3>1. PICK n \in Machines : Dirty'[n] # Dirty[n]
      BY <2>4 DEF Dirty
    <3>2. lastDeploy[n] = machine[b].token /\ lastDeploy[n] # NoAttempt /\ Dirty[n] /\ ~Dirty'[n]
      BY <2>1, <3>1 DEF Dirty
    <3>3. \A k \in Machines \ {n} : Dirty'[k] = Dirty[k]
      BY <2>1, <3>2 DEF Dirty, PoolInv
    <3>4. Dirty' = [Dirty EXCEPT ![n] = FALSE]
      BY <3>2, <3>3 DEF Dirty
    <3>5. host[n].owner # None
      BY <1>1, <3>2
    <3>6. Pool!CleanupFinishes(n)
      BY <2>2, <3>4, <3>5 DEF Pool!CleanupFinishes, Holder, Dirty
    <3>7. QED BY <3>6 DEF Pool!Next
  <2>5. QED BY <2>3, <2>4
<1>5. ASSUME NEW n \in Machines, NEW h \in HostRows, HostUpdated(n, h)
      PROVE  [Pool!Next]_(Pool!poolVars)
  <2>1. host' = [host EXCEPT ![n] = h] /\ Dirty' = Dirty
    BY <1>5 DEF HostUpdated, Dirty
  <2>2. Holder' = [Holder EXCEPT ![n] = h.owner]
    BY <1>0, <2>1 DEF Holder
  <2>3. CASE h.owner = host[n].owner
    <3>1. Holder' = Holder
      BY <1>0, <2>1, <2>3 DEF Holder
    <3>2. QED BY <1>2, <2>1, <3>1
  <2>4. CASE h.owner = None /\ host[n].owner # None
    <3>1. ~Dirty[n]
      BY <1>0, <1>1, <2>1, <2>4
    <3>2. Pool!Release(n)
      BY <2>1, <2>2, <2>4, <3>1 DEF Pool!Release, Holder, Dirty
    <3>3. QED BY <3>2 DEF Pool!Next
  <2>5. CASE h.owner # None /\ host[n].owner = None /\ OwnerUnique(h.owner)
    <3>1. ~Dirty[n] /\ h.owner \in Owners
      BY <1>1, <2>5 DEF HostRows
    <3>2. \A k \in Machines : host[k].owner # h.owner
      BY <2>5 DEF OwnerUnique
    <3>3. Pool!Acquire(n, h.owner)
      BY <2>1, <2>2, <2>5, <3>1, <3>2 DEF Pool!Acquire, Holder, Dirty
    <3>4. QED BY <3>1, <3>3 DEF Pool!Next
  <2>6. QED BY <1>5, <2>3, <2>4, <2>5 DEF HostUpdated
<1>6. ASSUME NEW p \in Handlers, NEW m \in MachineRows, Commits(p, m)
      PROVE  [Pool!Next]_(Pool!poolVars)
  <2>0. PICK n \in Machines : n = req[p].name
    BY <1>6, CommitEffect
  <2>1. /\ host[n].owner # None
        /\ \A k \in Machines : host'[k].owner = host[k].owner
        /\ lastAttempt \in Nat
        /\ lastDeploy' = [lastDeploy EXCEPT ![n] = lastAttempt + 1]
        /\ wipes \subseteq wipes' /\ \A a \in wipes' : a \in wipes \/ a = lastAttempt + 1
        /\ booted' = booted
    BY <1>6, <2>0, CommitEffect
  <2>2. lastAttempt + 1 # 0 /\ lastAttempt + 1 \notin booted
    BY <1>0, <2>1 DEF PoolInv, TypeOK
  <2>3. \A k \in Machines : lastDeploy[k] # lastAttempt + 1
    <3>1. \A k \in Machines : lastDeploy[k] \in Nat /\ lastDeploy[k] <= lastAttempt
      BY <1>0 DEF PoolInv
    <3>2. QED BY <2>1, <3>1
  <2>4. \A k \in Machines : Dirty'[k] = IF k = n THEN TRUE ELSE Dirty[k]
    BY <1>0, <2>1, <2>2, <2>3 DEF Dirty, NoAttempt
  <2>5. Dirty' = [Dirty EXCEPT ![n] = TRUE]
    BY <2>1, <2>4 DEF Dirty
  <2>6. Holder' = Holder
    BY <2>1 DEF Holder
  <2>7. Pool!Deploy(n)
    BY <2>1, <2>5, <2>6 DEF Pool!Deploy, Holder, Dirty
  <2>8. QED BY <2>1, <2>7 DEF Pool!Next
<1>7. QED BY <1>0, <1>3, <1>4, <1>5, <1>6, StepIsOneKind DEF StepKinds

\* As long as hosts stay enrolled, the two tables and all the handlers on them
\* implement the pool of clean hosts: a host is handed out only when it is free
\* and clean, to an owner that holds none, and is taken back only when the
\* system of a cleanup came up.
THEOREM PoolIsImplemented ==
  ASSUME "unregister" \notin Requests
  PROVE  Spec => ImplementsPool
<1>1. Init => Pool!Init
  <2>1. ASSUME Init PROVE \A n \in Machines : host[n].owner = None /\ lastDeploy[n] = NoAttempt
    BY <2>1 DEF Init, Unenrolled
  <2>2. QED BY <2>1 DEF Pool!Init
<1>2. PoolInv /\ [Next]_vars => PoolInv'
  BY PoolInvStep
<1>3. PoolInv /\ PoolInv' /\ [Next]_vars => [Pool!Next]_(Pool!poolVars)
  BY StepImplementsPool
<1>4. QED BY <1>1, <1>2, <1>3, PoolInvInit, PTL DEF Spec, ImplementsPool, Pool!Spec
=============================================================================
