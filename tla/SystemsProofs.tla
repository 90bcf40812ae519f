--------------------------- MODULE SystemsProofs ----------------------------
(***************************************************************************)
(* Proofs about the shutdown daemon (ShutdownDaemon) and about the row of  *)
(* a machine under redeploys, power cycles and a Windows installation      *)
(* (PowerCycles), each under its own specification and for every value of  *)
(* the constants: any window and any offsets of the clock, any number of   *)
(* packets, attempts, installer boots and concurrent jobs.                 *)
(***************************************************************************)
EXTENDS PowerCycles, ShutdownDaemon, FiniteSetTheorems, TLAPS

(***************************************************************************)
(* The shutdown daemon.                                                    *)
(***************************************************************************)

(* Every packet has a nonce of its own, drawn in the order of sending, and  *)
(* its timestamp has lost less than a second.                               *)
Packet == [nonce : Nonces, ts : Int, key : {1, 2}, sent : Nat]
Entry == [nonce : Nonces, at : Nat]
WireOK ==
    /\ wire \subseteq Packet /\ IsFiniteSet(wire)
    /\ \A p \in wire : p.nonce <= Cardinality(wire) /\ p.ts <= p.sent /\ p.sent < p.ts + Sec
    /\ \A p, q \in wire : p.nonce = q.nonce => p = q

SDTypes ==
    /\ clock \in Nat /\ skew \in Int /\ steps \in Nat
    /\ key \in {1, 2}
    /\ seen \subseteq Entry
    /\ ran \in [Nonces -> Nat]

(* The packet p is past its window, for good unless the clock is stepped. *)
Expired(p) == clock + skew - p.ts > TTL
(* The cache holds the moment p was accepted, which was in its window. *)
Remembers(s, p) == \E x \in s : x.nonce = p.nonce /\ x.at + skew - p.ts >= -TTL

(* What makes the bound inductive: a packet that was acted on is in the     *)
(* cache or can no longer be accepted, and nothing else was acted on.       *)
Spent ==
    /\ \A p \in wire : /\ ran[p.nonce] <= 1
                       /\ ran[p.nonce] # 0 => Expired(p) \/ Remembers(seen, p)
    /\ \A n \in Nonces : ran[n] # 0 => \E p \in wire : p.nonce = n

(* The packet between the two looks at the clock is one that was sent, and  *)
(* still in its window when no time has passed.                             *)
Steady == steps = 0 /\ ~held
Passing == checked # NoPacket => checked \in wire /\ (Steady => InWindow(checked))

DaemonInv == SDTypes /\ WireOK /\ Passing /\ (Steady => Spent) /\ unheard = {}

(* Dropping what is older than twice the window forgets only what has       *)
(* expired.                                                                 *)
LEMMA CacheOutlastsWindow ==
    ASSUME SDTypes, NEW p \in Packet, Remembers(seen, p)
    PROVE  Expired(p) \/ Remembers(Kept_(seen), p)
<1>1. PICK x \in seen : x.nonce = p.nonce /\ x.at + skew - p.ts >= -TTL
  BY DEF Remembers
<1>2. /\ x.at \in Nat /\ p.ts \in Int /\ clock \in Nat /\ skew \in Int /\ TTL \in Nat
  BY SDAssumption DEF SDTypes, Entry, Packet
<1>3. CASE clock - x.at <= 2 * TTL
  <2>1. x \in Kept_(seen)
    BY <1>3 DEF Kept_, Retention
  <2> QED
    BY <2>1, <1>1 DEF Remembers
<1>4. CASE ~(clock - x.at <= 2 * TTL)
  BY <1>4, <1>1, <1>2 DEF Expired
<1> QED
  BY <1>3, <1>4

(* A step that leaves packets, clocks and counts alone and keeps what is    *)
(* needed of the cache.                                                     *)
LEMMA DaemonQuiet ==
    ASSUME DaemonInv, UNCHANGED <<clock, skew, wire, steps, held, ran, unheard>>, key' \in {1, 2},
           seen' = seen \/ seen' = Kept_(seen),
           checked' \in {checked, NoPacket} \/ (checked' \in wire /\ InWindow(checked'))
    PROVE  DaemonInv'
<1>0. Passing'
  BY DEF DaemonInv, Passing, Steady, InWindow
<1>1. SDTypes'
  BY DEF DaemonInv, SDTypes, Kept_
<1>2. WireOK'
  BY DEF DaemonInv, WireOK
<1>3. ASSUME Steady' PROVE Spent'
  <2>1. Spent /\ SDTypes /\ WireOK
    BY <1>3 DEF DaemonInv, Steady
  <2>2. ASSUME NEW p \in wire, ran[p.nonce] # 0
        PROVE  Expired(p)' \/ Remembers(seen, p)'
    <3>1. Expired(p) \/ Remembers(seen, p)
      BY <2>1, <2>2 DEF Spent
    <3>2. Expired(p) \/ Remembers(Kept_(seen), p) \/ Remembers(seen, p)
      BY <3>1
    <3>3. p \in Packet
      BY <2>1 DEF WireOK
    <3>4. Expired(p) \/ Remembers(seen', p)
      BY <3>1, <3>3, <2>1, CacheOutlastsWindow
    <3> QED
      BY <3>4 DEF Expired, Remembers
  <2> QED
    BY <2>1, <2>2 DEF Spent
<1> QED
  BY <1>0, <1>1, <1>2, <1>3 DEF DaemonInv

LEMMA DaemonStarting ==
    ASSUME DaemonInv, DaemonStarts, UNCHANGED <<clock, skew, wire, key, steps, unheard>>
    PROVE  DaemonInv'
<1>1. SDTypes'
  BY DEF DaemonInv, SDTypes, DaemonStarts
<1>2. WireOK'
  BY DEF DaemonInv, WireOK
<1>3. Spent'
  <2>1. ran' = [n \in Nonces |-> 0]
    BY DEF DaemonStarts
  <2>2. \A p \in wire : p.nonce \in Nonces
    BY DEF DaemonInv, WireOK, Packet
  <2> QED
    BY <2>1, <2>2 DEF Spent
<1>4. Passing'
  BY DEF DaemonStarts, Passing
<1> QED
  BY <1>1, <1>2, <1>3, <1>4 DEF DaemonInv

LEMMA DaemonTick ==
    ASSUME DaemonInv, Tick
    PROVE  DaemonInv'
<1>1. SDTypes'
  BY DEF DaemonInv, SDTypes, Tick
<1>2. WireOK'
  BY DEF DaemonInv, WireOK, Tick
<1>3. ASSUME Steady' PROVE Spent'
  <2>1. Spent /\ SDTypes /\ WireOK
    BY <1>3 DEF DaemonInv, Tick, Steady
  <2>2. ASSUME NEW p \in wire, Expired(p) PROVE Expired(p)'
    <3>1. p.ts \in Int /\ clock \in Nat /\ skew \in Int /\ TTL \in Nat
      BY <2>1, SDAssumption DEF WireOK, SDTypes, Packet
    <3> QED
      BY <3>1, <2>2 DEF Expired, Tick
  <2>3. ASSUME NEW p \in wire, Remembers(seen, p) PROVE Remembers(seen, p)'
    BY <2>3 DEF Remembers, Tick
  <2>4. wire' = wire /\ ran' = ran /\ seen' = seen
    BY DEF Tick
  <2> QED
    BY <2>1, <2>2, <2>3, <2>4 DEF Spent
<1>4. Passing'
  BY DEF DaemonInv, Passing, Steady, Tick
<1> QED
  BY <1>1, <1>2, <1>3, <1>4 DEF DaemonInv, Tick

(* A timestamp loses less than a second. *)
LEMMA WholeSeconds ==
    ASSUME NEW t \in Nat
    PROVE  Unix(t) \in Int /\ Unix(t) <= t /\ t < Unix(t) + Sec
<1>1. Sec \in Nat /\ Sec > 0
  BY SDAssumption
<1>2. t % Sec \in 0..(Sec - 1)
  BY <1>1
<1> QED
  BY <1>1, <1>2 DEF Unix

LEMMA DaemonSend ==
    ASSUME DaemonInv, SendShutdown
    PROVE  DaemonInv'
<1> DEFINE new == [nonce |-> Cardinality(wire) + 1, ts |-> Unix(clock), key |-> key, sent |-> clock]
<1>0. Unix(clock) \in Int /\ Unix(clock) <= clock /\ clock < Unix(clock) + Sec
  BY WholeSeconds DEF DaemonInv, SDTypes
<1>1. SDTypes'
  BY DEF DaemonInv, SDTypes, SendShutdown
<1>2. /\ wire' = wire \cup {new} /\ IsFiniteSet(wire) /\ Cardinality(wire) \in Nat
      /\ Cardinality(wire) < MaxPackets
  BY FS_CardinalityType DEF SendShutdown, DaemonInv, WireOK
<1>3. new \in Packet
  BY <1>0, <1>2, SDAssumption DEF Packet, Nonces, DaemonInv, SDTypes
<1>4. \A p \in wire : p.nonce <= Cardinality(wire) /\ p.nonce \in Nat
  BY SDAssumption DEF DaemonInv, WireOK, Packet, Nonces
<1>5. new \notin wire /\ \A p \in wire : p.nonce # new.nonce
  BY <1>4, <1>2
<1>6. IsFiniteSet(wire') /\ Cardinality(wire') = Cardinality(wire) + 1
  BY <1>2, <1>5, FS_AddElement
<1>7. WireOK'
  <2>1. wire' \subseteq Packet
    BY <1>2, <1>3 DEF DaemonInv, WireOK
  <2>2. \A p \in wire' : p.nonce <= Cardinality(wire') /\ p.ts <= p.sent /\ p.sent < p.ts + Sec
    <3>1. SUFFICES ASSUME NEW p \in wire'
                   PROVE  p.nonce <= Cardinality(wire') /\ p.ts <= p.sent /\ p.sent < p.ts + Sec
      OBVIOUS
    <3>2. CASE p = new
      BY <3>2, <1>6, <1>2, <1>0
    <3>3. CASE p \in wire
      BY <3>3, <1>6, <1>4, <1>2 DEF DaemonInv, WireOK
    <3> QED
      BY <3>2, <3>3, <1>2
  <2>3. \A p, q \in wire' : p.nonce = q.nonce => p = q
    BY <1>2, <1>5 DEF DaemonInv, WireOK
  <2> QED
    BY <2>1, <2>2, <2>3, <1>6 DEF WireOK
<1>8. ASSUME Steady' PROVE Spent'
  <2>1. Spent /\ seen' = seen /\ ran' = ran /\ clock' = clock /\ skew' = skew
    BY <1>8 DEF DaemonInv, SendShutdown, Steady
  <2>2. ran[new.nonce] = 0
    <3>1. ASSUME ran[new.nonce] # 0 PROVE FALSE
      <4>1. new.nonce \in Nonces
        BY <1>3 DEF Packet
      <4>2. PICK p \in wire : p.nonce = new.nonce
        BY <4>1, <3>1, <2>1 DEF Spent
      <4> QED
        BY <4>2, <1>5
    <3> QED
      BY <3>1
  <2>3. \A p \in wire' : /\ ran[p.nonce] <= 1
                         /\ ran[p.nonce] # 0 => Expired(p) \/ Remembers(seen, p)
    <3>1. SUFFICES ASSUME NEW p \in wire'
                   PROVE  /\ ran[p.nonce] <= 1
                          /\ ran[p.nonce] # 0 => Expired(p) \/ Remembers(seen, p)
      OBVIOUS
    <3>2. CASE p = new
      BY <3>2, <2>2
    <3>3. CASE p \in wire
      BY <3>3, <2>1 DEF Spent
    <3> QED
      BY <3>2, <3>3, <1>2
  <2>4. \A p : (Expired(p) => Expired(p)') /\ (Remembers(seen, p) => Remembers(seen, p)')
    BY <2>1 DEF Expired, Remembers
  <2> QED
    BY <2>1, <2>3, <2>4, <1>2 DEF Spent
<1>9. Passing'
  BY <1>2 DEF DaemonInv, Passing, Steady, InWindow, SendShutdown
<1> QED
  BY <1>1, <1>7, <1>8, <1>9 DEF DaemonInv, SendShutdown

(* A packet accepted was not acted on before: had it been, it would be in   *)
(* the cache or out of its window.                                          *)
LEMMA DaemonAccepts ==
    ASSUME DaemonInv, AcceptPacket
    PROVE  DaemonInv'
<1>a. checked \in wire /\ (Steady => InWindow(checked)) /\ Passing'
  BY DEF AcceptPacket, DaemonInv, Passing
<1>b. PICK p \in wire : p = checked
  BY <1>a
<1>0. p \in wire /\ (Steady => InWindow(p)) /\ Passing'
  BY <1>a, <1>b
<1>c. PICK e : e = [nonce |-> p.nonce, at |-> clock]
  OBVIOUS
<1>1. /\ wire' = wire /\ clock' = clock /\ skew' = skew /\ steps' = steps /\ key' = key
      /\ held' = held /\ unheard' = unheard /\ seen' = Kept_(seen) \cup {e}
      /\ ran' = [ran EXCEPT ![p.nonce] = @ + 1]
      /\ \A x \in Kept_(seen) : x.nonce # p.nonce
  BY <1>b, <1>c DEF AcceptPacket
<1>2. SDTypes /\ WireOK /\ p \in Packet /\ p.nonce \in Nonces
  BY <1>0 DEF DaemonInv, WireOK, Packet
<1>3. e \in Entry /\ Kept_(seen) \subseteq Entry
  BY <1>2, <1>c DEF Entry, SDTypes, Kept_
<1>4. ran' \in [Nonces -> Nat]
  BY <1>1, <1>2 DEF SDTypes
<1>5. SDTypes'
  BY <1>1, <1>2, <1>3, <1>4 DEF SDTypes
<1>6. WireOK'
  BY <1>1, <1>2 DEF WireOK
<1>7. ASSUME Steady PROVE ~Expired(p) /\ clock + skew - p.ts >= -TTL
  <2>1. p.ts \in Int /\ clock \in Nat /\ skew \in Int /\ TTL \in Nat
    BY <1>2, SDAssumption DEF SDTypes, Packet
  <2> QED
    BY <1>0, <1>7, <2>1 DEF InWindow, Expired
<1>8. ASSUME Steady' PROVE Spent'
  <2>0. Steady
    BY <1>8, <1>1 DEF Steady
  <2>1. Spent
    BY <2>0 DEF DaemonInv
  <2>2. ran[p.nonce] = 0
    <3>1. ASSUME ran[p.nonce] # 0 PROVE FALSE
      <4>1. Remembers(seen, p)
        BY <3>1, <2>0, <2>1, <1>0, <1>7 DEF Spent
      <4>2. Remembers(Kept_(seen), p)
        BY <4>1, <2>0, <1>2, <1>7, CacheOutlastsWindow
      <4> QED
        BY <4>2, <1>1 DEF Remembers
    <3> QED
      BY <3>1
  <2>3. ran'[p.nonce] = 1 /\ \A n \in Nonces : n # p.nonce => ran'[n] = ran[n]
    BY <2>2, <1>1, <1>2 DEF SDTypes
  <2>4. Remembers(seen, p)'
    <3>1. e \in seen' /\ e.nonce = p.nonce /\ e.at + skew' - p.ts >= -TTL
      BY <1>1, <1>7, <2>0, <1>c
    <3> QED
      BY <3>1 DEF Remembers
  <2>5. ASSUME NEW q \in wire, q # p
        PROVE  /\ ran'[q.nonce] <= 1
               /\ ran'[q.nonce] # 0 => Expired(q)' \/ Remembers(seen, q)'
    <3>1. q.nonce # p.nonce /\ q.nonce \in Nonces /\ q \in Packet
      BY <2>5, <1>2 DEF WireOK, Packet
    <3>2. ran'[q.nonce] = ran[q.nonce]
      BY <3>1, <2>3
    <3>3. /\ ran[q.nonce] <= 1
          /\ ran[q.nonce] # 0 => Expired(q) \/ Remembers(seen, q)
      BY <2>1 DEF Spent
    <3>4. ran[q.nonce] # 0 => Expired(q) \/ Remembers(Kept_(seen), q)
      BY <3>3, <3>1, <1>2, CacheOutlastsWindow
    <3>5. (Expired(q) => Expired(q)') /\ (Remembers(Kept_(seen), q) => Remembers(seen, q)')
      BY <1>1 DEF Expired, Remembers
    <3> QED
      BY <3>2, <3>3, <3>4, <3>5
  <2>6. \A n \in Nonces : ran'[n] # 0 => \E q \in wire' : q.nonce = n
    BY <2>1, <2>3, <1>0, <1>1 DEF Spent
  <2>7. \A q \in wire' : /\ ran'[q.nonce] <= 1
                         /\ ran'[q.nonce] # 0 => Expired(q)' \/ Remembers(seen, q)'
    <3>1. SUFFICES ASSUME NEW q \in wire'
                   PROVE  /\ ran'[q.nonce] <= 1
                          /\ ran'[q.nonce] # 0 => Expired(q)' \/ Remembers(seen, q)'
      OBVIOUS
    <3>2. CASE q = p
      BY <3>2, <2>3, <2>4
    <3>3. CASE q # p
      BY <3>3, <2>5, <1>1
    <3> QED
      BY <3>2, <3>3
  <2> QED
    BY <2>6, <2>7 DEF Spent
<1> QED
  BY <1>0, <1>1, <1>5, <1>6, <1>8 DEF DaemonInv

(* A packet that comes at once is in the window of a clock that is behind   *)
(* by no more than it, or ahead by a second less.                           *)
LEMMA DaemonRefuses ==
    ASSUME DaemonInv, NEW p \in wire, RefusePacket(p)
    PROVE  DaemonInv'
<1>1. ASSUME Authentic(p), clock = p.sent, skew \in -TTL..(TTL - Sec) PROVE FALSE
  <2>1. /\ clock \in Nat /\ skew \in Int /\ TTL \in Nat /\ Sec \in Nat /\ p.ts \in Int
        /\ p.ts <= clock /\ clock < p.ts + Sec
    BY <1>1, SDAssumption DEF DaemonInv, SDTypes, WireOK, Packet
  <2>2. InWindow(p)
    BY <1>1, <2>1 DEF InWindow
  <2> QED
    BY <2>2, <1>1 DEF RefusePacket
<1>2. unheard' = unheard
  BY <1>1 DEF RefusePacket
<1>3. UNCHANGED <<clock, skew, wire, key, checked, steps, held, ran, seen>>
  BY DEF RefusePacket
<1>4. key' \in {1, 2}
  BY <1>3 DEF DaemonInv, SDTypes
<1> QED
  BY <1>2, <1>3, <1>4, DaemonQuiet

LEMMA DaemonSteps ==
    ASSUME DaemonInv, [SDNext]_sdVars
    PROVE  DaemonInv'
<1>0. key \in {1, 2}
  BY DEF DaemonInv, SDTypes
<1>1. CASE Tick
  BY <1>1, DaemonTick
<1>2. CASE ClockStep
  <2>1. skew' \in Int /\ steps' = steps + 1 /\ steps' # 0 /\ steps' \in Nat
    BY <1>2, SDAssumption DEF ClockStep, DaemonInv, SDTypes
  <2>2. SDTypes'
    BY <2>1, <1>2 DEF ClockStep, DaemonInv, SDTypes
  <2>3. WireOK'
    BY <1>2 DEF ClockStep, DaemonInv, WireOK
  <2>4. Passing' /\ ~Steady'
    BY <2>1, <1>2 DEF ClockStep, DaemonInv, Passing, Steady
  <2> QED
    BY <2>2, <2>3, <2>4, <1>2 DEF DaemonInv, ClockStep
<1>3. CASE ChangeKey
  BY <1>3, DaemonQuiet DEF ChangeKey
<1>4. CASE SendShutdown
  BY <1>4, DaemonSend
<1>5. CASE Wake
  BY <1>5, DaemonStarting DEF Wake
<1>6. CASE RestartDaemon
  BY <1>6, DaemonStarting DEF RestartDaemon
<1>7. ASSUME NEW p \in wire, RefusePacket(p) PROVE DaemonInv'
  BY <1>7, DaemonRefuses
<1>8. CASE RefuseReplay
  BY <1>8, <1>0, DaemonQuiet DEF RefuseReplay
<1>9. CASE AcceptPacket
  BY <1>9, DaemonAccepts
<1>14. ASSUME NEW p \in wire, PassPacket(p) PROVE DaemonInv'
  BY <1>14, <1>0, DaemonQuiet DEF PassPacket
<1>10. CASE CommandSucceeds
  BY <1>10, <1>0, DaemonQuiet DEF CommandSucceeds
<1>11. CASE CommandFails
  BY <1>11, <1>0, DaemonQuiet DEF CommandFails
<1>12. CASE HostGoesDown
  BY <1>12, <1>0, DaemonQuiet DEF HostGoesDown
<1>13. CASE UNCHANGED sdVars
  BY <1>13, <1>0, DaemonQuiet DEF sdVars
<1> QED
  BY <1>1, <1>2, <1>3, <1>4, <1>5, <1>6, <1>7, <1>8, <1>9, <1>10, <1>11, <1>12, <1>13, <1>14 DEF SDNext

LEMMA DaemonInvariant == SDSpec => []DaemonInv
<1>1. SDInit => DaemonInv
  <2>1. SUFFICES ASSUME SDInit PROVE DaemonInv
    OBVIOUS
  <2>2. SDTypes
    BY <2>1, SDAssumption DEF SDInit, SDTypes, InstalledKey
  <2>3. WireOK
    BY <2>1, FS_EmptySet DEF SDInit, WireOK
  <2>4. Spent
    BY <2>1 DEF SDInit, Spent
  <2>5. Passing
    BY <2>1 DEF SDInit, Passing
  <2> QED
    BY <2>1, <2>2, <2>3, <2>4, <2>5 DEF DaemonInv, SDInit
<1>2. DaemonInv /\ [SDNext]_sdVars => DaemonInv'
  BY DaemonSteps
<1> QED
  BY <1>1, <1>2, PTL DEF SDSpec

(* One run of the daemon whose wall clock is not stepped, and that is not   *)
(* held up between its two looks at the clock, acts at most once on a       *)
(* packet, for any ttl: ShutdownReplayCache keeps a nonce for twice the     *)
(* ttl, and a packet accepted at the early end of its window has left the   *)
(* late end by the time its nonce is dropped.  And the window of            *)
(* ParseAndVerifyShutdownPacket refuses no packet that arrives at once at a *)
(* node whose clock is behind by no more than the ttl or ahead by a second  *)
(* less, although the packet carries whole seconds.                         *)
THEOREM PacketsActOnce == SDSpec => []OneShutdownPerPacket
<1>1. DaemonInv => OneShutdownPerPacket
  <2>1. SUFFICES ASSUME DaemonInv, Steady, NEW n \in Nonces PROVE ran[n] <= 1
    BY DEF OneShutdownPerPacket, DaemonInv, Steady
  <2>2. Spent /\ ran[n] \in Nat
    BY <2>1 DEF DaemonInv, SDTypes
  <2>3. CASE ran[n] = 0
    BY <2>3
  <2>4. CASE ran[n] # 0
    BY <2>4, <2>2 DEF Spent
  <2> QED
    BY <2>3, <2>4
<1> QED
  BY <1>1, DaemonInvariant, PTL

(***************************************************************************)
(* The row of a machine under redeploys and power cycles.                  *)
(***************************************************************************)
Kinds == {"wol", "ipmi", "webhook", "manual"}
Row == [attempt : Nat, windows : BOOLEAN, type : Kinds, static : BOOLEAN, ip : Nat,
        power : {"unknown", "running", "stopped"}, stage : {"new", "started", "applied"},
        active : BOOLEAN, result : {"", "complete", "failed", "timeout"},
        error : {"", "installer", "timeout", "power"}, action : {"", "off", "on"}]
Posts == {"install_started", "image_applied", "failed", "complete"}
Inst == [attempt : Nat, at : {"off", "winpe", "posting", "install_started", "image_applied"},
         stage : Posts \cup {""}, seen : Row]
Cycle == [at : {"none", "check", "off", "settle", "on", "wait", "record", "swap", "end"},
          fenced : BOOLEAN, type : Kinds, action : {"", "off", "on"}, failed : BOOLEAN,
          then : {"settle", "end"}, tries : Nat, seen : Row]
Wholes == {"settings", "network", "whole", "attach"}
Works == Wholes \cup {"none", "begun", "redeploy", "power", "target", "timeout", "lease", "poll"}
Job == [kind : Works, before : Kinds, seen : Row, new : Row]

(* A running attempt has no result yet. *)
Open(r) == r.active => r.result = ""
RowOK ==
    /\ row \in Row /\ Open(row)
    /\ drawn \in Nat /\ row.attempt <= drawn /\ drawn <= MaxAttempts

(* A callback that passed the checks of PXEWindowsState read a running row, *)
(* and a claim one that nobody had claimed.                                 *)
Checked(c) == c.at = "posting" => /\ c.stage \in Posts
                                  /\ c.seen.active
                                  /\ c.stage = "install_started" => c.seen.stage = "new"
InstsOK == inst \in [Installers -> Inst] /\ \A i \in Installers : Checked(inst[i])

(* A cycle belongs to an attempt that was drawn, and swaps its own row. *)
Owned(a, c) == /\ c.at # "none" => a <= drawn
               /\ c.at = "swap" => c.seen.attempt = a
CyclesOK == cycle \in [Attempts -> Cycle] /\ \A a \in Attempts : Owned(a, cycle[a])

(* What a job decided to write, relative to the row it read. *)
SameBut(new, old) ==
    /\ new.attempt = old.attempt /\ new.stage = old.stage /\ new.static = old.static
    /\ new.windows = old.windows
Rewrites(new, old) ==
    /\ Open(new) /\ new.stage = old.stage /\ new.static = old.static
    /\ new.error = "power" => old.error = "power"
    /\ new.result = old.result \/ old.result = ""
Decided(b) ==
    /\ Open(b.seen)
    /\ b.kind \in Wholes => /\ Rewrites(b.new, b.seen)
                            /\ b.kind # "network" /\ b.new.static => b.new.ip = b.seen.ip
    /\ b.kind = "attach" => b.new.attempt \in Attempts
    /\ b.kind = "timeout" => /\ SameBut(b.new, b.seen) /\ b.seen.active /\ ~b.new.active
                             /\ b.new.ip = b.seen.ip /\ b.new.error = "timeout"
    /\ b.kind = "redeploy" => b.new.stage = "new" /\ b.new.result = "" /\ b.new.error = ""
JobsOK ==
    /\ job \in [Jobs -> Job]
    /\ \A j \in Jobs : /\ Decided(job[j])
                       /\ job[j].seen.attempt <= drawn /\ job[j].new.attempt <= drawn

(* An attempt some boot has claimed is past "new", unless it was trampled. *)
ClaimsOK ==
    /\ claims \in [Attempts -> SUBSET Installers]
    /\ \A a \in Attempts :
          claims[a] # {} => /\ a <= drawn
                            /\ row.attempt = a => row.stage # "new" \/ a \in trampled
                            /\ (\E i \in Installers : claims[a] = {i}) \/ a \in trampled
(* The histories name attempts that were drawn. *)
HistoryOK == blame \in Nat /\ blame <= drawn /\ \A a \in trampled : a \in Nat /\ a <= drawn

PowerInv == RowOK /\ InstsOK /\ CyclesOK /\ JobsOK /\ ClaimsOK /\ HistoryOK /\ NoLateMark

-----------------------------------------------------------------------------
LEMMA Blanks == /\ NewRow("wol") \in Row /\ Open(NewRow("wol"))
                /\ NoInst \in Inst /\ Checked(NoInst)
                /\ NoCycle \in Cycle /\ NoCycle.at = "none"
                /\ NoJob \in Job /\ Decided(NoJob)
<1>1. NewRow("wol") \in Row /\ Open(NewRow("wol"))
  BY DEF NewRow, Row, Open, Kinds
<1>2. NoInst \in Inst /\ Checked(NoInst)
  BY <1>1 DEF NoInst, Inst, Checked
<1>3. NoCycle \in Cycle /\ NoCycle.at = "none"
  BY <1>1 DEF NoCycle, Cycle, Kinds
<1>4. NoJob \in Job /\ Decided(NoJob)
  BY <1>1 DEF NoJob, Job, Decided, Works, Wholes, Kinds
<1> QED
  BY <1>1, <1>2, <1>3, <1>4

(* One boot, one job or one cycle moves, the others stay. *)
LEMMA OneInst ==
    ASSUME InstsOK, NEW i \in Installers, NEW c \in Inst, Checked(c),
           inst' = [inst EXCEPT ![i] = c]
    PROVE  InstsOK'
<1>1. inst' \in [Installers -> Inst] /\ \A k \in Installers : inst'[k] = IF k = i THEN c ELSE inst[k]
  BY DEF InstsOK
<1> QED
  BY <1>1 DEF InstsOK

LEMMA OneJob ==
    ASSUME JobsOK, NEW j \in Jobs, NEW b \in Job, Decided(b),
           b.seen.attempt <= drawn', b.new.attempt <= drawn',
           job' = [job EXCEPT ![j] = b],
           drawn \in Nat, drawn' \in Nat, drawn <= drawn'
    PROVE  JobsOK'
<1>0. \A k \in Job : k.seen.attempt \in Nat /\ k.new.attempt \in Nat
  BY DEF Job, Row
<1>1. job' \in [Jobs -> Job] /\ \A k \in Jobs : job'[k] = IF k = j THEN b ELSE job[k]
  BY DEF JobsOK
<1>2. \A k \in Jobs : Decided(job'[k])
  BY <1>1 DEF JobsOK
<1>3. \A k \in Jobs : job[k] \in Job /\ job[k].seen.attempt <= drawn /\ job[k].new.attempt <= drawn
  BY DEF JobsOK
<1>4. \A k \in Jobs : job'[k].seen.attempt <= drawn' /\ job'[k].new.attempt <= drawn'
  BY <1>0, <1>1, <1>3
<1>5. \A k \in Jobs : Decided(job[k])'
  BY <1>2 DEF Decided
<1> QED
  BY <1>1, <1>4, <1>5 DEF JobsOK

LEMMA OneCycle ==
    ASSUME CyclesOK, NEW a \in Attempts, NEW c \in Cycle, 
           c.at # "none" => a <= drawn', c.at = "swap" => c.seen.attempt = a,
           cycle' = [cycle EXCEPT ![a] = c],
           drawn \in Nat, drawn' \in Nat, drawn <= drawn'
    PROVE  CyclesOK'
<1>1. cycle' \in [Attempts -> Cycle] /\ \A b \in Attempts : cycle'[b] = IF b = a THEN c ELSE cycle[b]
  BY DEF CyclesOK
<1>2. \A b \in Attempts : \A d : Owned(b, d) => Owned(b, d)'
  BY PCAssumption DEF Owned, Attempts
<1>3. ASSUME NEW b \in Attempts PROVE Owned(b, cycle[b])'
  <2>1. CASE b = a
    BY <2>1, <1>1 DEF Owned
  <2>2. CASE b # a
    BY <2>2, <1>1, <1>2 DEF CyclesOK, Owned
  <2> QED
    BY <2>1, <2>2
<1> QED
  BY <1>1, <1>3 DEF CyclesOK

(* What the row and the histories promise holds while they stay. *)
LEMMA RowKept ==
    ASSUME PowerInv, UNCHANGED <<row, drawn, hist>>
    PROVE  RowOK' /\ ClaimsOK' /\ HistoryOK' /\ NoLateMark'
  BY DEF PowerInv, RowOK, ClaimsOK, HistoryOK, NoLateMark, hist

LEMMA CyclesKept ==
    ASSUME CyclesOK, UNCHANGED cycle, drawn \in Nat, drawn' \in Nat, drawn <= drawn'
    PROVE  CyclesOK'
<1>1. \A b \in Attempts : \A d : Owned(b, d) => Owned(b, d)'
  BY PCAssumption DEF Owned, Attempts
<1> QED
  BY <1>1 DEF CyclesOK, Owned

LEMMA InstSteps ==
    ASSUME PowerInv, NEW i \in Installers,
           BootInstaller(i) \/ StateReads(i) \/ ResetInstaller(i)
    PROVE  PowerInv'
<1>1. InstsOK /\ RowOK /\ inst[i] \in Inst
  BY DEF PowerInv, InstsOK
<1>2. UNCHANGED <<row, late, cycle, job, jobs, drawn, hist>>
  BY DEF BootInstaller, StateReads, ResetInstaller
<1>3. InstsOK'
  <2>1. CASE BootInstaller(i)
    <3> DEFINE c == [NoInst EXCEPT !.attempt = row.attempt, !.at = "winpe"]
    <3>1. c \in Inst /\ c.at = "winpe"
      BY <1>1, Blanks DEF RowOK, Row, Inst
    <3>2. Checked(c)
      BY <3>1 DEF Checked
    <3> QED
      BY <3>1, <3>2, <2>1, <1>1, OneInst DEF BootInstaller
  <2>2. CASE StateReads(i)
    <3>1. PICK stage \in Reports(inst[i].at) :
              inst' = [inst EXCEPT ![i] = IF Target(@.attempt) /\ Allowed(stage)
                                          THEN [@ EXCEPT !.at = "posting", !.stage = stage, !.seen = row]
                                          ELSE NoInst]
      BY <2>2 DEF StateReads
    <3>2. stage \in Posts
      BY DEF Reports, Posts
    <3>3. CASE Target(inst[i].attempt) /\ Allowed(stage)
      <4> DEFINE c == [inst[i] EXCEPT !.at = "posting", !.stage = stage, !.seen = row]
      <4>1. c \in Inst /\ c.at = "posting" /\ c.stage = stage /\ c.seen = row
        BY <1>1, <3>2 DEF RowOK, Inst
      <4>2. Checked(c)
        BY <4>1, <3>2, <3>3 DEF Checked, Allowed
      <4>3. inst' = [inst EXCEPT ![i] = c]
        BY <3>1, <3>3
      <4> HIDE DEF c
      <4> QED
        BY <4>1, <4>2, <4>3, <1>1, OneInst
    <3>4. CASE ~(Target(inst[i].attempt) /\ Allowed(stage))
      <4>1. inst' = [inst EXCEPT ![i] = NoInst]
        BY <3>1, <3>4
      <4> QED
        BY <4>1, <1>1, Blanks, OneInst
    <3> QED
      BY <3>3, <3>4
  <2>3. CASE ResetInstaller(i)
    BY <2>3, <1>1, Blanks, OneInst DEF ResetInstaller
  <2> QED
    BY <2>1, <2>2, <2>3
<1>4. CyclesOK' /\ JobsOK'
  BY <1>2 DEF PowerInv, CyclesOK, JobsOK, Owned
<1>5. RowOK' /\ ClaimsOK' /\ HistoryOK' /\ NoLateMark'
  BY <1>2, RowKept
<1> QED
  BY <1>3, <1>4, <1>5 DEF PowerInv

(* What StateWrites makes of the row it read. *)
LEMMA ReportedRow ==
    ASSUME NEW r \in Row, NEW stage \in Posts, r.active
    PROVE  /\ Reported(r, stage) \in Row
           /\ Open(r) => Open(Reported(r, stage))
           /\ Reported(r, stage).attempt = r.attempt
           /\ Reported(r, stage).static = r.static
           /\ r.static => Reported(r, stage).ip = r.ip
           /\ Reported(r, stage).error = "power" => r.error = "power"
           /\ r.stage # "new" => Reported(r, stage).stage # "new"
           /\ stage = "install_started" => Reported(r, stage).stage # "new"
<1>1. CASE stage = "install_started"
  <2>1. Reported(r, stage) = [r EXCEPT !.stage = "started"]
    BY <1>1 DEF Reported
  <2> QED
    BY <1>1, <2>1 DEF Row, Open
<1>2. CASE stage = "image_applied"
  <2>1. Reported(r, stage) = [r EXCEPT !.stage = "applied"]
    BY <1>2 DEF Reported
  <2> QED
    BY <1>2, <2>1 DEF Row, Open
<1>3. CASE stage = "failed"
  <2>1. Reported(r, stage) = [r EXCEPT !.active = FALSE, !.result = "failed", !.error = "installer"]
    BY <1>3 DEF Reported
  <2> QED
    BY <1>3, <2>1 DEF Row, Open
<1>4. CASE stage = "complete"
  <2> DEFINE x == IF r.static THEN r.ip ELSE 2
  <2>1. Reported(r, stage) = [r EXCEPT !.active = FALSE, !.result = "complete", !.error = "", !.ip = x]
    BY <1>4 DEF Reported
  <2>2. x \in Nat /\ (r.static => x = r.ip)
    BY DEF Row
  <2> HIDE DEF x
  <2> DEFINE y == [r EXCEPT !.active = FALSE, !.result = "complete", !.error = "", !.ip = x]
  <2>3. y \in Row
    BY <2>2 DEF Row
  <2>4. /\ y.attempt = r.attempt /\ y.static = r.static /\ y.ip = x /\ y.error = ""
        /\ y.stage = r.stage /\ y.active = FALSE
    BY DEF Row
  <2>5. Reported(r, stage) = y
    BY <2>1
  <2> HIDE DEF y
  <2> QED
    BY <1>4, <2>2, <2>3, <2>4, <2>5 DEF Open
<1> QED
  BY <1>1, <1>2, <1>3, <1>4 DEF Posts

(* A job takes note of what it has read. *)
LEMMA JobSet ==
    ASSUME PowerInv, NEW j \in Jobs, NEW b \in Job, Decided(b), b.seen.attempt <= drawn,
           b.new.attempt <= drawn, job' = [job EXCEPT ![j] = b], JobOnly
    PROVE  PowerInv'
<1>1. RowOK /\ JobsOK /\ CyclesOK /\ UNCHANGED <<row, late, inst, cycle, drawn, hist>>
  BY DEF PowerInv, JobOnly
<1>2. drawn \in Nat /\ drawn' \in Nat /\ drawn <= drawn' /\ drawn' = drawn
  BY <1>1 DEF RowOK
<1>3. JobsOK'
  <2>1. b.seen.attempt <= drawn' /\ b.new.attempt <= drawn'
    BY <1>2
  <2> QED
    BY <2>1, <1>1, <1>2, OneJob
<1>4. InstsOK' /\ CyclesOK'
  BY <1>1, <1>2, CyclesKept DEF PowerInv, InstsOK
<1>5. RowOK' /\ ClaimsOK' /\ HistoryOK' /\ NoLateMark'
  BY <1>1, RowKept
<1> QED
  BY <1>3, <1>4, <1>5 DEF PowerInv

LEMMA JobFields ==
    ASSUME NEW b \in Job, NEW k \in Works, NEW x \in Row, NEW y \in Row
    PROVE  [b EXCEPT !.kind = k, !.seen = x, !.new = y]
               = [kind |-> k, before |-> b.before, seen |-> x, new |-> y]
<1> DEFINE c == [b EXCEPT !.kind = k, !.seen = x, !.new = y]
<1>1. c \in Job /\ c.kind = k /\ c.before = b.before /\ c.seen = x /\ c.new = y
  BY DEF Job
<1> HIDE DEF c
<1>2. c = [kind |-> c.kind, before |-> c.before, seen |-> c.seen, new |-> c.new]
  BY <1>1 DEF Job
<1>3. c = [kind |-> k, before |-> b.before, seen |-> x, new |-> y]
  BY <1>1, <1>2
<1> QED
  BY <1>3 DEF c

LEMMA JobReading ==
    ASSUME PowerInv, NEW j \in Jobs, NEW kind \in Works, NEW new \in Row, new.attempt <= drawn,
           Decided([kind |-> kind, before |-> job[j].before, seen |-> row, new |-> new]),
           Reads(j, kind, new), JobOnly
    PROVE  PowerInv'
<1> DEFINE b == [kind |-> kind, before |-> job[j].before, seen |-> row, new |-> new]
           c == [job[j] EXCEPT !.kind = kind, !.seen = row, !.new = new]
<1>1. row \in Row /\ row.attempt <= drawn /\ job[j] \in Job
  BY DEF PowerInv, RowOK, JobsOK
<1>2. b \in Job /\ b.seen = row /\ b.new = new
  BY <1>1 DEF Job
<1>3. c = b
  BY <1>1, JobFields
<1>4. job' = [job EXCEPT ![j] = c]
  BY DEF Reads
<1>5. job' = [job EXCEPT ![j] = b] /\ Decided(b)
  BY <1>3, <1>4
<1> HIDE DEF b
<1> QED
  BY <1>1, <1>2, <1>5, JobSet

LEMMA RedeployReading ==
    ASSUME PowerInv, NEW j \in Jobs,
           RedeployBegins(j) \/ \E w \in BOOLEAN, t \in PowerTypes : RedeployReads(j, w, t)
    PROVE  PowerInv'
<1>1. row \in Row /\ Open(row) /\ row.attempt <= drawn /\ drawn \in Nat
  BY DEF PowerInv, RowOK
<1>2. CASE RedeployBegins(j)
  <2> DEFINE b == [NoJob EXCEPT !.kind = "begun", !.before = row.type]
  <2>1. job' = [job EXCEPT ![j] = b] /\ JobOnly
    BY <1>2 DEF RedeployBegins
  <2>2. row.type \in Kinds /\ NoJob \in Job /\ NoJob.seen.attempt = 0 /\ NoJob.new.attempt = 0
    BY <1>1, Blanks DEF Row, NoJob, NewRow
  <2>3. b \in Job /\ b.kind = "begun" /\ b.seen = NoJob.seen /\ b.new = NoJob.new
    BY <2>2 DEF Job, Works
  <2>4. Decided(b)
    BY <2>3, Blanks DEF Decided, Wholes
  <2> HIDE DEF b
  <2>5. b.seen.attempt <= drawn /\ b.new.attempt <= drawn
    BY <2>2, <2>3, <1>1
  <2> QED
    BY <2>1, <2>3, <2>4, <2>5, JobSet
<1>3. ASSUME NEW w \in BOOLEAN, NEW t \in PowerTypes, RedeployReads(j, w, t) PROVE PowerInv'
  <2>1. PICK c \in Addresses(w) :
            Reads(j, "redeploy", [row EXCEPT !.windows = w, !.type = t, !.static = c.static,
                                             !.ip = c.ip, !.stage = "new", !.active = TRUE,
                                             !.result = "", !.error = ""])
    BY <1>3 DEF RedeployReads
  <2> DEFINE x == c.static
             y == c.ip
             new == [row EXCEPT !.windows = w, !.type = t, !.static = x, !.ip = y, !.stage = "new",
                                !.active = TRUE, !.result = "", !.error = ""]
             b == [kind |-> "redeploy", before |-> job[j].before, seen |-> row, new |-> new]
  <2>2. x \in BOOLEAN /\ y \in Nat
    <3>1. row.static \in BOOLEAN /\ row.ip \in Nat
      BY <1>1 DEF Row
    <3>2. \/ c = [static |-> FALSE, ip |-> 0] \/ c = [static |-> TRUE, ip |-> 1]
          \/ c = [static |-> row.static, ip |-> row.ip]
      BY DEF Addresses
    <3>3. CASE c = [static |-> FALSE, ip |-> 0]
      BY <3>3
    <3>4. CASE c = [static |-> TRUE, ip |-> 1]
      BY <3>4
    <3>5. CASE c = [static |-> row.static, ip |-> row.ip]
      <4>1. c.static = row.static /\ c.ip = row.ip
        BY <3>5
      <4> QED
        BY <4>1, <3>1
    <3> QED
      BY <3>2, <3>3, <3>4, <3>5
  <2>3. Reads(j, "redeploy", new) /\ JobOnly
    BY <1>3, <2>1 DEF RedeployReads
  <2> HIDE DEF x, y
  <2>4. /\ new \in Row /\ new.stage = "new" /\ new.result = "" /\ new.error = ""
        /\ new.attempt = row.attempt
    BY <2>2, <1>1, PCAssumption DEF Row, Kinds
  <2>5. Decided(b)
    BY <2>4, <1>1 DEF Decided, Wholes
  <2> HIDE DEF new
  <2>6. "redeploy" \in Works /\ new.attempt <= drawn
    BY <2>4, <1>1 DEF Works
  <2> QED
    BY <2>3, <2>4, <2>5, <2>6, JobReading
<1> QED
  BY <1>2, <1>3

(* What a whole-row writer decides of the row it read. *)
LEMMA WholeReading ==
    ASSUME PowerInv, NEW j \in Jobs, NEW kind \in Wholes \ {"attach"}, NEW new \in Row,
           new.attempt <= drawn, Rewrites(new, row),
           kind # "network" /\ new.static => new.ip = row.ip, Reads(j, kind, new), JobOnly
    PROVE  PowerInv'
<1>1. Open(row) /\ kind \in Works
  BY DEF PowerInv, RowOK, Works
<1>2. Decided([kind |-> kind, before |-> job[j].before, seen |-> row, new |-> new])
  BY <1>1 DEF Decided, Wholes
<1> QED
  BY <1>1, <1>2, JobReading

LEMMA WholeReadSteps ==
    ASSUME PowerInv, NEW j \in Jobs, SettingsRead(j) \/ LinuxReads(j) \/ ProgressReads(j)
    PROVE  PowerInv'
<1>1. row \in Row /\ Open(row) /\ row.attempt <= drawn /\ row.attempt \in Nat
  BY DEF PowerInv, RowOK, Row
<1>2. ASSUME NEW t \in PowerTypes, JobReads(j, "settings", [row EXCEPT !.type = t]) PROVE PowerInv'
  <2> DEFINE new == [row EXCEPT !.type = t]
  <2>1. /\ new \in Row /\ new.attempt = row.attempt /\ new.ip = row.ip
        /\ Rewrites(new, row)
    BY <1>1, PCAssumption DEF Row, Kinds, Rewrites, Open
  <2>2. Reads(j, "settings", new) /\ JobOnly
    BY <1>2 DEF JobReads
  <2> HIDE DEF new
  <2> QED
    BY <2>1, <2>2, <1>1, WholeReading DEF Wholes
<1>3. ASSUME NEW x \in {0, 1}, JobReads(j, "network", [row EXCEPT !.ip = x]) PROVE PowerInv'
  <2> DEFINE new == [row EXCEPT !.ip = x]
  <2>a. x \in Nat
    OBVIOUS
  <2>1. new \in Row /\ new.attempt = row.attempt /\ Rewrites(new, row)
    BY <1>1, <2>a DEF Row, Rewrites, Open
  <2>2. Reads(j, "network", new) /\ JobOnly
    BY <1>3 DEF JobReads
  <2> HIDE DEF new
  <2> QED
    BY <2>1, <2>2, <1>1, WholeReading DEF Wholes
<1>4. CASE LinuxReads(j)
  <2>1. PICK r \in LinuxOutcomes : JobReads(j, "whole", r) /\ row.active
    BY <1>4 DEF LinuxReads
  <2>2. row.result = ""
    BY <2>1, <1>1 DEF Open
  <2>3. r \in Row /\ r.attempt = row.attempt /\ Rewrites(r, row) /\ (r.static => r.ip = row.ip)
    <3>1. CASE r = row
      BY <3>1, <1>1 DEF Rewrites
    <3>2. CASE r = [row EXCEPT !.error = ""]
      BY <3>2, <1>1 DEF Rewrites, Row, Open
    <3>3. CASE r = [row EXCEPT !.active = FALSE, !.result = "failed", !.error = "installer"]
      BY <3>3, <1>1, <2>2 DEF Rewrites, Row, Open
    <3>4. CASE r = [row EXCEPT !.active = FALSE, !.result = "timeout", !.error = "timeout"]
      BY <3>4, <1>1, <2>2 DEF Rewrites, Row, Open
    <3>5. CASE r = [row EXCEPT !.active = FALSE, !.result = "complete", !.error = "",
                               !.ip = IF row.static THEN row.ip ELSE 2]
      <4> DEFINE x == IF row.static THEN row.ip ELSE 2
      <4>1. r = [row EXCEPT !.active = FALSE, !.result = "complete", !.error = "", !.ip = x]
        BY <3>5
      <4>2. x \in Nat /\ (row.static => x = row.ip)
        BY <1>1 DEF Row
      <4> HIDE DEF x
      <4>3. /\ r \in Row /\ r.attempt = row.attempt /\ r.static = row.static /\ r.ip = x
            /\ r.active = FALSE /\ r.stage = row.stage /\ r.error = ""
        BY <4>1, <4>2, <1>1 DEF Row
      <4> QED
        BY <4>2, <4>3, <2>2 DEF Rewrites, Open
    <3> QED
      BY <3>1, <3>2, <3>3, <3>4, <3>5 DEF LinuxOutcomes
  <2>4. Reads(j, "whole", r) /\ JobOnly
    BY <2>1 DEF JobReads
  <2> QED
    BY <2>3, <2>4, <1>1, WholeReading DEF Wholes
<1>5. CASE ProgressReads(j)
  <2>1. PICK a \in {row.attempt, job[j].seen.attempt} : Reads(j, "whole", [row EXCEPT !.attempt = a])
    BY <1>5 DEF ProgressReads
  <2> DEFINE new == [row EXCEPT !.attempt = a]
  <2>2. a \in Nat /\ a <= drawn
    <3>1. job[j] \in Job /\ job[j].seen.attempt <= drawn
      BY DEF PowerInv, JobsOK
    <3>2. job[j].seen \in Row
      BY <3>1 DEF Job
    <3>3. job[j].seen.attempt \in Nat
      BY <3>2 DEF Row
    <3> QED
      BY <3>1, <3>3, <1>1
  <2>3. new \in Row /\ new.attempt = a /\ new.ip = row.ip /\ Rewrites(new, row)
    BY <2>2, <1>1 DEF Row, Rewrites, Open
  <2>4. Reads(j, "whole", new) /\ JobOnly
    BY <2>1, <1>5 DEF ProgressReads
  <2> HIDE DEF new
  <2> QED
    BY <2>2, <2>3, <2>4, WholeReading DEF Wholes
<1> QED
  BY <1>2, <1>3, <1>4, <1>5 DEF SettingsRead

LEMMA ColumnReadSteps ==
    ASSUME PowerInv, NEW j \in Jobs,
           \/ PowerActionReads(j) \/ ProgressBegins(j)
           \/ TimeoutReads(j) \/ LeaseReads(j) \/ PollReads(j)
    PROVE  PowerInv'
<1>1. row \in Row /\ Open(row) /\ row.attempt <= drawn
  BY DEF PowerInv, RowOK
<1>2. ASSUME NEW kind \in {"power", "target", "lease", "poll"}, NEW new \in Row,
             new.attempt = row.attempt, JobReads(j, kind, new)
      PROVE  PowerInv'
  <2>1. Decided([kind |-> kind, before |-> job[j].before, seen |-> row, new |-> new])
    BY <1>1 DEF Decided, Wholes
  <2>2. kind \in Works /\ new.attempt <= drawn /\ Reads(j, kind, new) /\ JobOnly
    BY <1>1, <1>2 DEF Works, JobReads
  <2> QED
    BY <2>1, <2>2, JobReading
<1>3. CASE PowerActionReads(j) \/ ProgressBegins(j)
  <2>1. PICK kind \in {"power", "target"} : JobReads(j, kind, row)
    BY <1>3 DEF PowerActionReads, ProgressBegins
  <2> QED
    BY <2>1, <1>1, <1>2
<1>5. CASE TimeoutReads(j)
  <2> DEFINE new == [row EXCEPT !.active = FALSE, !.result = "timeout", !.error = "timeout"]
  <2>1. /\ new \in Row /\ SameBut(new, row) /\ ~new.active /\ new.ip = row.ip
        /\ new.error = "timeout" /\ new.attempt = row.attempt
    BY <1>1 DEF Row, SameBut
  <2>2. row.active /\ Reads(j, "timeout", new) /\ JobOnly
    BY <1>5 DEF TimeoutReads, JobReads
  <2>3. Decided([kind |-> "timeout", before |-> job[j].before, seen |-> row, new |-> new])
    BY <2>1, <2>2, <1>1 DEF Decided, Wholes
  <2> HIDE DEF new
  <2>4. "timeout" \in Works /\ new.attempt <= drawn
    BY <2>1, <1>1 DEF Works
  <2> QED
    BY <2>1, <2>2, <2>3, <2>4, JobReading
<1>6. CASE LeaseReads(j)
  <2> DEFINE new == [row EXCEPT !.ip = 2]
  <2>1. new \in Row /\ new.attempt = row.attempt
    BY <1>1 DEF Row
  <2>2. JobReads(j, "lease", new)
    BY <1>6 DEF LeaseReads
  <2> HIDE DEF new
  <2> QED
    BY <2>1, <2>2, <1>2
<1>7. CASE PollReads(j)
  <2>1. PICK s \in CheckStatus(row) \ {row.power, "failed"} :
            JobReads(j, "poll", [row EXCEPT !.power = s])
    BY <1>7 DEF PollReads
  <2> DEFINE new == [row EXCEPT !.power = s]
  <2>2. s \in {"unknown", "running", "stopped"}
    BY DEF CheckStatus
  <2>3. new \in Row /\ new.attempt = row.attempt
    BY <1>1, <2>2 DEF Row
  <2>4. JobReads(j, "poll", new)
    BY <2>1
  <2> HIDE DEF new
  <2> QED
    BY <2>3, <2>4, <1>2
<1> QED
  BY <1>3, <1>5, <1>6, <1>7

(* A write that stays within the attempt of the row, leaves no new power    *)
(* error and keeps the address in step with the one chosen.                 *)
LEMMA RowMoves ==
    ASSUME PowerInv, row' \in Row, Open(row'), row'.attempt = row.attempt,
           row'.error = "power" => row.error = "power",
           row.attempt \notin trampled => (row'.static => row'.ip = address'),
           UNCHANGED <<drawn, blame, trampled>>
    PROVE  RowOK' /\ HistoryOK' /\ NoLateMark'
<1>1. RowOK'
  BY DEF PowerInv, RowOK, Open
<1>2. HistoryOK'
  BY DEF PowerInv, HistoryOK
<1>3. NoLateMark'
  BY DEF PowerInv, NoLateMark
<1> QED
  BY <1>1, <1>2, <1>3

LEMMA ClaimsKept ==
    ASSUME PowerInv, row'.attempt = row.attempt, row.stage # "new" => row'.stage # "new",
           UNCHANGED <<drawn, claims, trampled>>
    PROVE  ClaimsOK'
<1>1. claims' \in [Attempts -> SUBSET Installers]
  BY DEF PowerInv, ClaimsOK
<1>2. ASSUME NEW a \in Attempts, claims[a] # {}
      PROVE  /\ a <= drawn
             /\ row'.attempt = a => row'.stage # "new" \/ a \in trampled
             /\ (\E i \in Installers : claims[a] = {i}) \/ a \in trampled
  BY <1>2 DEF PowerInv, ClaimsOK
<1> QED
  BY <1>1, <1>2 DEF ClaimsOK

LEMMA StateWriting ==
    ASSUME PowerInv, NEW i \in Installers, StateWrites(i)
    PROVE  PowerInv'
<1> DEFINE stage == inst[i].stage
           seen_ == inst[i].seen
<1>1. /\ InstsOK /\ RowOK /\ inst[i] \in Inst /\ Checked(inst[i]) /\ inst[i].at = "posting"
      /\ UNCHANGED <<late, cycle, job, jobs, drawn, blame, address, trampled>>
  BY DEF PowerInv, InstsOK, StateWrites
<1>2. stage \in Posts /\ seen_ \in Row /\ seen_.active
  BY <1>1 DEF Checked, Inst
<1>3. JobsOK'
  BY <1>1 DEF PowerInv, JobsOK
<1>4. CASE ~Unmoved(seen_)
  <2> DEFINE back == CASE stage = "image_applied" -> "install_started"
                       [] stage = "complete" -> "image_applied"
                       [] OTHER -> "winpe"
             c == [inst[i] EXCEPT !.at = back, !.seen = NoInst.seen]
  <2>1. UNCHANGED <<row, claims>> /\ inst' = [inst EXCEPT ![i] = c]
    BY <1>4 DEF StateWrites
  <2>2. back \in {"install_started", "image_applied", "winpe"}
    OBVIOUS
  <2> HIDE DEF back
  <2>3. NoInst.seen \in Row
    BY Blanks DEF Inst
  <2>4. c \in Inst /\ c.at = back
    BY <1>1, <2>2, <2>3 DEF Inst
  <2>5. Checked(c)
    BY <2>2, <2>4 DEF Checked
  <2> HIDE DEF c
  <2>6. InstsOK'
    BY <2>1, <2>4, <2>5, <1>1, OneInst
  <2>7. RowOK' /\ ClaimsOK' /\ HistoryOK' /\ NoLateMark'
    BY <2>1, <1>1, RowKept DEF hist
  <2>8. CyclesOK'
    BY <1>1 DEF PowerInv, CyclesOK, Owned
  <2> QED
    BY <2>6, <2>7, <2>8, <1>3 DEF PowerInv
<1>5. CASE Unmoved(seen_)
  <2> DEFINE c == [inst[i] EXCEPT !.at = stage, !.seen = NoInst.seen]
  <2>1. /\ row = seen_ /\ row' = Reported(row, stage)
        /\ inst' = [inst EXCEPT ![i] = IF stage \in {"failed", "complete"} THEN NoInst ELSE c]
        /\ claims' = IF stage = "install_started"
                     THEN [claims EXCEPT ![row.attempt] = @ \cup {i}] ELSE claims
    BY <1>5 DEF StateWrites, Unmoved
  <2>2. InstsOK'
    <3>1. CASE stage \in {"failed", "complete"}
      BY <3>1, <2>1, <1>1, Blanks, OneInst
    <3>2. CASE stage \notin {"failed", "complete"}
      <4>1. stage \in {"install_started", "image_applied"}
        BY <3>2, <1>2 DEF Posts
      <4>2. NoInst.seen \in Row
        BY Blanks DEF Inst
      <4>3. c \in Inst /\ c.at = stage
        BY <1>1, <4>1, <4>2 DEF Inst
      <4>4. Checked(c)
        BY <4>1, <4>3 DEF Checked
      <4>5. inst' = [inst EXCEPT ![i] = c]
        BY <2>1, <3>2
      <4> HIDE DEF c
      <4> QED
        BY <4>3, <4>4, <4>5, <1>1, OneInst
    <3> QED
      BY <3>1, <3>2
  <2>3. /\ row' \in Row /\ Open(row') /\ row'.attempt = row.attempt /\ row'.static = row.static
        /\ row.static => row'.ip = row.ip
        /\ row'.error = "power" => row.error = "power"
        /\ row.stage # "new" => row'.stage # "new"
        /\ stage = "install_started" => row'.stage # "new"
    <3> HIDE DEF stage
    <3> QED
      BY <2>1, <1>1, <1>2, ReportedRow DEF RowOK
  <2>4. row.attempt \notin trampled => (row'.static => row'.ip = address')
    BY <2>3, <1>1 DEF PowerInv, NoLateMark
  <2>5. RowOK' /\ CyclesOK' /\ HistoryOK' /\ NoLateMark'
    <3>1. RowOK' /\ HistoryOK' /\ NoLateMark'
      BY <2>3, <2>4, <1>1, RowMoves
    <3>2. CyclesOK'
      BY <1>1 DEF PowerInv, CyclesOK, Owned
    <3> QED
      BY <3>1, <3>2
  <2>6. ClaimsOK'
    <3>1. CASE stage # "install_started"
      BY <3>1, <2>1, <2>3, <1>1, ClaimsKept
    <3>2. CASE stage = "install_started"
      <4>1. row.stage = "new" /\ row'.stage # "new" /\ row'.attempt = row.attempt
        BY <3>2, <2>1, <2>3, <1>1 DEF Checked
      <4>2. claims' = [claims EXCEPT ![row.attempt] = @ \cup {i}]
        BY <2>1, <3>2
      <4>3. ClaimsOK /\ claims \in [Attempts -> SUBSET Installers]
        BY DEF PowerInv, ClaimsOK
      <4>4. claims' \in [Attempts -> SUBSET Installers]
        BY <4>2, <4>3
      <4>5. ASSUME NEW a \in Attempts, claims'[a] # {}
            PROVE  /\ a <= drawn
                   /\ row'.attempt = a => row'.stage # "new" \/ a \in trampled
                   /\ (\E k \in Installers : claims'[a] = {k}) \/ a \in trampled
        <5>1. CASE a # row.attempt
          <6>1. claims'[a] = claims[a]
            BY <5>1, <4>2, <4>3
          <6> QED
            BY <6>1, <5>1, <4>1, <4>3, <4>5 DEF ClaimsOK
        <5>2. CASE a = row.attempt
          <6>1. claims'[a] = claims[a] \cup {i}
            BY <5>2, <4>2, <4>3
          <6>2. a <= drawn
            BY <5>2, <1>1 DEF RowOK
          <6>3. claims[a] = {} \/ a \in trampled
            BY <5>2, <4>1, <4>3 DEF ClaimsOK
          <6> QED
            BY <6>1, <6>2, <6>3, <4>1
        <5> QED
          BY <5>1, <5>2
      <4> QED
        BY <4>4, <4>5, <1>1 DEF ClaimsOK
    <3> QED
      BY <3>1, <3>2
  <2> QED
    BY <2>2, <2>5, <2>6, <1>3 DEF PowerInv
<1> QED
  BY <1>4, <1>5

(* The job is done with its write. *)
LEMMA JobEnds ==
    ASSUME PowerInv, NEW j \in Jobs, job' = [job EXCEPT ![j] = NoJob],
           drawn' \in Nat, drawn <= drawn'
    PROVE  JobsOK'
<1>1. NoJob \in Job /\ Decided(NoJob)
  BY Blanks
<1>2. NoJob.seen.attempt = 0 /\ NoJob.new.attempt = 0
  BY DEF NoJob, NewRow
<1>3. JobsOK /\ drawn \in Nat
  BY DEF PowerInv, RowOK
<1>4. NoJob.seen.attempt <= drawn' /\ NoJob.new.attempt <= drawn'
  BY <1>2, <1>3
<1> QED
  BY <1>1, <1>3, <1>4, OneJob

LEMMA ColumnWriting ==
    ASSUME PowerInv, NEW j \in Jobs, WriteColumn(j)
    PROVE  PowerInv'
<1>1. /\ job[j].kind \in {"poll", "lease", "timeout"} /\ row' = OneColumn(j)
      /\ job' = [job EXCEPT ![j] = NoJob]
      /\ UNCHANGED <<late, inst, cycle, jobs, drawn, blame, claims, address, trampled>>
  BY DEF WriteColumn, hist
<1>2. /\ job[j] \in Job /\ Decided(job[j]) /\ job[j].new \in Row /\ job[j].seen \in Row
      /\ row \in Row /\ Open(row) /\ drawn \in Nat
  BY DEF PowerInv, JobsOK, RowOK, Job
<1>3. /\ row' \in Row /\ Open(row') /\ row'.attempt = row.attempt /\ row'.stage = row.stage
      /\ row'.static = row.static /\ (row.static => row'.ip = row.ip)
      /\ row'.error = "power" => row.error = "power"
  <2>1. CASE job[j].kind = "poll"
    <3> DEFINE w == job[j].new.power
    <3>1. row' = [row EXCEPT !.power = w]
      BY <2>1, <1>1 DEF OneColumn
    <3>2. w \in {"unknown", "running", "stopped"}
      BY <1>2 DEF Row
    <3> HIDE DEF w
    <3> QED
      BY <3>1, <3>2, <1>2 DEF Row, Open
  <2>2. CASE job[j].kind = "lease"
    <3> DEFINE w == job[j].new.ip
    <3>1. CASE row.static
      BY <3>1, <2>2, <1>1, <1>2 DEF OneColumn, DynamicAddress
    <3>2. CASE ~row.static
      <4>1. row' = [row EXCEPT !.ip = w]
        BY <3>2, <2>2, <1>1 DEF OneColumn, DynamicAddress
      <4>2. w \in Nat
        BY <1>2 DEF Row
      <4> HIDE DEF w
      <4> QED
        BY <4>1, <4>2, <3>2, <1>2 DEF Row, Open
    <3> QED
      BY <3>1, <3>2
  <2>3. CASE job[j].kind = "timeout"
    <3>1. CASE row = job[j].seen
      <4>1. row' = job[j].new
        BY <3>1, <2>3, <1>1 DEF OneColumn, TimeoutApplies, Unmoved
      <4> QED
        BY <4>1, <3>1, <2>3, <1>2 DEF Decided, SameBut, Open
    <3>2. CASE row # job[j].seen
      <4>1. row' = row
        BY <3>2, <2>3, <1>1 DEF OneColumn, TimeoutApplies, Unmoved
      <4> QED
        BY <4>1, <1>2
    <3> QED
      BY <3>1, <3>2
  <2> QED
    BY <2>1, <2>2, <2>3, <1>1
<1>4. row.attempt \notin trampled => (row'.static => row'.ip = address')
  BY <1>3, <1>1 DEF PowerInv, NoLateMark
<1>5. RowOK' /\ CyclesOK' /\ HistoryOK' /\ NoLateMark'
  <2>1. RowOK' /\ HistoryOK' /\ NoLateMark'
    BY <1>1, <1>3, <1>4, RowMoves
  <2>2. CyclesOK'
    BY <1>1 DEF PowerInv, CyclesOK, Owned
  <2> QED
    BY <2>1, <2>2
<1>6. ClaimsOK'
  BY <1>1, <1>3, ClaimsKept
<1>7. InstsOK'
  BY <1>1 DEF PowerInv, InstsOK
<1>8. JobsOK'
  <2>1. drawn' \in Nat /\ drawn <= drawn'
    BY <1>1, <1>2
  <2> QED
    BY <1>1, <2>1, JobEnds
<1> QED
  BY <1>5, <1>6, <1>7, <1>8 DEF PowerInv

(* A whole row written over one that has moved on tramples all attempts     *)
(* it involves.                                                             *)
LEMMA WholeWriting ==
    ASSUME PowerInv, NEW j \in Jobs, job[j].kind \in Wholes, WriteWhole(j)
    PROVE  RowOK' /\ InstsOK' /\ JobsOK' /\ ClaimsOK' /\ HistoryOK' /\ NoLateMark'
<1> DEFINE old == job[j].seen
           new == job[j].new
<1>1. /\ row' = new /\ address' = IF job[j].kind = "network" THEN new.ip ELSE address
      /\ trampled' = IF row = old /\ new.attempt = old.attempt THEN trampled
                     ELSE trampled \cup {row.attempt, old.attempt, new.attempt}
      /\ job' = [job EXCEPT ![j] = NoJob]
      /\ UNCHANGED <<late, inst, jobs, drawn, blame, claims>>
  BY DEF WriteWhole
<1>2. /\ new \in Row /\ old \in Row /\ old.attempt <= drawn /\ new.attempt <= drawn /\ drawn \in Nat
      /\ Rewrites(new, old) /\ (job[j].kind # "network" /\ new.static => new.ip = old.ip)
  BY DEF PowerInv, JobsOK, RowOK, Job, Decided
<1> HIDE DEF old, new
<1>3. row' \in Row /\ Open(row')
  BY <1>1, <1>2 DEF Rewrites
<1>4. InstsOK'
  BY <1>1 DEF PowerInv, InstsOK
<1>5. JobsOK'
  <2>1. drawn' \in Nat /\ drawn <= drawn'
    BY <1>1, <1>2
  <2> QED
    BY <1>1, <2>1, JobEnds
<1>6. CASE row = old /\ new.attempt = old.attempt
  <2>1. /\ row'.attempt = row.attempt /\ row'.stage = row.stage
        /\ row'.error = "power" => row.error = "power"
        /\ UNCHANGED <<drawn, blame, trampled, claims>>
    BY <1>6, <1>2, <1>1 DEF Rewrites
  <2>2. row.attempt \notin trampled => (row'.static => row'.ip = address')
    <3>1. SUFFICES ASSUME row.attempt \notin trampled, row'.static PROVE row'.ip = address'
      OBVIOUS
    <3>2. row.static => row.ip = address
      BY <3>1 DEF PowerInv, NoLateMark
    <3>3. CASE job[j].kind = "network"
      BY <3>3, <1>1
    <3>4. CASE job[j].kind # "network"
      BY <3>1, <3>2, <3>4, <1>6, <1>2, <1>1 DEF Rewrites
    <3> QED
      BY <3>3, <3>4
  <2>3. RowOK' /\ HistoryOK' /\ NoLateMark'
    BY <2>1, <2>2, <1>3, RowMoves
  <2>4. ClaimsOK'
    BY <2>1, ClaimsKept
  <2> QED
    BY <2>3, <2>4, <1>4, <1>5
<1>7. CASE ~(row = old /\ new.attempt = old.attempt)
  <2>1. trampled' = trampled \cup {row.attempt, old.attempt, row'.attempt} /\ row'.attempt <= drawn
    BY <1>7, <1>1, <1>2
  <2>2. RowOK'
    BY <2>1, <1>1, <1>2, <1>3 DEF PowerInv, RowOK
  <2>3. HistoryOK'
    <3>1. /\ row.attempt \in Nat /\ row.attempt <= drawn /\ row'.attempt \in Nat
          /\ old.attempt \in Nat
      BY <2>1, <1>2, <1>3 DEF PowerInv, RowOK, Row
    <3> QED
      BY <3>1, <2>1, <1>1, <1>2 DEF PowerInv, HistoryOK
  <2>4. NoLateMark'
    BY <2>1 DEF NoLateMark
  <2>5. ClaimsOK'
    <3>1. \A a \in Attempts :
             claims[a] # {} => /\ a <= drawn
                               /\ (\E i \in Installers : claims[a] = {i}) \/ a \in trampled
      BY DEF PowerInv, ClaimsOK
    <3>2. claims \in [Attempts -> SUBSET Installers]
      BY DEF PowerInv, ClaimsOK
    <3> QED
      BY <3>1, <3>2, <2>1, <1>1 DEF ClaimsOK
  <2> QED
    BY <2>2, <2>3, <2>4, <2>5, <1>4, <1>5
<1> QED
  BY <1>6, <1>7

LEMMA RowWriting ==
    ASSUME PowerInv, NEW j \in Jobs, WriteRow(j)
    PROVE  PowerInv'
<1>1. job[j].kind \in Wholes /\ WriteWhole(j) /\ UNCHANGED <<cycle, drawn>>
  BY DEF WriteRow, Wholes, WriteWhole
<1>2. CyclesOK'
  BY <1>1 DEF PowerInv, CyclesOK, Owned
<1> QED
  BY <1>1, <1>2, WholeWriting DEF PowerInv

LEMMA RedeployCycle ==
    ASSUME CyclesOK, drawn \in Nat, drawn' \in Nat, drawn <= drawn', NEW n \in Attempts, n <= drawn',
           NEW before \in Kinds, NEW r \in Row, StartCycle(n, before, r)
    PROVE  CyclesOK'
<1>1. CASE before = "manual"
  <2>1. cycle' = cycle
    BY <1>1 DEF StartCycle
  <2> QED
    BY <2>1, CyclesKept
<1>2. CASE before # "manual"
  <2> DEFINE on == IF r.type = "manual" THEN before ELSE r.type
             f == r.windows /\ on = "wol"
             c == [NoCycle EXCEPT !.at = "check", !.type = on, !.fenced = f]
  <2>1. cycle' = [cycle EXCEPT ![n] = c]
    BY <1>2 DEF StartCycle
  <2>2. f \in BOOLEAN /\ on \in Kinds
    BY DEF Row
  <2> HIDE DEF f, on
  <2>3. c \in Cycle /\ c.at = "check"
    BY <2>2, Blanks DEF Cycle
  <2> HIDE DEF c
  <2> QED
    BY <2>1, <2>3, OneCycle
<1> QED
  BY <1>1, <1>2

LEMMA TokenWriting ==
    ASSUME PowerInv, NEW j \in Jobs, AttachToken(j)
    PROVE  PowerInv'
<1>1. /\ job[j] \in Job /\ Decided(job[j]) /\ job[j].kind = "attach" /\ CyclesOK /\ drawn \in Nat
      /\ job[j].new.attempt <= drawn
  BY DEF PowerInv, JobsOK, RowOK, AttachToken
<1>2. CASE WriteWhole(j) /\ StartCycle(job[j].new.attempt, job[j].before, job[j].new)
  <2>1. PICK n \in Attempts, before \in Kinds, r \in Row :
            n = job[j].new.attempt /\ before = job[j].before /\ r = job[j].new
    BY <1>1 DEF Decided, Job
  <2>2. StartCycle(n, before, r) /\ drawn' = drawn /\ n <= drawn' /\ drawn' \in Nat /\ drawn <= drawn'
    BY <1>1, <1>2, <2>1 DEF WriteWhole
  <2>3. CyclesOK'
    BY <2>2, <1>1, RedeployCycle
  <2>4. job[j].kind \in Wholes
    BY <1>1 DEF Wholes
  <2> QED
    BY <2>3, <2>4, <1>2, WholeWriting DEF PowerInv
<1>3. CASE job' = [job EXCEPT ![j] = NoJob] /\ UNCHANGED <<row, late, inst, cycle, jobs, drawn, hist>>
  <2>1. drawn' \in Nat /\ drawn <= drawn'
    BY <1>1, <1>3
  <2>2. JobsOK'
    BY <2>1, <1>3, JobEnds
  <2>3. RowOK' /\ ClaimsOK' /\ HistoryOK' /\ NoLateMark'
    BY <1>3, RowKept
  <2>4. InstsOK' /\ CyclesOK'
    BY <1>3 DEF PowerInv, InstsOK, CyclesOK, Owned
  <2> QED
    BY <2>2, <2>3, <2>4 DEF PowerInv
<1> QED
  BY <1>2, <1>3 DEF AttachToken

(* An operator's power action marks whatever attempt it meets, by name. *)
LEMMA PowerActionWriting ==
    ASSUME PowerInv, NEW j \in Jobs, WritePowerAction(j)
    PROVE  PowerInv'
<1>1. PICK action \in {"off", "on"}, failed \in BOOLEAN :
         /\ row' = [row EXCEPT !.action = action, !.error = IF failed THEN "power" ELSE ""]
         /\ blame' = IF failed THEN 0 ELSE blame
  BY DEF WritePowerAction
<1>2. /\ job' = [job EXCEPT ![j] = NoJob]
      /\ UNCHANGED <<late, inst, cycle, jobs, drawn, claims, address, trampled>>
  BY DEF WritePowerAction
<1>3. row \in Row /\ Open(row) /\ drawn \in Nat
  BY DEF PowerInv, RowOK
<1> DEFINE e == IF failed THEN "power" ELSE ""
<1>4. e \in {"", "power"} /\ (e = "power" => failed) /\ row' = [row EXCEPT !.action = action, !.error = e]
  BY <1>1
<1> HIDE DEF e
<1>5. /\ row' \in Row /\ Open(row') /\ row'.attempt = row.attempt /\ row'.stage = row.stage
      /\ row'.static = row.static /\ row'.ip = row.ip /\ row'.error = e
  BY <1>3, <1>4 DEF Row, Open
<1>6. RowOK' /\ HistoryOK'
  <2>1. RowOK'
    BY <1>2, <1>5 DEF PowerInv, RowOK, Open
  <2>2. blame' \in Nat /\ blame' <= drawn
    BY <1>1, <1>3 DEF PowerInv, HistoryOK
  <2> QED
    BY <2>1, <2>2, <1>2 DEF PowerInv, HistoryOK
<1>7. NoLateMark'
  <2>1. row'.error = "power" => blame' = 0
    BY <1>1, <1>4, <1>5
  <2>2. row.attempt \in trampled \/ (row.static => row.ip = address)
    BY DEF PowerInv, NoLateMark
  <2> QED
    BY <2>1, <2>2, <1>2, <1>5 DEF NoLateMark
<1>8. ClaimsOK'
  BY <1>2, <1>5, ClaimsKept
<1>9. InstsOK' /\ CyclesOK'
  BY <1>2 DEF PowerInv, InstsOK, CyclesOK, Owned
<1>10. JobsOK'
  <2>1. drawn' \in Nat /\ drawn <= drawn'
    BY <1>2, <1>3
  <2> QED
    BY <2>1, <1>2, JobEnds
<1> QED
  BY <1>6, <1>7, <1>8, <1>9, <1>10 DEF PowerInv

(* A redeploy draws an attempt nobody has claimed, with a cycle of its own. *)
LEMMA RedeployWriting ==
    ASSUME PowerInv, NEW j \in Jobs, WriteRedeploy(j)
    PROVE  PowerInv'
<1>1. /\ job[j].kind = "redeploy" /\ drawn < MaxAttempts /\ drawn' = drawn + 1
      /\ row' = [job[j].new EXCEPT !.attempt = drawn']
      /\ address' = row'.ip /\ blame' = 0
      /\ UNCHANGED <<late, inst, jobs, claims, trampled>>
  BY DEF WriteRedeploy
<1>2. /\ job[j] \in Job /\ Decided(job[j]) /\ job[j].new \in Row
      /\ drawn \in Nat /\ MaxAttempts \in Nat
  BY PCAssumption DEF PowerInv, JobsOK, RowOK, Job
<1>3. /\ job[j].new.stage = "new" /\ job[j].new.result = "" /\ job[j].new.error = ""
  BY <1>1, <1>2 DEF Decided
<1>4. drawn' \in Nat /\ drawn <= drawn' /\ drawn' \in Attempts /\ drawn' <= MaxAttempts
  BY <1>1, <1>2 DEF Attempts
<1>5. /\ row' \in Row /\ row'.attempt = drawn' /\ row'.error = "" /\ row'.result = ""
  <2> DEFINE r == job[j].new
             d == drawn'
  <2>1. r \in Row /\ d \in Nat /\ row' = [r EXCEPT !.attempt = d] /\ r.error = "" /\ r.result = ""
    BY <1>1, <1>2, <1>3, <1>4
  <2> HIDE DEF r, d
  <2>2. row' \in Row /\ row'.attempt = d /\ row'.error = "" /\ row'.result = ""
    BY <2>1 DEF Row
  <2> QED
    BY <2>2 DEF d
<1>6. RowOK'
  <2>1. PICK n \in Nat : n = drawn' /\ row'.attempt = n
    BY <1>4, <1>5
  <2>2. row'.attempt <= n
    BY <2>1
  <2>3. Open(row)'
    BY <1>5 DEF Open
  <2> QED
    BY <2>1, <2>2, <2>3, <1>4, <1>5 DEF RowOK
<1>7. InstsOK'
  BY <1>1 DEF PowerInv, InstsOK
<1>8. JobsOK' /\ CyclesOK'
  <2>1. CyclesOK /\ JobsOK
    BY DEF PowerInv
  <2>2. PICK n \in Attempts, before \in Kinds, r \in Row :
            n = drawn' /\ before = job[j].before /\ r = row'
    BY <1>2, <1>4, <1>5 DEF Job
  <2>3. CASE StartCycle(drawn', job[j].before, row') /\ job' = [job EXCEPT ![j] = NoJob]
    <3>1. JobsOK'
      BY <2>3, <1>4, JobEnds
    <3>2. StartCycle(n, before, r) /\ n <= drawn'
      BY <2>2, <2>3, <1>4
    <3>3. CyclesOK'
      BY <2>1, <3>2, <1>2, <1>4, RedeployCycle
    <3> QED
      BY <3>1, <3>3
  <2>4. CASE /\ job' = [job EXCEPT ![j].kind = "attach", ![j].seen = row', ![j].new = row']
             /\ UNCHANGED cycle
    <3> DEFINE b == [kind |-> "attach", before |-> before, seen |-> r, new |-> r]
               c == [job[j] EXCEPT !.kind = "attach", !.seen = r, !.new = r]
    <3>1. c = b /\ b \in Job
      <4>1. "attach" \in Works /\ job[j] \in Job
        BY <1>2 DEF Works, Wholes
      <4>2. b \in Job
        BY <4>1 DEF Job
      <4>3. c = [kind |-> "attach", before |-> job[j].before, seen |-> r, new |-> r]
        BY <4>1, JobFields
      <4> QED
        BY <4>2, <4>3, <2>2
    <3>2. job' = [job EXCEPT ![j] = c]
      BY <2>2, <2>4
    <3>3. r.attempt = n /\ Open(r)
      BY <2>2, <1>5 DEF Open
    <3>4. Decided(b)
      BY <3>3 DEF Decided, Rewrites
    <3>5. b.seen.attempt <= drawn' /\ b.new.attempt <= drawn'
      BY <3>3, <2>2, <1>4
    <3>6. job' = [job EXCEPT ![j] = b]
      BY <3>1, <3>2
    <3> HIDE DEF b
    <3>7. JobsOK'
      BY <3>1, <3>4, <3>5, <3>6, <2>1, <1>2, <1>4, OneJob
    <3>8. CyclesOK'
      BY <2>1, <2>4, <1>2, <1>4, CyclesKept
    <3> QED
      BY <3>7, <3>8
  <2> QED
    BY <2>3, <2>4 DEF WriteRedeploy
<1>10. ClaimsOK'
  <2>1. claims' \in [Attempts -> SUBSET Installers]
    BY <1>1 DEF PowerInv, ClaimsOK
  <2>2. ASSUME NEW a \in Attempts, claims[a] # {}
        PROVE  /\ a <= drawn' /\ row'.attempt # a
               /\ (\E i \in Installers : claims[a] = {i}) \/ a \in trampled
    <3>1. a <= drawn /\ ((\E i \in Installers : claims[a] = {i}) \/ a \in trampled)
      BY <2>2 DEF PowerInv, ClaimsOK
    <3>2. a \in Nat
      BY <1>2 DEF Attempts
    <3>3. row'.attempt = drawn + 1 /\ drawn' = drawn + 1
      BY <1>1, <1>5
    <3>4. a <= drawn' /\ row'.attempt # a
      BY <3>1, <3>2, <3>3, <1>2
    <3> QED
      BY <3>1, <3>4
  <2> QED
    BY <2>1, <2>2, <1>1 DEF ClaimsOK
<1>11. HistoryOK'
  BY <1>1, <1>2, <1>4 DEF PowerInv, HistoryOK
<1>12. NoLateMark'
  BY <1>1, <1>5 DEF NoLateMark
<1> QED
  BY <1>6, <1>7, <1>8, <1>10, <1>11, <1>12 DEF PowerInv

(* A cycle moves on without a row to swap. *)
CycleMoves(a) ==
    /\ cycle' \in [Attempts -> Cycle]
    /\ \A b \in Attempts : cycle'[b].fenced = cycle[b].fenced /\ (b # a => cycle'[b] = cycle[b])
    /\ cycle'[a].at # "swap"

LEMMA GoesMoves ==
    ASSUME CyclesOK, NEW a \in Attempts, NEW at \in {"off", "settle", "on", "wait", "end"},
           Goes(a, at)
    PROVE  CycleMoves(a)
<1> DEFINE c == [cycle[a] EXCEPT !.at = at]
<1>1. cycle \in [Attempts -> Cycle] /\ cycle[a] \in Cycle
  BY DEF CyclesOK
<1>2. cycle' = [cycle EXCEPT ![a] = c]
  BY DEF Goes
<1>3. c \in Cycle /\ c.fenced = cycle[a].fenced /\ c.at = at
  BY <1>1 DEF Cycle
<1> HIDE DEF c
<1>4. cycle' \in [Attempts -> Cycle] /\ \A b \in Attempts : cycle'[b] = IF b = a THEN c ELSE cycle[b]
  BY <1>1, <1>2, <1>3
<1> QED
  BY <1>3, <1>4 DEF CycleMoves

LEMMA RecordsMoves ==
    ASSUME CyclesOK, NEW a \in Attempts, NEW action \in {"off", "on"}, NEW failed \in BOOLEAN,
           NEW then \in {"settle", "end"}, Records(a, action, failed, then)
    PROVE  CycleMoves(a)
<1> DEFINE c == [cycle[a] EXCEPT !.at = "record", !.action = action, !.failed = failed,
                                 !.then = then, !.tries = 0]
<1>1. cycle \in [Attempts -> Cycle] /\ cycle[a] \in Cycle
  BY DEF CyclesOK
<1>2. cycle' = [cycle EXCEPT ![a] = c]
  BY DEF Records
<1>3. c \in Cycle /\ c.fenced = cycle[a].fenced /\ c.at = "record"
  BY <1>1 DEF Cycle
<1> HIDE DEF c
<1>4. cycle' \in [Attempts -> Cycle] /\ \A b \in Attempts : cycle'[b] = IF b = a THEN c ELSE cycle[b]
  BY <1>1, <1>2, <1>3
<1> QED
  BY <1>3, <1>4 DEF CycleMoves

LEMMA MovesOwned ==
    ASSUME CyclesOK, NEW a \in Attempts, cycle[a].at # "none", CycleMoves(a), drawn' = drawn
    PROVE  CyclesOK'
<1>1. ASSUME NEW b \in Attempts PROVE Owned(b, cycle[b])'
  <2>1. CASE b = a
    BY <2>1 DEF CycleMoves, CyclesOK, Owned
  <2>2. CASE b # a
    BY <2>2 DEF CycleMoves, CyclesOK, Owned
  <2> QED
    BY <2>1, <2>2
<1> QED
  BY <1>1 DEF CyclesOK, CycleMoves

LEMMA CycleOnlySteps ==
    ASSUME PowerInv, NEW a \in Attempts,
           CycleCheck(a) \/ CycleOff(a) \/ CycleSettles(a) \/ CycleOn(a) \/ CycleWaits(a)
               \/ RecordReads(a)
    PROVE  PowerInv'
<1>1. CyclesOK /\ RowOK /\ cycle \in [Attempts -> Cycle] /\ cycle[a] \in Cycle
  BY DEF PowerInv, CyclesOK
<1>2. CycleOnly
  BY DEF CycleCheck, CycleOff, CycleSettles, CycleOn, CycleWaits, RecordReads
<1>3. cycle[a].at # "none"
  BY DEF CycleCheck, CycleOff, CycleSettles, CycleOn, CycleWaits, RecordReads
<1>4. CyclesOK' /\ \A b \in Attempts : cycle'[b].fenced = cycle[b].fenced
  <2>1. ASSUME CycleMoves(a) PROVE CyclesOK' /\ \A b \in Attempts : cycle'[b].fenced = cycle[b].fenced
    BY <2>1, <1>1, <1>2, <1>3, MovesOwned DEF CycleMoves, CycleOnly
  <2>2. CASE CycleCheck(a)
    <3>1. PICK at \in {"end", "off"} : Goes(a, at)
      BY <2>2 DEF CycleCheck
    <3> QED
      BY <3>1, <2>1, <1>1, GoesMoves
  <2>3. CASE CycleOff(a)
    <3>1. Records(a, "off", FALSE, "settle") \/ Records(a, "off", TRUE, "end")
      BY <2>3 DEF CycleOff
    <3> QED
      BY <3>1, <2>1, <1>1, RecordsMoves
  <2>4. CASE CycleSettles(a)
    <3>1. Goes(a, "on") \/ Records(a, "off", TRUE, "end")
      BY <2>4 DEF CycleSettles
    <3> QED
      BY <3>1, <2>1, <1>1, RecordsMoves, GoesMoves
  <2>5. CASE CycleOn(a)
    <3>1. Goes(a, "wait") \/ Records(a, "on", TRUE, "end") \/ Records(a, "on", FALSE, "end")
      BY <2>5 DEF CycleOn
    <3> QED
      BY <3>1, <2>1, <1>1, RecordsMoves, GoesMoves
  <2>6. CASE CycleWaits(a)
    <3>1. PICK f \in BOOLEAN : Goes(a, "on") \/ Records(a, "on", f, "end")
      <4>1. (cycle[a].fenced /\ Gone(a)) \in BOOLEAN
        OBVIOUS
      <4> QED
        BY <4>1, <2>6 DEF CycleWaits
    <3> QED
      BY <3>1, <2>1, <1>1, RecordsMoves, GoesMoves
  <2>7. CASE RecordReads(a)
    <3>1. CASE Goes(a, cycle[a].then)
      <4>1. PICK at \in {"settle", "end"} : at = cycle[a].then
        BY <1>1 DEF Cycle
      <4> QED
        BY <3>1, <4>1, <2>1, <1>1, GoesMoves
    <3>2. CASE ~Goes(a, cycle[a].then)
      <4> DEFINE c == [cycle[a] EXCEPT !.at = "swap", !.seen = row]
      <4>1. Fence(row, a) /\ cycle' = [cycle EXCEPT ![a] = c]
        BY <3>2, <2>7 DEF RecordReads
      <4>2. c \in Cycle /\ c.at = "swap" /\ c.seen = row /\ c.fenced = cycle[a].fenced
        BY <1>1 DEF Cycle, RowOK
      <4>3. c.seen.attempt = a /\ a <= drawn /\ drawn' = drawn /\ drawn \in Nat
        BY <4>1, <4>2, <1>1, <1>2 DEF Fence, RowOK, CycleOnly
      <4> HIDE DEF c
      <4>4. \A b \in Attempts : cycle'[b] = IF b = a THEN c ELSE cycle[b]
        BY <4>1, <1>1
      <4>5. a <= drawn' /\ drawn' \in Nat /\ drawn <= drawn'
        BY <4>3
      <4>6. CyclesOK'
        BY <4>1, <4>2, <4>3, <4>5, <1>1, OneCycle
      <4> QED
        BY <4>2, <4>4, <4>6
    <3> QED
      BY <3>1, <3>2
  <2> QED
    BY <2>2, <2>3, <2>4, <2>5, <2>6, <2>7
<1>5. RowOK' /\ ClaimsOK' /\ HistoryOK' /\ NoLateMark'
  BY <1>2, <1>4, RowKept DEF CycleOnly
<1>6. InstsOK' /\ JobsOK'
  BY <1>2 DEF PowerInv, InstsOK, JobsOK, CycleOnly
<1> QED
  BY <1>4, <1>5, <1>6 DEF PowerInv

(* What a cycle notes on the row it meets. *)
LEMMA NotedRow ==
    ASSUME NEW r \in Row, NEW c \in Cycle
    PROVE  /\ Noted(r, c) \in Row /\ (Open(r) => Open(Noted(r, c)))
           /\ Noted(r, c).attempt = r.attempt /\ Noted(r, c).stage = r.stage
           /\ Noted(r, c).static = r.static /\ Noted(r, c).ip = r.ip
           /\ Noted(r, c).result = r.result
           /\ ~c.failed => Noted(r, c).error = r.error
<1> DEFINE e == IF c.failed THEN "power" ELSE r.error
           y == [r EXCEPT !.action = c.action, !.error = e]
<1>1. Noted(r, c) = y
  BY DEF Noted
<1>2. e \in {"", "installer", "timeout", "power"} /\ (~c.failed => e = r.error)
  BY DEF Row
<1> HIDE DEF e
<1>3. c.action \in {"", "off", "on"}
  BY DEF Cycle
<1>4. y \in Row
  BY <1>2, <1>3 DEF Row
<1>5. /\ y.attempt = r.attempt /\ y.stage = r.stage /\ y.static = r.static /\ y.ip = r.ip
      /\ y.active = r.active /\ y.result = r.result /\ y.error = e
  BY DEF Row
<1> HIDE DEF y
<1> QED
  BY <1>1, <1>2, <1>4, <1>5 DEF Open

(* The note of cycle a is in order when it is written by name or on the     *)
(* row of its own attempt.                                                  *)
LEMMA Noting ==
    ASSUME PowerInv, NEW a \in Attempts, cycle[a].at # "none", CycleMoves(a),
           row' = Noted(row, cycle[a]),
           cycle[a].failed => blame' \in {0, row.attempt}, ~cycle[a].failed => blame' = blame,
           UNCHANGED <<late, inst, job, jobs, drawn, claims, address, trampled>>
    PROVE  PowerInv'
<1>1. /\ row \in Row /\ Open(row) /\ cycle[a] \in Cycle /\ CyclesOK /\ drawn \in Nat
      /\ row.attempt <= drawn /\ row.attempt \in Nat
  BY DEF PowerInv, RowOK, CyclesOK, Row
<1>2. /\ row' \in Row /\ Open(row') /\ row'.attempt = row.attempt /\ row'.stage = row.stage
      /\ row'.static = row.static /\ row'.ip = row.ip
      /\ ~cycle[a].failed => row'.error = row.error
  BY <1>1, NotedRow
<1>3. RowOK'
  BY <1>2 DEF PowerInv, RowOK, Open
<1>4. CyclesOK'
  BY <1>1, MovesOwned
<1>5. ClaimsOK'
  BY <1>2, ClaimsKept
<1>6. InstsOK' /\ JobsOK'
  BY DEF PowerInv, InstsOK, JobsOK
<1>7. HistoryOK'
  BY <1>1 DEF PowerInv, HistoryOK
<1>8. NoLateMark'
  <2>1. SUFFICES ASSUME row.attempt \notin trampled
                 PROVE  /\ row'.error = "power" => blame' \in {0, row'.attempt}
                        /\ row'.static => row'.ip = address'
    BY <1>2 DEF NoLateMark
  <2>2. /\ row.error = "power" => blame \in {0, row.attempt}
        /\ row.static => row.ip = address
    BY <2>1 DEF PowerInv, NoLateMark
  <2> QED
    BY <2>2, <1>2
<1> QED
  BY <1>3, <1>4, <1>5, <1>6, <1>7, <1>8 DEF PowerInv

LEMMA RecordSteps ==
    ASSUME PowerInv, NEW a \in Attempts, RecordPlain(a) \/ RecordSwaps(a)
    PROVE  PowerInv'
<1>1. CyclesOK /\ cycle \in [Attempts -> Cycle] /\ cycle[a] \in Cycle /\ Owned(a, cycle[a])
  BY DEF PowerInv, CyclesOK
<1>2. CASE RecordPlain(a)
  <2>1. PICK at \in {"settle", "end"} : at = cycle[a].then
    BY <1>1 DEF Cycle
  <2>2. CycleMoves(a)
    BY <1>2, <2>1, <1>1, GoesMoves DEF RecordPlain
  <2>3. /\ cycle[a].at # "none" /\ (cycle[a].failed => blame' \in {0, row.attempt})
        /\ ~cycle[a].failed => blame' = blame
    BY <1>2 DEF RecordPlain
  <2> QED
    BY <1>2, <2>2, <2>3, Noting DEF RecordPlain
<1>3. CASE RecordSwaps(a) /\ Unmoved(cycle[a].seen)
  <2> DEFINE c == [cycle[a] EXCEPT !.at = cycle[a].then, !.seen = NoCycle.seen]
  <2>1. cycle' = [cycle EXCEPT ![a] = c] /\ cycle[a].at = "swap" /\ row = cycle[a].seen
    BY <1>3 DEF RecordSwaps, Unmoved
  <2>2. cycle[a].then \in {"settle", "end"} /\ NoCycle.seen \in Row
    BY <1>1, Blanks DEF Cycle
  <2>3. c \in Cycle /\ c.at # "swap" /\ c.fenced = cycle[a].fenced
    BY <1>1, <2>2 DEF Cycle
  <2> HIDE DEF c
  <2>4. cycle' \in [Attempts -> Cycle] /\ \A b \in Attempts : cycle'[b] = IF b = a THEN c ELSE cycle[b]
    BY <2>1, <2>3, <1>1
  <2>5. CycleMoves(a)
    BY <2>3, <2>4 DEF CycleMoves
  <2>6. row.attempt = a
    BY <2>1, <1>1 DEF Owned
  <2>7. /\ cycle[a].at # "none" /\ (cycle[a].failed => blame' \in {0, row.attempt})
        /\ ~cycle[a].failed => blame' = blame
    BY <1>3, <2>1, <2>6 DEF RecordSwaps
  <2> QED
    BY <1>3, <2>5, <2>7, Noting DEF RecordSwaps
<1>4. CASE RecordSwaps(a) /\ ~Unmoved(cycle[a].seen)
  <2> DEFINE c == [cycle[a] EXCEPT !.at = "record", !.tries = @ + 1, !.seen = NoCycle.seen]
  <2>1. /\ cycle' = [cycle EXCEPT ![a] = c] /\ cycle[a].at = "swap"
        /\ UNCHANGED <<row, blame, late, inst, job, jobs, drawn, claims, address, trampled>>
    BY <1>4 DEF RecordSwaps
  <2>2. cycle[a].tries + 1 \in Nat /\ NoCycle.seen \in Row
    <3>1. NoCycle.seen \in Row
      BY Blanks DEF Cycle
    <3>2. cycle[a].tries \in Nat
      BY <1>1 DEF Cycle
    <3> QED
      BY <3>1, <3>2
  <2>3. c \in Cycle /\ c.at = "record" /\ c.fenced = cycle[a].fenced
    BY <1>1, <2>2 DEF Cycle
  <2> HIDE DEF c
  <2>4. cycle' \in [Attempts -> Cycle] /\ \A b \in Attempts : cycle'[b] = IF b = a THEN c ELSE cycle[b]
    BY <2>1, <2>3, <1>1
  <2>5. CycleMoves(a)
    BY <2>3, <2>4 DEF CycleMoves
  <2>6. CyclesOK'
    BY <2>1, <2>5, <1>1, MovesOwned
  <2>7. RowOK' /\ ClaimsOK' /\ HistoryOK' /\ NoLateMark'
    BY <2>1, <2>5, RowKept DEF CycleMoves, hist
  <2>8. InstsOK' /\ JobsOK'
    BY <2>1 DEF PowerInv, InstsOK, JobsOK
  <2> QED
    BY <2>6, <2>7, <2>8 DEF PowerInv
<1> QED
  BY <1>2, <1>3, <1>4

LEMMA PowerSteps ==
    ASSUME PowerInv, [PCNext]_pcVars
    PROVE  PowerInv'
<1>1. CASE DeadlinePasses \/ UNCHANGED pcVars
  <2>1. UNCHANGED <<row, inst, cycle, job, drawn, hist>>
    BY <1>1 DEF DeadlinePasses, pcVars, hist
  <2>2. RowOK' /\ ClaimsOK' /\ HistoryOK' /\ NoLateMark'
    BY <2>1, RowKept
  <2>3. InstsOK' /\ JobsOK' /\ CyclesOK'
    BY <2>1 DEF PowerInv, InstsOK, JobsOK, CyclesOK, Owned
  <2> QED
    BY <2>2, <2>3 DEF PowerInv
<1>2. ASSUME NEW i \in Installers,
             BootInstaller(i) \/ StateReads(i) \/ StateWrites(i) \/ ResetInstaller(i)
      PROVE  PowerInv'
  BY <1>2, InstSteps, StateWriting
<1>3. ASSUME NEW j \in Jobs,
             \/ RedeployBegins(j) \/ \E w \in BOOLEAN, t \in PowerTypes : RedeployReads(j, w, t)
             \/ SettingsRead(j) \/ PowerActionReads(j) \/ LinuxReads(j)
             \/ ProgressBegins(j) \/ ProgressReads(j)
             \/ TimeoutReads(j) \/ LeaseReads(j) \/ PollReads(j)
      PROVE  PowerInv'
  BY <1>3, RedeployReading, WholeReadSteps, ColumnReadSteps
<1>4. ASSUME NEW j \in Jobs,
             \/ WriteRedeploy(j) \/ AttachToken(j) \/ WriteRow(j)
             \/ WritePowerAction(j) \/ WriteColumn(j)
      PROVE  PowerInv'
  BY <1>4, RedeployWriting, TokenWriting, RowWriting, PowerActionWriting, ColumnWriting
<1>5. ASSUME NEW a \in Attempts, CycleStep(a) PROVE PowerInv'
  BY <1>5, CycleOnlySteps, RecordSteps DEF CycleStep
<1> QED
  BY <1>1, <1>2, <1>3, <1>4, <1>5 DEF PCNext

LEMMA PowerInvariant == PCSpec => []PowerInv
<1>1. PCInit => PowerInv
  <2>1. SUFFICES ASSUME PCInit PROVE PowerInv
    OBVIOUS
  <2>2. PICK t \in PowerTypes : row = NewRow(t)
    BY <2>1 DEF PCInit
  <2>3. /\ row \in Row /\ Open(row) /\ row.attempt = 0 /\ row.error = "" /\ row.static = FALSE
    BY <2>2, PCAssumption DEF NewRow, Row, Open, Kinds
  <2>4. RowOK
    <3>1. drawn = 0 /\ MaxAttempts \in Nat
      BY <2>1, PCAssumption DEF PCInit
    <3>2. drawn \in Nat /\ drawn <= MaxAttempts
      BY <3>1
    <3>3. row.attempt = drawn
      BY <3>1, <2>3
    <3>4. row.attempt <= drawn
      BY <3>2, <3>3
    <3> QED
      BY <3>2, <3>4, <2>3 DEF RowOK
  <2>5. InstsOK
    BY <2>1, Blanks DEF PCInit, InstsOK
  <2>6. CyclesOK
    BY <2>1, Blanks DEF PCInit, CyclesOK, Owned
  <2>7. JobsOK
    <3>1. NoJob.seen.attempt = 0 /\ NoJob.new.attempt = 0 /\ drawn = 0
      BY <2>1 DEF NoJob, NewRow, PCInit
    <3> QED
      BY <3>1, <2>1, Blanks DEF PCInit, JobsOK
  <2>8. ClaimsOK /\ HistoryOK
    BY <2>1 DEF PCInit, ClaimsOK, HistoryOK
  <2>9. NoLateMark
    BY <2>3 DEF NoLateMark
  <2> QED
    BY <2>4, <2>5, <2>6, <2>7, <2>8, <2>9 DEF PowerInv
<1>2. PowerInv /\ [PCNext]_pcVars => PowerInv'
  BY PowerSteps
<1> QED
  BY <1>1, <1>2, PTL DEF PCSpec

(* PXEWindowsState lets one boot of the installer claim the disk in an      *)
(* attempt, with any number of boots, resets, redeploys and loops: the      *)
(* claim swaps the row it read, which was not claimed, and no write but a   *)
(* stale one of a whole row takes a claimed row back.                       *)
THEOREM DiskIsClaimedOnce == PCSpec => []DiskClaimedOnce
<1>1. PowerInv => DiskClaimedOnce
  <2>1. SUFFICES ASSUME PowerInv, NEW a \in Attempts, a \notin trampled
                 PROVE  Cardinality(claims[a]) <= 1
    BY DEF DiskClaimedOnce
  <2>2. CASE claims[a] = {}
    BY <2>2, FS_EmptySet
  <2>3. CASE claims[a] # {}
    <3>1. PICK i \in Installers : claims[a] = {i}
      BY <2>1, <2>3 DEF PowerInv, ClaimsOK
    <3>2. Cardinality(claims[a]) = 1
      BY <3>1, FS_Singleton
    <3> QED
      BY <3>2
  <2> QED
    BY <2>2, <2>3
<1> QED
  BY <1>1, PowerInvariant, PTL

(* The fence of recordWindowsRedeployPowerAction and the WHERE clause of    *)
(* UpdateDynamicIPAddress hold for any number of overlapping redeploys,     *)
(* power actions and whole-row writers: a power error that was not written  *)
(* by name is of the current attempt, and a static address is the one the   *)
(* last redeploy or network update wrote, on every attempt that no stale    *)
(* whole-row write has trampled on.                                         *)
THEOREM LateWritersLeaveNoMark == PCSpec => []NoLateMark
<1>1. PowerInv => NoLateMark
  BY DEF PowerInv
<1> QED
  BY <1>1, PowerInvariant, PTL

(* An attempt that completed or failed keeps its result whatever comes      *)
(* late: PXEWindowsState and the timeout pass of syncWindowsProvisioning-   *)
(* State change the result of a running attempt only, because they swap the *)
(* row they checked; a stale whole-row write is what can change it.         *)
THEOREM ResultsStay == PCSpec => SettledStays
<1> DEFINE Stays == \/ row'.attempt # row.attempt \/ row.result = "" \/ row'.result = row.result
                    \/ row.attempt \in trampled'
<1>1. ASSUME PowerInv, PCNext PROVE Stays
  <2>0. RowOK /\ row \in Row /\ Open(row) /\ drawn \in Nat
    BY <1>1 DEF PowerInv, RowOK
  <2>1. ASSUME row' = row PROVE Stays
    BY <2>1
  <2>2. ASSUME NEW i \in Installers, StateWrites(i) PROVE Stays
    <3>1. CASE ~Unmoved(inst[i].seen)
      BY <3>1, <2>2, <2>1 DEF StateWrites
    <3>2. CASE Unmoved(inst[i].seen)
      <4>1. row = inst[i].seen /\ inst[i].at = "posting" /\ Checked(inst[i])
        BY <3>2, <2>2, <1>1 DEF StateWrites, Unmoved, PowerInv, InstsOK
      <4> QED
        BY <4>1, <2>0 DEF Checked, Open
    <3> QED
      BY <3>1, <3>2
  <2>3. ASSUME NEW j \in Jobs, WriteRedeploy(j) PROVE Stays
    <3> DEFINE r == job[j].new
               d == drawn'
    <3>1. row' = [r EXCEPT !.attempt = d] /\ d = drawn + 1 /\ r \in Row
      BY <2>3, <1>1 DEF WriteRedeploy, PowerInv, JobsOK, Job
    <3> HIDE DEF r, d
    <3>2. row'.attempt = d
      BY <3>1 DEF Row
    <3>3. row.attempt <= drawn /\ row.attempt \in Nat
      BY <2>0 DEF RowOK, Row
    <3>4. d # row.attempt
      BY <3>1, <3>3, <2>0
    <3> QED
      BY <3>2, <3>4
  <2>4. ASSUME NEW j \in Jobs, job[j].kind \in Wholes, WriteWhole(j) PROVE Stays
    <3>1. CASE row = job[j].seen /\ job[j].new.attempt = job[j].seen.attempt
      <4>1. Rewrites(job[j].new, job[j].seen) /\ row' = job[j].new
        BY <2>4, <1>1 DEF WriteWhole, PowerInv, JobsOK, Decided
      <4> QED
        BY <3>1, <4>1 DEF Rewrites
    <3>2. CASE ~(row = job[j].seen /\ job[j].new.attempt = job[j].seen.attempt)
      BY <3>2, <2>4 DEF WriteWhole
    <3> QED
      BY <3>1, <3>2
  <2>11. ASSUME NEW j \in Jobs, WriteRow(j) \/ AttachToken(j) PROVE Stays
    <3>1. CASE WriteWhole(j)
      <4>1. job[j].kind \in Wholes
        BY <2>11 DEF WriteRow, AttachToken, Wholes
      <4> QED
        BY <3>1, <4>1, <2>4
    <3>2. CASE ~WriteWhole(j)
      BY <3>2, <2>11, <2>1 DEF WriteRow, AttachToken
    <3> QED
      BY <3>1, <3>2
  <2>12. ASSUME NEW j \in Jobs, WritePowerAction(j) PROVE Stays
    <3>1. PICK x, e : row' = [row EXCEPT !.action = x, !.error = e]
      BY <2>12 DEF WritePowerAction
    <3>2. row'.result = row.result
      BY <3>1, <2>0 DEF Row
    <3> QED
      BY <3>2
  <2>5. ASSUME NEW j \in Jobs, WriteColumn(j) PROVE Stays
    <3>1. row' = OneColumn(j) /\ job[j].kind \in {"poll", "lease", "timeout"} /\ Decided(job[j])
      BY <2>5, <1>1 DEF WriteColumn, PowerInv, JobsOK
    <3>2. CASE job[j].kind = "poll"
      BY <3>1, <3>2, <2>0 DEF OneColumn, Row
    <3>3. CASE job[j].kind = "lease"
      BY <3>1, <3>3, <2>0 DEF OneColumn, Row
    <3>4. CASE job[j].kind = "timeout"
      <4>1. CASE row = job[j].seen
        BY <4>1, <3>4, <3>1, <2>0 DEF Decided, Open
      <4>2. CASE row # job[j].seen
        <5>1. row' = row
          BY <4>2, <3>4, <3>1 DEF OneColumn, TimeoutApplies, Unmoved
        <5> QED
          BY <5>1
      <4> QED
        BY <4>1, <4>2
    <3> QED
      BY <3>1, <3>2, <3>3, <3>4
  <2>6. ASSUME NEW a \in Attempts, RecordPlain(a) \/ RecordSwaps(a) PROVE Stays
    <3>1. row' = row \/ row' = Noted(row, cycle[a])
      BY <2>6 DEF RecordPlain, RecordSwaps
    <3>2. cycle[a] \in Cycle
      BY <1>1 DEF PowerInv, CyclesOK
    <3>3. Noted(row, cycle[a]).result = row.result
      BY <3>2, <2>0, NotedRow
    <3>4. row'.result = row.result
      BY <3>1, <3>3
    <3> QED
      BY <3>4
  <2>7. ASSUME NEW i \in Installers, BootInstaller(i) \/ StateReads(i) \/ ResetInstaller(i)
        PROVE  Stays
    BY <2>7, <2>1 DEF BootInstaller, StateReads, ResetInstaller
  <2>8. ASSUME NEW j \in Jobs,
               \/ RedeployBegins(j) \/ \E w \in BOOLEAN, t \in PowerTypes : RedeployReads(j, w, t)
               \/ SettingsRead(j) \/ PowerActionReads(j) \/ LinuxReads(j)
               \/ ProgressBegins(j) \/ ProgressReads(j)
               \/ TimeoutReads(j) \/ LeaseReads(j) \/ PollReads(j)
        PROVE  Stays
    <3>1. JobOnly
      BY <2>8 DEF RedeployBegins, RedeployReads, SettingsRead, PowerActionReads, LinuxReads,
                  ProgressBegins, ProgressReads, TimeoutReads, LeaseReads, PollReads, JobReads
    <3> QED
      BY <3>1, <2>1 DEF JobOnly
  <2>9. ASSUME NEW a \in Attempts,
               CycleCheck(a) \/ CycleOff(a) \/ CycleSettles(a) \/ CycleOn(a) \/ CycleWaits(a)
                   \/ RecordReads(a)
        PROVE  Stays
    BY <2>9, <2>1 DEF CycleCheck, CycleOff, CycleSettles, CycleOn, CycleWaits, RecordReads, CycleOnly
  <2>10. ASSUME DeadlinePasses PROVE Stays
    BY <2>10, <2>1 DEF DeadlinePasses
  <2> HIDE DEF Stays
  <2> QED
    BY <1>1, <2>2, <2>3, <2>4, <2>5, <2>6, <2>7, <2>8, <2>9, <2>10, <2>11, <2>12
       DEF PCNext, CycleStep
<1>2. PowerInv /\ [PCNext]_pcVars => [Stays]_pcVars
  BY <1>1
<1> QED
  BY <1>2, PowerInvariant, PTL DEF PCSpec, SettledStays
=============================================================================
