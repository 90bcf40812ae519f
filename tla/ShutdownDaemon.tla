--------------------------- MODULE ShutdownDaemon ---------------------------
(***************************************************************************)
(* Power off and on over the network: the sender in src/internal/power/    *)
(* executor.go, the daemon of src/cmd/wol-daemon that runs on a machine    *)
(* and shuts it down, its packet check and replay cache in power/          *)
(* shutdown.go and shutdown_replay.go, and the events it posts back.       *)
(*                                                                         *)
(* A packet on the wire may be lost, late and repeated: it stays in the    *)
(* network for ever and arrives any number of times.  The daemon's wall    *)
(* clock is off by skew, and a step of it (time synchronisation) does not  *)
(* move the monotonic clock that the replay cache measures with.  A packet *)
(* carries the whole seconds of its time, the daemon compares exact times  *)
(* and reads its clock twice, for the window and for the cache.            *)
(***************************************************************************)
EXTENDS Integers, FiniteSets

CONSTANTS
    Sec,          \* a second, in ticks
    TTL,          \* the acceptance window of the daemon, in ticks
    Skews,        \* offsets of the daemon's wall clock
    MaxClock,     \* bound on the clock
    MaxPackets,   \* bound on the shutdown requests
    MaxRuns,      \* bound on starts of the daemon
    MaxSteps      \* bound on steps of the wall clock

ASSUME SDAssumption ==
    /\ Sec \in Nat \ {0}
    /\ TTL \in Nat
    /\ Skews \subseteq Int
    /\ MaxPackets \in Nat

VARIABLES
    clock,        \* time; the server's clock, and the monotonic one
    skew,         \* the daemon's wall clock minus clock
    wire,         \* shutdown packets sent: [nonce, ts, key], and when
    key,          \* the secret and token in the machine's settings
    host,         \* "off" or "on"
    daemon,       \* "down", "listening" or "command"
    checked,      \* the packet that has passed the window, not yet the cache
    handling,     \* the packet the daemon runs the command for
    seen,         \* ShutdownReplayCache.seen: [nonce, at]
    audit,        \* wol-power-event rows: [nonce, stage]
    runs, steps,  \* starts of the daemon, steps of its wall clock
    held,         \* time passed between its two looks at the clock (history)
    ran,          \* per packet, shutdowns by the present daemon    (history)
    unheard       \* packets refused that came at once to a node    (history)
                  \* whose clock is no more than TTL behind or TTL
                  \* less a second ahead

sdVars == <<clock, skew, wire, key, host, daemon, checked, handling, seen, audit, runs, steps,
            held, ran, unheard>>

(* The secret the daemon was installed with. *)
InstalledKey == 1
Nonces == 1..MaxPackets
NoPacket == [nonce |-> 0, ts |-> 0, key |-> 0, sent |-> 0]

SDInit ==
    /\ clock = 0 /\ skew \in Skews
    /\ wire = {} /\ key = InstalledKey
    /\ host = "on" /\ daemon = "listening" /\ checked = NoPacket /\ handling = NoPacket
    /\ seen = {} /\ audit = {} /\ runs = 1 /\ steps = 0 /\ held = FALSE
    /\ ran = [n \in Nonces |-> 0] /\ unheard = {}

Tick ==
    /\ clock < MaxClock
    /\ clock' = clock + 1
    /\ held' = (held \/ checked # NoPacket)
    /\ UNCHANGED <<skew, wire, key, host, daemon, checked, handling, seen, audit, runs, steps, ran, unheard>>
ClockStep ==
    /\ steps < MaxSteps
    /\ skew' \in Skews \ {skew}
    /\ steps' = steps + 1
    /\ UNCHANGED <<clock, wire, key, host, daemon, checked, handling, seen, audit, runs, held, ran, unheard>>
(* The settings of the machine get another secret. *)
ChangeKey ==
    /\ key' \in {1, 2} \ {key}
    /\ UNCHANGED <<clock, skew, wire, host, daemon, checked, handling, seen, audit, runs, steps, held, ran, unheard>>

-----------------------------------------------------------------------------
(* now.Unix(): what is left of a time in whole seconds. *)
Unix(t) == t - (t % Sec)
(* executeWoL, power off: a packet with the time and a new nonce. *)
SendShutdown ==
    /\ Cardinality(wire) < MaxPackets
    /\ wire' = wire \cup {[nonce |-> Cardinality(wire) + 1, ts |-> Unix(clock), key |-> key,
                           sent |-> clock]}
    /\ UNCHANGED <<clock, skew, key, host, daemon, checked, handling, seen, audit, runs, steps, held, ran, unheard>>

(* A daemon starts with the machine, and again after it failed. *)
DaemonStarts ==
    /\ runs < MaxRuns
    /\ runs' = runs + 1
    /\ daemon' = "listening" /\ checked' = NoPacket /\ handling' = NoPacket /\ seen' = {}
    /\ held' = FALSE /\ ran' = [n \in Nonces |-> 0]
(* executeWoL, power on: one of the wake packets arrives. *)
Wake ==
    /\ host = "off"
    /\ host' = "on"
    /\ DaemonStarts
    /\ UNCHANGED <<clock, skew, wire, key, audit, steps, unheard>>
RestartDaemon ==
    /\ host = "on" /\ daemon = "down"
    /\ DaemonStarts
    /\ UNCHANGED <<clock, skew, wire, key, host, audit, steps, unheard>>

-----------------------------------------------------------------------------
(* ParseAndVerifyShutdownPacket and the token *)
Authentic(p) == p.key = InstalledKey
(* The window is symmetric: the node's clock may drift either way. *)
InWindow(p) == LET diff == clock + skew - p.ts IN diff >= -TTL /\ diff <= TTL

(* Bug: nonces are remembered for one ttl only. *)
OneTTL == TTL
Retention == 2 * TTL
Kept_(s) == {x \in s : clock - x.at <= Retention}

(* A post to the server may fail; the daemon goes on. *)
PostPowerEvent(p, stage) == audit' \in {audit, audit \cup {[nonce |-> p.nonce, stage |-> stage]}}

(* Run: a packet arrives. *)
Listening == daemon = "listening" /\ checked = NoPacket
RefusePacket(p) ==
    /\ p \in wire /\ Listening
    /\ ~(Authentic(p) /\ InWindow(p))
    /\ unheard' = IF Authentic(p) /\ clock = p.sent /\ skew \in -TTL..(TTL - Sec)
                  THEN unheard \cup {p.nonce} ELSE unheard
    /\ UNCHANGED <<clock, skew, wire, key, host, daemon, checked, handling, seen, audit, runs, steps, held, ran>>
PassPacket(p) ==
    /\ p \in wire /\ Listening
    /\ Authentic(p) /\ InWindow(p)
    /\ checked' = p
    /\ UNCHANGED <<clock, skew, wire, key, host, daemon, handling, seen, audit, runs, steps, held, ran, unheard>>
(* The clock is read again, for the cache. *)
RefuseReplay ==
    /\ checked # NoPacket
    /\ seen' = Kept_(seen)
    /\ \E x \in seen' : x.nonce = checked.nonce
    /\ checked' = NoPacket
    /\ UNCHANGED <<clock, skew, wire, key, host, daemon, handling, audit, runs, steps, held, ran, unheard>>
AcceptPacket ==
    /\ checked # NoPacket
    /\ \A x \in Kept_(seen) : x.nonce # checked.nonce
    /\ seen' = Kept_(seen) \cup {[nonce |-> checked.nonce, at |-> clock]}
    /\ PostPowerEvent(checked, "accepted")
    /\ daemon' = "command" /\ handling' = checked /\ checked' = NoPacket
    /\ ran' = [ran EXCEPT ![checked.nonce] = @ + 1]
    /\ UNCHANGED <<clock, skew, wire, key, host, runs, steps, held, unheard>>
(* The command returns at once; the machine goes down some time later. *)
CommandSucceeds ==
    /\ daemon = "command"
    /\ daemon' = "listening"
    /\ UNCHANGED <<clock, skew, wire, key, host, checked, handling, seen, audit, runs, steps, held, ran, unheard>>
(* A command that fails ends the daemon. *)
CommandFails ==
    /\ daemon = "command"
    /\ PostPowerEvent(handling, "command_failed")
    /\ daemon' = "down" /\ handling' = NoPacket
    /\ UNCHANGED <<clock, skew, wire, key, host, checked, seen, runs, steps, held, ran, unheard>>
HostGoesDown ==
    /\ host = "on" /\ handling # NoPacket
    /\ host' = "off" /\ daemon' = "down" /\ checked' = NoPacket
    /\ UNCHANGED <<clock, skew, wire, key, handling, seen, audit, runs, steps, held, ran, unheard>>

SDNext ==
    \/ Tick \/ ClockStep \/ ChangeKey \/ SendShutdown \/ Wake \/ RestartDaemon
    \/ \E p \in wire : RefusePacket(p) \/ PassPacket(p)
    \/ RefuseReplay \/ AcceptPacket \/ CommandSucceeds \/ CommandFails \/ HostGoesDown
SDSpec == SDInit /\ [][SDNext]_sdVars

-----------------------------------------------------------------------------
(* A packet shuts the machine down at most once, however often and however  *)
(* late its copies arrive, up to both ends of the acceptance window: the    *)
(* cache outlasts the window.  This is promised by one run of the daemon    *)
(* whose wall clock is not stepped and that is not held up between its two  *)
(* looks at the clock; a restart forgets the nonces.  The window is not     *)
(* bought with deafness: a request that arrives at once is heard by every   *)
(* node whose clock is behind by no more than the window, or ahead by a     *)
(* second less, the second its timestamp may have lost.                     *)
OneShutdownPerPacket ==
    /\ steps = 0 /\ ~held => \A n \in Nonces : ran[n] <= 1
    /\ unheard = {}
=============================================================================
