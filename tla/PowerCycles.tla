---------------------------- MODULE PowerCycles -----------------------------
(***************************************************************************)
(* The row of one machine while it is redeployed and powered on and off,   *)
(* and a Windows installation of it: infra/api/machine_power.go,           *)
(* windows_wol.go and machine_redeploy.go, infra/pxehttp/windows.go and    *)
(* windows_state.go, app/windows_sync.go and the loops of app/sync.go      *)
(* under src/internal.                                                     *)
(*                                                                         *)
(* Windows callbacks, the timeout and the results of a Windows power cycle *)
(* swap the row they read for a new one; polls and power actions write     *)
(* their columns by name; settings, redeploys and everything that serves   *)
(* an installation of another guest write back the whole row they read.    *)
(* Reads and writes are steps of their own, so every writer may meet a row *)
(* that has moved on.                                                      *)
(***************************************************************************)
EXTENDS Naturals, FiniteSets

CONSTANTS
    PowerTypes,   \* of "wol", "ipmi", "webhook" and "manual"
    Installers,   \* boots of the installer
    Jobs,         \* requests and sync loops at work at the same time
    MaxAttempts,  \* bound on redeploys
    MaxJobs       \* bound on other requests and loop passes

ASSUME PCAssumption ==
    /\ PowerTypes \subseteq {"wol", "ipmi", "webhook", "manual"}
    /\ MaxAttempts \in Nat

VARIABLES
    row,          \* the machine's row
    late,         \* attempts whose deadline has passed
    inst,         \* what each boot of the installer is doing
    cycle,        \* the background power cycle of each attempt
    job,          \* what each request or loop pass has read
    jobs, drawn,  \* jobs and attempts so far
    blame,        \* the attempt whose fenced cycle wrote the power    (history)
                  \* error; 0 when it was written by name
    claims,       \* the boots that were told to install, per attempt (history)
    address,      \* the address the last redeploy or network update  (history)
                  \* gave the machine
    trampled      \* attempts whose row a stale whole-row write undid (history)

pcVars == <<row, late, inst, cycle, job, jobs, drawn, blame, claims, address, trampled>>
hist == <<blame, claims, address, trampled>>

Attempts == 1..MaxAttempts
(* The row: attempt and guest, power settings and address, what the polls   *)
(* found, the stage of the attempt, and what the last power action left.    *)
NewRow(type) == [attempt |-> 0, windows |-> FALSE, type |-> type, static |-> FALSE, ip |-> 0,
                 power |-> "unknown", stage |-> "new", active |-> FALSE, result |-> "complete",
                 error |-> "", action |-> ""]
NoInst == [attempt |-> 0, at |-> "off", stage |-> "", seen |-> NewRow("wol")]
NoCycle == [at |-> "none", fenced |-> FALSE, type |-> "wol", action |-> "", failed |-> FALSE,
            then |-> "end", tries |-> 0, seen |-> NewRow("wol")]
NoJob == [kind |-> "none", before |-> "wol", seen |-> NewRow("wol"), new |-> NewRow("wol")]

PCInit ==
    /\ \E t \in PowerTypes : row = NewRow(t)
    /\ late = {} /\ jobs = 0 /\ drawn = 0
    /\ inst = [i \in Installers |-> NoInst]
    /\ cycle = [a \in Attempts |-> NoCycle]
    /\ job = [j \in Jobs |-> NoJob]
    /\ blame = 0 /\ claims = [a \in Attempts |-> {}] /\ address = 0 /\ trampled = {}

-----------------------------------------------------------------------------
(* Bug: the swap looks at the attempt only. *)
SameAttempt(seen) == row.attempt = seen.attempt
(* UpdateProvisioningAttempt: the row is still the one that was read. *)
Unmoved(seen) == row = seen

(* windowsWakeProgress: the attempt a has shown that it is awake.           *)
(* windowsWakeObserved: it is still the current one, and running.           *)
Progressed(r) == r.stage # "new" \/ r.result = "complete"
(* Bug: the attempt is not compared. *)
AnyAttempt(r, a) == r.windows
Fence(r, a) == r.attempt = a /\ r.windows
Awake(a) == Fence(row, a) /\ Progressed(row)
Gone(a) == ~Fence(row, a) \/ (~Progressed(row) /\ ~row.active)

-----------------------------------------------------------------------------
(* windowsTarget: the row a token and an attempt name, before the deadline. *)
Target(a) == row.windows /\ row.attempt = a /\ (row.result = "complete" \/ a \notin late)

(* PXE boot into WinPE: startnet.cmd and install.ps1 are served. *)
BootInstaller(i) ==
    /\ inst[i].at = "off"
    /\ Target(row.attempt) /\ row.active /\ row.stage = "new"
    /\ inst' = [inst EXCEPT ![i] = [NoInst EXCEPT !.attempt = row.attempt, !.at = "winpe"]]
    /\ UNCHANGED <<row, late, cycle, job, jobs, drawn, hist>>

(* The stages a boot reports, in the order of the install script. *)
Reports(at) == CASE at = "winpe" -> {"install_started", "failed"}
                 [] at = "install_started" -> {"image_applied", "failed"}
                 [] at = "image_applied" -> {"complete"}
                 [] OTHER -> {}
Allowed(stage) == /\ row.active
                  /\ stage = "install_started" => row.stage = "new"
                  /\ stage = "image_applied" => row.stage # "new"
                  /\ stage = "complete" => row.stage = "applied"
(* PXEWindowsState: the row is read and the stage checked against it... *)
StateReads(i) ==
    \E stage \in Reports(inst[i].at) :
       /\ inst' = [inst EXCEPT ![i] =
                     IF Target(@.attempt) /\ Allowed(stage)
                     THEN [@ EXCEPT !.at = "posting", !.stage = stage, !.seen = row]
                     ELSE NoInst]
       /\ UNCHANGED <<row, late, cycle, job, jobs, drawn, hist>>
Reported(r, stage) ==
    CASE stage = "install_started" -> [r EXCEPT !.stage = "started"]
      [] stage = "image_applied" -> [r EXCEPT !.stage = "applied"]
      [] stage = "failed" -> [r EXCEPT !.active = FALSE, !.result = "failed", !.error = "installer"]
      [] OTHER -> [r EXCEPT !.active = FALSE, !.result = "complete", !.error = "",
                            !.ip = IF r.static THEN r.ip ELSE 2]
(* ...and the row swapped.  A row that moved on is a conflict; the caller   *)
(* may post again.                                                          *)
StateWrites(i) ==
    LET stage == inst[i].stage  seen == inst[i].seen IN
    /\ inst[i].at = "posting"
    /\ IF Unmoved(seen)
       THEN /\ row' = Reported(seen, stage)
            /\ inst' = [inst EXCEPT ![i] = IF stage \in {"failed", "complete"} THEN NoInst
                                           ELSE [@ EXCEPT !.at = stage, !.seen = NoInst.seen]]
            /\ claims' = IF stage = "install_started"
                         THEN [claims EXCEPT ![seen.attempt] = @ \cup {i}] ELSE claims
       ELSE /\ inst' = [inst EXCEPT ![i].at = CASE stage = "image_applied" -> "install_started"
                                                [] stage = "complete" -> "image_applied"
                                                [] OTHER -> "winpe",
                                    ![i].seen = NoInst.seen]
            /\ UNCHANGED <<row, claims>>
    /\ UNCHANGED <<late, cycle, job, jobs, drawn, blame, address, trampled>>
(* The machine is reset under the installer. *)
ResetInstaller(i) ==
    /\ inst[i].at \notin {"off", "image_applied"}
    /\ inst' = [inst EXCEPT ![i] = NoInst]
    /\ UNCHANGED <<row, late, cycle, job, jobs, drawn, hist>>

DeadlinePasses ==
    /\ row.attempt > 0 /\ row.attempt \notin late
    /\ late' = late \cup {row.attempt}
    /\ UNCHANGED <<row, inst, cycle, job, jobs, drawn, hist>>

-----------------------------------------------------------------------------
(* A job reads the row and decides what it wants to write.                  *)
Reads(j, kind, new) == job' = [job EXCEPT ![j].kind = kind, ![j].seen = row, ![j].new = new]
JobOnly == UNCHANGED <<row, late, inst, cycle, drawn, hist>>
JobReads(j, kind, new) == job[j].kind = "none" /\ Reads(j, kind, new) /\ JobOnly
Counted == jobs < MaxJobs /\ jobs' = jobs + 1

(* RedeployMachine reads the row, for its power settings...                 *)
RedeployBegins(j) ==
    /\ drawn < MaxAttempts
    /\ job[j].kind = "none"
    /\ job' = [job EXCEPT ![j] = [NoJob EXCEPT !.kind = "begun", !.before = row.type]]
    /\ JobOnly /\ UNCHANGED jobs
(* The addresses [static, ip] a redeploy may ask for or keep: a machine     *)
(* that turns to Windows loses its own, Windows has no static one, and a    *)
(* static one is not empty (ValidateMachine).                               *)
Addresses(windows) ==
    {c \in {[static |-> FALSE, ip |-> 0], [static |-> TRUE, ip |-> 1],
            [static |-> row.static, ip |-> row.ip]} :
        /\ windows => ~c.static /\ (row.windows \/ c.ip = 0)
        /\ c.static => c.ip # 0}
(* ...and Reinstall reads it again: a new attempt of the row. *)
RedeployReads(j, windows, type) ==
    /\ job[j].kind = "begun"
    /\ \E c \in Addresses(windows) :
          Reads(j, "redeploy", [row EXCEPT !.windows = windows, !.type = type, !.static = c.static,
                                           !.ip = c.ip, !.stage = "new", !.active = TRUE,
                                           !.result = "", !.error = ""])
    /\ JobOnly /\ UNCHANGED jobs
(* UpdateMachineSettings, UpdateMachineNetwork: the row as read, but for    *)
(* the power settings or the address.                                       *)
SettingsRead(j) ==
    /\ Counted
    /\ \/ \E t \in PowerTypes : JobReads(j, "settings", [row EXCEPT !.type = t])
       \/ \E ip \in {0, 1} : JobReads(j, "network", [row EXCEPT !.ip = ip])
(* runPowerAction reads the power settings; a device takes its time. *)
PowerActionReads(j) == Counted /\ JobReads(j, "power", row)
(* What the sync loop, PXEDeployEvents and PXEInstallComplete make of the   *)
(* running attempt of another guest: a note, a failure, the timeout, the    *)
(* end.                                                                     *)
LinuxOutcomes ==
    {row, [row EXCEPT !.error = ""],
     [row EXCEPT !.active = FALSE, !.result = "failed", !.error = "installer"],
     [row EXCEPT !.active = FALSE, !.result = "complete", !.error = "",
                 !.ip = IF row.static THEN row.ip ELSE 2]}
    \cup {r \in {[row EXCEPT !.active = FALSE, !.result = "timeout", !.error = "timeout"]} :
              row.attempt \in late}
LinuxReads(j) ==
    /\ Counted
    /\ ~row.windows /\ row.active
    /\ \E r \in LinuxOutcomes : JobReads(j, "whole", r)
(* updateProvisionProgress: what is served to the installer of another      *)
(* guest is noted on a row that is read again, whatever it has become; the  *)
(* curtin config also puts back the attempt it was made for.                *)
ProgressBegins(j) ==
    /\ Counted
    /\ ~row.windows /\ row.active
    /\ JobReads(j, "target", row)
ProgressReads(j) ==
    /\ job[j].kind = "target"
    /\ \E a \in {row.attempt, job[j].seen.attempt} : Reads(j, "whole", [row EXCEPT !.attempt = a])
    /\ JobOnly /\ UNCHANGED jobs
(* syncWindowsProvisioningState: the deadline of the listed row has passed. *)
TimeoutReads(j) ==
    /\ Counted
    /\ row.windows /\ row.active /\ row.attempt \in late
    /\ JobReads(j, "timeout", [row EXCEPT !.active = FALSE, !.result = "timeout",
                                          !.error = "timeout"])
(* syncLeaseIPs and pollPowerStates list the machines. *)
LeaseReads(j) ==
    /\ Counted
    /\ ~row.static /\ row.ip # 2
    /\ JobReads(j, "lease", [row EXCEPT !.ip = 2])
(* CheckStatus: IPMI and a status webhook answer for the machine; otherwise *)
(* it is pinged at its address, and silence counts as stopped.              *)
CheckStatus(r) == CASE r.type \in {"ipmi", "webhook"} -> {"running", "stopped", "unknown", "failed"}
                    [] r.ip = 0 -> {"unknown"}
                    [] OTHER -> {"running", "stopped"}
PollReads(j) ==
    /\ Counted
    /\ \E s \in CheckStatus(row) \ {row.power, "failed"} :
          JobReads(j, "poll", [row EXCEPT !.power = s])

(* startRedeployPowerCycle: off with the settings before the redeploy, on   *)
(* with the ones after it.                                                  *)
StartCycle(a, before, after) ==
    LET on == IF after.type = "manual" THEN before ELSE after.type IN
    cycle' = IF before = "manual" THEN cycle
             ELSE [cycle EXCEPT ![a] = [NoCycle EXCEPT !.at = "check", !.type = on,
                                                       !.fenced = after.windows /\ on = "wol"]]
(* The whole row is written: what changed since the read is lost.  A        *)
(* redeployed hypervisor gets a registration token before its cycle starts. *)
WriteRedeploy(j) ==
    /\ job[j].kind = "redeploy" /\ drawn < MaxAttempts
    /\ drawn' = drawn + 1
    /\ row' = [job[j].new EXCEPT !.attempt = drawn']
    /\ address' = row'.ip /\ blame' = 0
    /\ \/ StartCycle(drawn', job[j].before, row') /\ job' = [job EXCEPT ![j] = NoJob]
       \/ /\ ~row'.windows
          /\ job' = [job EXCEPT ![j].kind = "attach", ![j].seen = row', ![j].new = row']
          /\ UNCHANGED cycle
    /\ UNCHANGED <<late, inst, jobs, claims, trampled>>
WriteWhole(j) ==
    LET seen == job[j].seen  new == job[j].new IN
    /\ row' = new
    /\ address' = IF job[j].kind = "network" THEN new.ip ELSE address
    /\ trampled' = IF row = seen /\ new.attempt = seen.attempt THEN trampled
                   ELSE trampled \cup {row.attempt, seen.attempt, new.attempt}
    /\ job' = [job EXCEPT ![j] = NoJob]
    /\ UNCHANGED <<late, inst, jobs, drawn, blame, claims>>
WriteRow(j) == job[j].kind \in {"settings", "network", "whole"} /\ WriteWhole(j) /\ UNCHANGED cycle
(* The row with the token is written again; without it, no cycle starts. *)
AttachToken(j) ==
    /\ job[j].kind = "attach"
    /\ \/ WriteWhole(j) /\ StartCycle(job[j].new.attempt, job[j].before, job[j].new)
       \/ job' = [job EXCEPT ![j] = NoJob] /\ UNCHANGED <<row, late, inst, cycle, jobs, drawn, hist>>
(* The device has answered: its error, or none, is written by name. *)
WritePowerAction(j) ==
    /\ job[j].kind = "power"
    /\ \E action \in {"off", "on"}, failed \in BOOLEAN :
          /\ job[j].seen.type = "manual" => failed
          /\ row' = [row EXCEPT !.action = action, !.error = IF failed THEN "power" ELSE ""]
          /\ blame' = IF failed THEN 0 ELSE blame
    /\ job' = [job EXCEPT ![j] = NoJob]
    /\ UNCHANGED <<late, inst, cycle, jobs, drawn, claims, address, trampled>>
(* UpdateDynamicIPAddress leaves a static address alone. *)
DynamicAddress == ~row.static
(* Bug: the timeout is written by name. *)
TimeoutByName(j) == TRUE
TimeoutApplies(j) == Unmoved(job[j].seen)
(* updateMachineStatus and UpdateDynamicIPAddress write their own column. *)
OneColumn(j) ==
    CASE job[j].kind = "poll" -> [row EXCEPT !.power = job[j].new.power]
      [] job[j].kind = "lease" -> IF DynamicAddress THEN [row EXCEPT !.ip = job[j].new.ip] ELSE row
      [] OTHER -> IF TimeoutApplies(j) THEN job[j].new ELSE row
WriteColumn(j) ==
    /\ job[j].kind \in {"poll", "lease", "timeout"}
    /\ row' = OneColumn(j)
    /\ job' = [job EXCEPT ![j] = NoJob]
    /\ UNCHANGED <<late, inst, cycle, jobs, drawn, hist>>

-----------------------------------------------------------------------------
(* The power cycle of attempt a, in the background. *)
Goes(a, at) == cycle' = [cycle EXCEPT ![a].at = at]
(* record(action, error), then go on at "then". *)
Records(a, action, failed, then) ==
    cycle' = [cycle EXCEPT ![a].at = "record", ![a].action = action, ![a].failed = failed,
                           ![a].then = then, ![a].tries = 0]
CycleOnly == UNCHANGED <<row, late, inst, job, jobs, drawn, hist>>

CycleCheck(a) ==
    /\ cycle[a].at = "check"
    /\ Goes(a, IF cycle[a].fenced /\ (Awake(a) \/ Gone(a)) THEN "end" ELSE "off")
    /\ CycleOnly
(* Execute: an error, or the command was sent. *)
CycleOff(a) ==
    /\ cycle[a].at = "off"
    /\ Records(a, "off", FALSE, "settle") \/ Records(a, "off", TRUE, "end")
    /\ CycleOnly
(* waitForMachinePowerState *)
CycleSettles(a) ==
    /\ cycle[a].at = "settle"
    /\ Goes(a, "on") \/ Records(a, "off", TRUE, "end")
    /\ CycleOnly
(* powerOnRedeployMachine and powerOnWindowsRedeployMachine: a wake-up is   *)
(* repeated until the machine is seen running or the context ends.          *)
CycleOn(a) ==
    /\ cycle[a].at = "on"
    /\ IF cycle[a].fenced
       THEN \/ Awake(a) /\ Records(a, "on", FALSE, "end")
            \/ Gone(a) /\ Records(a, "on", TRUE, "end")
            \/ ~Awake(a) /\ ~Gone(a) /\ (Goes(a, "wait") \/ Records(a, "on", TRUE, "end"))
       ELSE \/ cycle[a].type = "wol" /\ Goes(a, "wait")
            \/ cycle[a].type # "wol" /\ Records(a, "on", FALSE, "end")
            \/ Records(a, "on", TRUE, "end")
    /\ CycleOnly
(* The wait ends: running (checked against the attempt), try again, or the  *)
(* three minutes are over.                                                  *)
CycleWaits(a) ==
    /\ cycle[a].at = "wait"
    /\ \/ Records(a, "on", cycle[a].fenced /\ Gone(a), "end")
       \/ Goes(a, "on")
       \/ Records(a, "on", TRUE, "end")
    /\ CycleOnly

Noted(r, c) == [r EXCEPT !.action = c.action, !.error = IF c.failed THEN "power" ELSE @]
(* recordMachinePowerAction: the status of the machine by that name,        *)
(* whatever attempt it has come to.                                         *)
RecordPlain(a) ==
    /\ cycle[a].at = "record" /\ ~cycle[a].fenced
    /\ row' = Noted(row, cycle[a])
    /\ blame' = IF cycle[a].failed THEN 0 ELSE blame
    /\ Goes(a, cycle[a].then)
    /\ UNCHANGED <<late, inst, job, jobs, drawn, claims, address, trampled>>
(* recordWindowsRedeployPowerAction: read, decide, swap; three times.       *)
RecordReads(a) ==
    /\ cycle[a].at = "record" /\ cycle[a].fenced
    /\ IF \/ ~Fence(row, a) \/ ~row.active \/ cycle[a].tries = 3
          \/ cycle[a].failed /\ (Progressed(row) \/ row.error # "")
       THEN Goes(a, cycle[a].then)
       ELSE cycle' = [cycle EXCEPT ![a].at = "swap", ![a].seen = row]
    /\ CycleOnly
RecordSwaps(a) ==
    /\ cycle[a].at = "swap"
    /\ IF Unmoved(cycle[a].seen)
       THEN /\ row' = Noted(row, cycle[a])
            /\ blame' = IF cycle[a].failed THEN a ELSE blame
            /\ cycle' = [cycle EXCEPT ![a].at = cycle[a].then, ![a].seen = NoCycle.seen]
       ELSE /\ cycle' = [cycle EXCEPT ![a].at = "record", ![a].tries = @ + 1,
                                      ![a].seen = NoCycle.seen]
            /\ UNCHANGED <<row, blame>>
    /\ UNCHANGED <<late, inst, job, jobs, drawn, claims, address, trampled>>

CycleStep(a) == CycleCheck(a) \/ CycleOff(a) \/ CycleSettles(a) \/ CycleOn(a) \/ CycleWaits(a)
                    \/ RecordPlain(a) \/ RecordReads(a) \/ RecordSwaps(a)
PCNext ==
    \/ \E i \in Installers : BootInstaller(i) \/ StateReads(i) \/ StateWrites(i) \/ ResetInstaller(i)
    \/ DeadlinePasses
    \/ \E j \in Jobs : \/ RedeployBegins(j)
                       \/ \E w \in BOOLEAN, t \in PowerTypes : RedeployReads(j, w, t)
                       \/ SettingsRead(j) \/ PowerActionReads(j) \/ LinuxReads(j)
                       \/ ProgressBegins(j) \/ ProgressReads(j)
                       \/ TimeoutReads(j) \/ LeaseReads(j) \/ PollReads(j)
                       \/ WriteRedeploy(j) \/ AttachToken(j) \/ WriteRow(j)
                       \/ WritePowerAction(j) \/ WriteColumn(j)
    \/ \E a \in Attempts : CycleStep(a)
PCSpec == PCInit /\ [][PCNext]_pcVars

-----------------------------------------------------------------------------
(* One boot of the installer is told to wipe the disk in an attempt, also   *)
(* when the machine is reset and boots again while a callback is under way. *)
(* A whole row that was read before the claim and written back after it is  *)
(* what lets a second boot in.                                              *)
DiskClaimedOnce == \A a \in Attempts : Cardinality(claims[a]) <= 1 \/ a \in trampled

(* An attempt that completed or failed stays so: neither the timeout nor a  *)
(* late callback of a Windows attempt turns it into something else; again a *)
(* stale whole-row write does.                                              *)
SettledStays ==
    [][\/ row'.attempt # row.attempt \/ row.result = "" \/ row'.result = row.result
       \/ row.attempt \in trampled']_pcVars

(* A Windows Wake-on-LAN cycle leaves its error on the row of its own       *)
(* attempt only, and a static address is the one the last redeploy or       *)
(* network update wrote, not a lease that was listed before it.  What is    *)
(* left out: errors that an operator's power action or the cycle of another *)
(* guest or device writes by name, on whatever attempt is current, and      *)
(* attempts a stale whole-row write has trampled on.  A redeploy that asks  *)
(* for no address gives the machine the one it read.                        *)
NoLateMark ==
    \/ row.attempt \in trampled
    \/ /\ row.error = "power" => blame \in {0, row.attempt}
       /\ row.static => row.ip = address
=============================================================================
