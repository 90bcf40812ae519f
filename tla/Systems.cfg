SPECIFICATION Spec
CONSTANTS
  PowerTypes = {"wol", "ipmi", "manual"}
  Installers = {1, 2}
  Jobs = {1, 2}
  MaxAttempts = 2
  MaxJobs = 2
  Sec = 2
  TTL = 2
  Skews <- SmallSkews
  MaxClock = 5
  MaxPackets = 2
  MaxRuns = 2
  MaxSteps = 1
INVARIANTS
  DiskClaimedOnce NoLateMark OneShutdownPerPacket
PROPERTIES
  SettledStays
CHECK_DEADLOCK FALSE
