SPECIFICATION FairSpec
CONSTANTS
  Machines = {"m1"}
  VMs = {"v1"}
  AllMACs <- SharedMACs
  StaticIP = {"v1"}
  MaxChanges = 3
  MaxFailures = 2
  Sizes = {0, 4}
  Options = {"tsize", "badblksize"}
  Wrap = 3
  MaxRetries = 3
  MaxPackets = 2
  MaxVersions = 2
  Names = {"a"}
  Texts = {"x"}
  Syncers = {"start", "tick", "notified"}
  MaxEdits = 2
  MaxOps = 3
  MaxCrashes = 1
  MaxFailed = 1
  Hosts = {"a", "b"}
  Addresses = {1, 2}
  Updaters = {"loop", "notified"}
  MaxHostEdits = 3
  MaxLosses = 1
INVARIANTS
  NoOrphanServer NoLostChange
  CompletedIsWhole
  AckedSurvives
PROPERTIES
  EventuallyInSync
  TransferEnds
  EventuallyServesInventory
  EventuallyMirrors
CHECK_DEADLOCK FALSE
