SPECIFICATION Spec
CONSTANTS
  Kinds = {"VM", "BM", "BMConfig"}
  MaxFaults = 3
  Workers = {1, 2}
  MaxSeconds = 2
  MaxFetches = 3
  MaxLosses = 1
  NImages = 2
  PageSize = 1
  Contents = {"a", "b"}
  Forms = {"plain", "upper", "padded"}
  MaxEdits = 2
  MaxBreaks = 1
  Deployments = {1, 2}
  MaxIdentities = 2
  MaxTroubles = 2
INVARIANTS
  NoOrphans RetriesAreHarmless
  OneFetch PublishedIsWhole
  SyncedIsListed CleanupSparesReady
  BackingIsWhole
PROPERTIES
   EventuallySynced
CHECK_DEADLOCK FALSE
