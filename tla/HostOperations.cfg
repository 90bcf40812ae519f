SPECIFICATION MCSpec
CONSTANTS
  None = None
  Owners = {o1}
  Machines = {1, 2}
  Pools = {pool1}
  Handlers = {p1, p2}
  Requests = {"register", "unregister", "pool", "redeploy", "settings", "acquire", "get", "deploy", "delete", "retry", "image_applied", "complete"}
  MaxAttempts = 4
  MaxRevision = 2
  MaxEnrolments = 1
SYMMETRY HandlerSymmetry
INVARIANTS
  TypeOK
  NoPriorWorkload
  ReadyIsReal
  AttemptFence
  OneHostPerOwner
PROPERTIES
  RetryNamesCurrentAttempt
  IdentityOnDisk
CHECK_DEADLOCK FALSE
