SPECIFICATION FairSpec
CONSTANTS
  None = None
  Owners = {o1}
  Machines = {1}
  Pools = {pool1}
  Handlers = {p1}
  Requests = {"register", "acquire", "get", "deploy", "delete", "retry", "image_applied", "complete", "failed", "progress", "marker", "inventory", "unregister", "pool", "redeploy", "settings"}
  MaxAttempts = 2
  MaxRevision = 7
  MaxEnrolments = 1
PROPERTIES
  ImplementsPool
  AttemptEnds
CHECK_DEADLOCK FALSE
