SPECIFICATION FairSpec
CONSTANTS
  None = None
  Owners = {o1}
  Machines = {1}
  Pools = {pool1}
  Handlers = {p1}
  Requests = {"register", "acquire", "get", "delete"}
  MaxAttempts = 1
  MaxRevision = 2
  MaxEnrolments = 1
PROPERTIES
  ReleasingEnds
CHECK_DEADLOCK FALSE
