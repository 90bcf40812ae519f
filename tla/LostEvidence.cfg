SPECIFICATION Spec
CONSTANTS
  None = None
  Owners = {o1}
  Machines = {1}
  Pools = {pool1}
  Handlers = {p1, p2}
  Requests = {"register", "acquire", "deploy", "image_applied", "progress"}
  MaxAttempts = 1
  MaxRevision = 2
  MaxEnrolments = 1
SYMMETRY HandlerSymmetry
PROPERTIES
  EvidenceKept
CHECK_DEADLOCK FALSE
