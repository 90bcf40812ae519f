SPECIFICATION MCSpec
CONSTANTS
  VMs = {v1}
  Hypervisors = {h1, h2}
  Handlers = {p1, p2}
  Requests = {"create", "redeploy", "cascade", "delete", "migrate", "power", "status"}
  MaxTokens = 2
SYMMETRY HandlerSymmetry
INVARIANTS DefinedIsReal
PROPERTIES NoResurrection
CHECK_DEADLOCK FALSE
