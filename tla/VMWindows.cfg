SPECIFICATION MCFairSpec
CONSTANTS
  VMs = {v1}
  Hypervisors = {h1, h2}
  Handlers = {p1}
  Requests = {"create", "redeploy", "complete", "delete", "cascade", "power", "migrate", "abort", "vanish"}
  MaxTokens = 2
PROPERTIES WindowEnds MissingHeals
CHECK_DEADLOCK FALSE
