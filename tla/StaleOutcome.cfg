SPECIFICATION Spec
CONSTANTS
  VMs = {v1}
  Hypervisors = {h1}
  Handlers = {p1, p2}
  Requests = {"create", "redeploy"}
  MaxTokens = 2
PROPERTIES NewerWindowSurvives
CHECK_DEADLOCK FALSE
