SPECIFICATION Spec
CONSTANTS
  Users = {"u"}
  Callers = {1, 2}
  MaxSecrets = 5
  MaxRotations = 2
  Hypervisors = {"h"}
  Requests = {1, 2}
  RegTokens = {"t"}
  MaxAgents = 2
  MaxMishaps = 1
  MACs = {"m1", "m2"}
  Ranges <- SmallRanges
  Reservations <- OneReservation
  LeaseTimes = {0, 1}
  DefaultLeaseTime = 2
  MaxNow = 2
  MaxWrites = 2
  MaxPools = 2
  MaxUpsets = 1
  Operators = {1, 2}
  MaxVersions = 3
INVARIANTS
  IssuedTokenIsKept
  OneUsePerToken AgentTokensAreLive
  NoAddressConflict
  ReviewedIsReplaced
CHECK_DEADLOCK FALSE
