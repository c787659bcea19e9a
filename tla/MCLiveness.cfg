SPECIFICATION LivenessSpec
CONSTANTS
  h1 = h1
  h2 = h2
  good = good
  NoHost = NoHost
  NoPem = NoPem
  MaxGrants = 2
  MaxRotations = 1
CHECK_DEADLOCK FALSE
PROPERTIES
  Returns
  RefusedRecovers
