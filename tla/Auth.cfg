SPECIFICATION FairSpec
CONSTANTS
  l1 = l1
  l2 = l2
  Login <- TwoLogins
INVARIANTS
  AuthTypeOK
  OneLogin
  GateTruthful
PROPERTIES
  Recovers
  Closes
  KeepsRefreshing
