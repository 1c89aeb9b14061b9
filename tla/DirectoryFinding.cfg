CONSTANTS
  Null = Null
  c1 = c1  u1 = u1  u2 = u2  town = town  sub = sub  ana = ana  beto = beto  s1 = s1
  Conn = {c1}
  Unit = {u1, u2}
  Below <- MCBelow
  Assignment = {town, sub}
  ScopeOf <- MCScopeOf
  Artifact <- MCArtifact
  ConfiguredSha = s1
  Filter = {Null}
  Limit = 1
  MaxRequests = 1  MaxChanges = 1  MaxFaults = 0  MaxMonth = 1
SPECIFICATION DirectorySpec
CHECK_DEADLOCK FALSE
PROPERTIES OneStandingAssignmentSuffices
