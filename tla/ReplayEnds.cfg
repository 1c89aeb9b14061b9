CONSTANTS
  r1 = r1  r2 = r2  r3 = r3  d1 = d1  s1 = s1  s2 = s2  s3 = s3
  m1 = m1  m2 = m2  m3 = m3  m4 = m4  f1 = f1  f2 = f2  pa = pa  pb = pb
  None = None
  Run <- TwoRuns
  Identity <- TwoApprovals
  Digest <- MCDigest
  MaxFaults = 1
  MaxCrashes = 1
  MaxClears = 0
SPECIFICATION FairSpec
CHECK_DEADLOCK FALSE
INVARIANT TypeOK
PROPERTY EveryRunEnds
