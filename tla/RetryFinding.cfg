CONSTANTS
  p1 = p1  p2 = p2  c1 = c1  c2 = c2  c3 = c3  mayor = mayor  clerk = clerk  aide = aide
  e1 = e1  e2 = e2  e3 = e3  done = done
  k1 = k1  k2 = k2  k3 = k3  k4 = k4  k5 = k5  k6 = k6  k7 = k7
  None = None
  Proc <- MCProc
  CommitmentId <- OneCommitment
  Request <- CreateRequests
  User <- MCUser
  CommandId <- MCCommandId
  Evidence <- MCEvidence
  Outcome <- MCOutcome
  AsOf <- MCAsOf
  Horizon = 2
  MaxDay = 0
  MaxCommitments = 1
  MaxEvents = 2
SPECIFICATION Spec
SYMMETRY Symm
INVARIANTS
  RetryNeverDuplicatesItself
