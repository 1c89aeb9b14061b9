CONSTANTS
  p1 = p1  p2 = p2  c1 = c1  c2 = c2  mayor = mayor  clerk = clerk
  e1 = e1  e2 = e2  k1 = k1  k2 = k2  k3 = k3  done = done
  None = None
  Proc <- MCProc
  CommitmentId <- OneCommitment
  Request <- MCRequest
  User <- MCUser
  RoleOf <- MCRoleOf
  CommandId <- TwoCommands
  Evidence <- TwoBriefs
  Outcome <- MCOutcome
  AsOf <- MCAsOf
  Form <- TwoForms
  Horizon = 2
  MaxCommitments = 1
  MaxEvents = 4
SPECIFICATION DeskSpec
SYMMETRY Symm
VIEW LiveState
INVARIANTS
  TypeOK
  EditableIsUncommitted
  OneRequestPerCommand
  GateAdmitsReplays
  ReadYourWrites
