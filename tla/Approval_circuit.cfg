\* A request made while the circuit is open.
SPECIFICATION Spec
CONSTANTS
  c = c  d1 = d1  d2 = d2  m1 = m1  m2 = m2  e1 = e1  e2 = e2  v1 = v1
  alice = alice  bob = bob
  Creator = c
  Deciders <- None
  Clickers <- None
  Escalators <- None
  Viewers <- None
  Approvers <- OneApprover
  FirstApprover = alice
  Steppers <- None
  StartModes <- AllOutcomes
  Sla = 2
  MinReminder = 0
  Extension = 1
  MaxSla = 7
  TokenLife = 2
  MaxAttempts = 1
  Horizon = 2
INVARIANT CreationNeedsNoTemporal
CHECK_DEADLOCK FALSE
