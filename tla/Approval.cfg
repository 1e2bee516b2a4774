\* A race for the row without Temporal, or two decisions beside a workflow.
SPECIFICATION SceneSpec
CONSTANTS
  c = c  d1 = d1  d2 = d2  m1 = m1  m2 = m2  e1 = e1  e2 = e2  v1 = v1
  alice = alice  bob = bob
  Creator = c
  Deciders <- TwoDeciders
  Clickers <- OneClicker
  Escalators <- OneEscalator
  Viewers <- OneViewer
  Approvers <- OneApprover
  FirstApprover = alice
  Steppers <- OneApprover
  StartModes <- AllOutcomes
  Sla = 2
  MinReminder = 0
  Extension = 1
  MaxSla = 7
  TokenLife = 2
  MaxAttempts = 2
  Horizon = 3
INVARIANTS TypeOK OneDecision DivergenceFlagged OneReminderEvent RunReturnsTruth
PROPERTY KeepsPromise
CHECK_DEADLOCK FALSE
