\* Eleven components around the core, each on its own.
SPECIFICATION Spec
CONSTANTS
  c1 = c1  c2 = c2  c3 = c3  c4 = c4  h1 = h1  h2 = h2  h3 = h3  t1 = t1  t2 = t2  t3 = t3
  u1 = u1  u2 = u2  u3 = u3  u4 = u4  u5 = u5  u6 = u6  a1 = a1  a2 = a2  a3 = a3  p1 = p1  k1 = k1
  n1 = n1  n2 = n2  s1 = s1  s2 = s2  s3 = s3  w1 = w1  w2 = w2  v1 = v1
  q1 = q1  q2 = q2  m1 = m1  g1 = g1  g2 = g2
  e1 = e1  e2 = e2  e3 = e3  l1 = l1  l2 = l2  b1 = b1  b2 = b2
  Calls <- FourCalls  Threshold = 2  FailureWindow = 1  OpenFor = 1  Horizon = 3
  Hits <- ThreeHits  Burst = 2  Token = 2  Refill = 1  LimiterHorizon = 4  FailOpen = TRUE
  Threads <- ThreeThreads  Size = 1  MaxSpawns = 2  NoThread = NoThread
  Blocking <- TwoBlocking  Awaiting <- TwoAwaiting  Asyncs <- TwoTasks  Calling <- JustCalling
  Gophers <- JustGopher  PollEvery = 1  GiveUp = 4  Reply = 1  LastHour = 7
  Asks <- ThreeAsks  People <- OnePerson  ApiKeys <- OneKey  Roles <- TwoRoles
  JoinRole = "viewer"  AutoJoin = TRUE
  Users <- TwoUsers  Signups <- ThreeSignups  Workers <- TwoWorkers  Trigger = TRUE  MaxDeaths = 2
  Evaluations <- OneEvaluation  Requests <- TheRequests  Puts <- TwoPuts  Changes <- TheChanges
  ModePuts <- OneModePut  Profiles <- TwoProfiles  Unset = Unset
  Chats <- TwoChats  HistoryLimit = 1  Missing = Missing
  Edits <- ThreeEdits  Values <- TwoValues  Plain = "plain"
  Visits <- TwoVisits  Deeds <- TwoDeeds  MinSamples = 1  Usual = 15
  Sockets <- TwoSockets  QueueSize = 1  MaxEvents = 3
INVARIANTS TypeOK ProbeInFlight NeverOverAdmits PoolKeepsOrder ListenersHearTheTruth RowsStick
           ProvisionedOnce OnlyTightens SaysWhatIs
PROPERTIES TripNeedsRecentFailures PlatformEnds
CHECK_DEADLOCK FALSE
