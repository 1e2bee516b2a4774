\* Evaluations and a client that lists, or a decision and a verification.
SPECIFICATION SceneSpec
CONSTANTS
  e1 = e1  e2 = e2  d1 = d1
  i1 = i1  i2 = i2  i3 = i3  i4 = i4
  NoEvent = NoEvent
  Evaluators <- TwoEvaluators
  Deciders <- OneDecider
  Ids <- FourIds
  Readers <- BothReaders
  PageSize = 2
  VerifyLimit = 3
INVARIANTS TypeOK CursorIsComplete LinksResolve VerdictIsRight
PROPERTIES EvaluationsImplementLog WritersFinish
