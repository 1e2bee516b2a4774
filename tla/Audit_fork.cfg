\* An evaluation racing an approval decision.
SPECIFICATION ReadersSpec
CONSTANTS
  e1 = e1  e2 = e2  d1 = d1
  i1 = i1  i2 = i2  i3 = i3  i4 = i4
  NoEvent = NoEvent
  Evaluators <- OneEvaluator
  Deciders <- OneDecider
  Ids <- ThreeIds
  Readers <- Nobody
  PageSize = 2
  VerifyLimit = 3
INVARIANT OneSuccessor
