\* Two evaluations with one Idempotency-Key, beside changes of the configuration and an outage of Redis.
SPECIFICATION FairSpec
CONSTANTS
  e1 = e1  e2 = e2  e3 = e3
  Evals <- TwoEvals
  Keyed <- TwoEvals
  Changes = 1
  Ttl = 1
  Limit = 2
  Used = 2
  LastWeek = 1
INVARIANT TypeOK AnsweredIsAudited UsageIsExact CacheHoldsCommitted NeverOverLimit
PROPERTY StaleEntryEnds EvaluationsEnd
CHECK_DEADLOCK FALSE
