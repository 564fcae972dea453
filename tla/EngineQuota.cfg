SPECIFICATION ISpec
CONSTANTS
  Quota = 2
  MaxRequests = 3
  MaxCrashes = 2
  MaxIssues = 3
INVARIANTS
  TypeOK
  QuotaIsHard
  OverCountHasAReason
  OwnIdeasOnly
  CapturedIsTold
  ClosingsOnRecord
  
