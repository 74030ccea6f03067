SPECIFICATION FairSpec
CONSTANTS
  Ref = {r}
  Caller = {c1, c2}
  Stream = {s}
  CreatedCap = 1
  MaxAccounts = 2
  MaxRestarts = 1
INVARIANTS
  FollowedOnce
  NoneMissed
  AtRestExact
PROPERTY
  EventuallyAttached
