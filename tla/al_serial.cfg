SPECIFICATION FairSpec
CONSTANTS
  Account = {a1}
  Caller = {c1}
  MaxConns = 2
  BudgetCap = 0
  Calm = {TRUE, FALSE}
  Leaving = {TRUE, FALSE}
INVARIANTS
  CountsSupervisors
PROPERTIES
  CallEnds
  SlotReleased
