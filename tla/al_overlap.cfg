SPECIFICATION Spec
CONSTANTS
  Account = {a1}
  Caller = {c1, c2}
  MaxConns = 2
  BudgetCap = 0
  Calm = {TRUE, FALSE}
  Leaving = {FALSE}
SYMMETRY Symmetry
VIEW View
INVARIANTS
  CountedOnce
  BotsAreCounted
  SlotIsLiveWhenCalm
  StateTruthfulWhenCalm
