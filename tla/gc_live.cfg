SPECIFICATION FairSpec
CONSTANTS
  Job = {a, b, c}
  Reader = {}
  Upkeep = {}
  Cap = 2
  Refusing = {"Begin", "Savepoint", "Commit"}
  Aborting = {"Write", "Commit"}
  Droppable = {a, b, c}
  DroppedRuns = {TRUE, FALSE}
  None = None
CHECK_DEADLOCK FALSE
PROPERTY
  EveryCallEnds
