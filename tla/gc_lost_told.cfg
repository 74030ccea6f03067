SPECIFICATION Spec
CONSTANTS
  Job = {a, b, c}
  Reader = {}
  Upkeep = {}
  Cap = 2
  Refusing = {}
  Aborting = {"Write"}
  Droppable = {a, b, c}
  DroppedRuns = {TRUE}
  None = None
CHECK_DEADLOCK FALSE
SYMMETRY CallerSymmetry
INVARIANT
  RefusedNotDurable
