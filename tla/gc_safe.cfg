SPECIFICATION Spec
CONSTANTS
  Job = {a, b, c}
  Reader = {r}
  Upkeep = {u}
  Cap = 2
  Refusing = {"Begin", "Savepoint", "Commit"}
  Aborting = {"Write", "Commit"}
  Droppable = {a, b, c, r, u}
  DroppedRuns = {TRUE, FALSE}
  None = None
\* Every caller calls once.
CHECK_DEADLOCK FALSE
SYMMETRY CallerSymmetry
INVARIANTS
  AckedDurable
  RefusedNotDurableApart
  UnknownIsDurable
  CapRespected
PROPERTY
  ImplementsAtomicBatches
