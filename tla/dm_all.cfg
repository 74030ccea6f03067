SPECIFICATION Spec
CONSTANTS
  Proc = {p0, p1, p2}
  Host = p1
  Starting = {p1, p2}
  Scenes = {"start", "stream", "request"}
  Votes = 2
  Queries = 2
  Pid = {7, 8}
  BroadcastCap = 1
  Depth = 1
  MaxEvents = 2
  Emits = {"paired", "exhausted_up", "other"}
CHECK_DEADLOCK FALSE
INVARIANTS
  RefusedSendsNothing
  EchoedOnce
  HonestErrors
  NoSilentLoss
PROPERTIES
  SignalledExits
  StreamEnds
