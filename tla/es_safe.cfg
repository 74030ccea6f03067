SPECIFICATION Spec
CONSTANTS
  Lib = "lib"
  Kind = {"kept", "bulk"}
  Bulk = {"bulk"}
  Sender = {"c1"}
  Sub = {"s1"}
  Replay <- ReplayTwo
  RingCap = 3
  BroadcastCap = 2
  OutletCap = 1
  MaxEvents = 4
  MaxFan = 2
\* Publishing stops at MaxEvents, and streams end.
CHECK_DEADLOCK FALSE
INVARIANTS
  RingKeepsLatest
  EchoOut
  KeptExactlyOnce
