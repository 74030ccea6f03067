SPECIFICATION Spec
CONSTANTS
  Proc = {p1, p2}
  Key = {k1, k2}
  NoKey = NoKey
  Device = {1, 2}
  Column = {"device.data", "sessions.record", "tc_tokens.token"}
  Structured = {"device.data"}
  Versions = {1, 2}
INVARIANTS
  SealedAsMarked
  WayOn
  ScrubbedUnlessCut
