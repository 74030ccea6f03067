SPECIFICATION Spec
CONSTANTS
  Upload = {u1, u2}
  Download = {d1, d2}
  Casts = {{u1, u2}, {u1, d1}, {d1, d2}}
  SpoolMaxes = {0, 6}
  MediaMax = 3
  Block = 2
  Mac = 1
  CIPHERTEXT_OVERHEAD = 3
  CHUNK_SIZE = 2
  Depth = 2
  U64Max = 11
CHECK_DEADLOCK FALSE
INVARIANT
  Accounted
PROPERTY
  LeftIsFreed
