SPECIFICATION Spec
CONSTANTS
  ReadChunk = 2
  Width = 3
  NoKey = NoKey
  StoreKey = {k1}
  Accounts <- MCAccounts
  Texts <- MCTexts
  Blobs <- MCBlobs
  Secret <- MCSecret
  Ids <- MCIds
  MaxTime = 1
CHECK_DEADLOCK FALSE
INVARIANTS
  ReadsBack
  TokensNewest
  TakenOnce
