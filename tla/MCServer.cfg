SPECIFICATION FairSpec
CONSTANTS
  Conn = {c1, c2, c3}
  Reader = {r1, r2, r3}
  ReadBufInstance = 2
  ReadBufNumPerInst = 1
  Nil = Nil
INVARIANTS
  ReaderExclusive
  OwnBytes
  PoolsInRange
PROPERTY EveryClientHandled
