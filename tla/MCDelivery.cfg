SPECIFICATION Spec
CONSTANTS
  Pub = {p1, p2, p3}
  Protocol = 0
  Chan = {o1, o2}
  Conn = {c1, c2}
  Token = {t1}
  MaxStoredMessage = 2
  MaxSubscriberPerKey = 2
  ChannelExpireSec = 0
  Key = {k1}
  ChannelType = 1
  Nil = Nil
  Admin = {}
  Auth = 0
  MsgIDs = {1, 2, 3}
  Mids = {1}
  ExpireSec = {0, 1}
  MaxTime = 1
INVARIANTS
  RegisteredExactly
  NoDuplicate
  CaughtUp
  DroppedOnlyAfterDeadline
  StoreBounded
PROPERTIES
  OnlyExpiredOrOldestLeave
  KeepsContract
CONSTRAINT Load
SYMMETRY Symmetry
