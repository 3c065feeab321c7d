SPECIFICATION Spec
CONSTANTS
  Pub = {p1, p2}
  Protocol = 1
  Conn = {c1, c2}
  Chan = {o1, o2}
  Token = {t1}
  MaxSubscriberPerKey = 1
  ChannelExpireSec = 0
  WriteBufNum = 1
  RedisNode = {"node1", "other"}
  KeyNode = "node2"
  MaxFaults = 1
  Admin = {a1}
  MsgIDs <- SmallIDs
  Mids <- BelowAll
  ExpireSec = {0}
  Nil = Nil
  MaxTime = 1
INVARIANTS
  TypeOK
  OnlineCount
  RegisteredExactly
  SubscribersBounded
  NoWindow
  TokenUsedOnce
PROPERTIES
  InOrder
  KeepsContract
CONSTRAINT Load
SYMMETRY Symmetry
