SPECIFICATION Spec
CONSTANTS
  Pub = {p1}
  Protocol = 1
  Conn = {c1}
  Chan = {o1}
  Token = {t1}
  MaxSubscriberPerKey = 1
  ChannelExpireSec = 0
  WriteBufNum = 1
  RedisNode = {"node1", "other"}
  KeyNode = "node2"
  MaxFaults = 1
  Admin = {}
  MsgIDs <- SmallIDs
  Mids <- BelowAll
  ExpireSec = {0}
  Nil = Nil
  MaxTime = 1
INVARIANT StoredDelivered
