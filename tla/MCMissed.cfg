SPECIFICATION Spec
CONSTANTS
  Pub = {p1}
  Protocol = 0
  Chan = {o1}
  Conn = {c1}
  Token = {t1}
  MaxStoredMessage = 1
  MaxSubscriberPerKey = 1
  ChannelExpireSec = 0
  Key = {k1}
  ChannelType = 1
  Nil = Nil
  Admin = {}
  Auth = 0
  MsgIDs = {1}
  Mids = {0}
  ExpireSec = {1}
  MaxTime = 1
INVARIANT NothingMissed
