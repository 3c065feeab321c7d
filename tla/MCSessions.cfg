SPECIFICATION FairSpec
CONSTANTS
  Pub = {}
  Protocol = 1
  Chan = {o1, o2}
  Conn = {c1, c2}
  Token = {t1}
  MaxStoredMessage = 1
  MaxSubscriberPerKey = 1
  ChannelExpireSec = 0
  Key = {k1}
  ChannelType = 1
  Nil = Nil
  Admin = {a1, a2}
  Auth = 1
  MsgIDs = {1}
  Mids = {0}
  ExpireSec = {1}
  MaxTime = 1
INVARIANTS
  TypeOK
  TokenUsedOnce
  SubscribersBounded
PROPERTIES
  DroppedSubscribersEnd
  SubscriptionSettles
