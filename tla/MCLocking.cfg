SPECIFICATION FairSpec
CONSTANTS
  Conn = {c1, c2}
  Pub = {p1}
  Admin = {a1}
  Key = {k1, k2}
  Chan = {o1, o2}
  Bucket = {b1, b2}
  k1 = k1
  k2 = k2
  b1 = b1
  b2 = b2
  stranger = c2
  bucket <- Apart
  Stuck = {c2}
  key <- OneApart
  Nil = Nil
INVARIANTS
  WaitsEndAtAClient
PROPERTIES
  MapHeldStill
  StallIsLocal
