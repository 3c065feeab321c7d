SPECIFICATION FairSpec
CONSTANTS
  Conn = {c1}
  Pub = {p1}
  Admin = {}
  Key = {k1, k2}
  Chan = {o1}
  Bucket = {b1, b2}
  k1 = k1
  k2 = k2
  b1 = b1
  b2 = b2
  stranger = none
  Stuck = {c1}
  bucket <- Apart
  key <- OneApart
  Nil = Nil
PROPERTY SilentRemoved
