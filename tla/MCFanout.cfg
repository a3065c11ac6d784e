SPECIFICATION FairSpec
CHECK_DEADLOCK FALSE
CONSTANTS
  r1 = r1
  r2 = r2
  u1 = u1
  u2 = u2
  k1 = k1
  k2 = k2
  c1 = c1
  c2 = c2
  c3 = c3
  Replicas = {r1, r2}
  Users = {u1, u2}
  Clients = {k1, k2}
  Conns = {c1, c2, c3}
  Identity <- TwoUsers
  Undefined = Undefined
  Senders = {c1, c2}
  MaxFrames = 2
INVARIANTS
  TypeOK
  OnlyToTarget
  InOrder
  OwedDelivered
  NackAnswers
PROPERTIES
  FramesSettle
  ImplementsDelivery
