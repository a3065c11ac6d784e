SPECIFICATION Spec
CONSTANTS
  Replicas = {r1}
  Users = {u1}
  Clients = {k1}
  Tokens = {t1, t2}
  None = None
  Sends = 1
  Faults = {}
PROPERTIES
  ReconnectedRowIntact
SYMMETRY Symmetry
CHECK_DEADLOCK FALSE
