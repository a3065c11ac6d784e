SPECIFICATION Spec
CONSTANTS
  Users = {u1}
  Ops = {o1, o2}
  Attempts = 2
  MaxSessions = 1
  None = None
INVARIANTS
  SubscribedWhileSessions
SYMMETRY Symmetry
