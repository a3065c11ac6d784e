\* Two connections compete for two client ids of two users; tokens outlive two
\* longest timer delays.  No symmetry, as temporal properties are checked.
SPECIFICATION FairSpec
CONSTANTS
  Users = {u1, u2}
  Clients = {k1, k2}
  Conns = {c1, c2}
  Undefined = Undefined
  MsPerSec = 2
  MAX_TIMER_DELAY = 3
  MaxExp = 3
  MaxNow = 6
INVARIANTS
  TypeOK
  IndexAgrees
  LedgerBalanced
  ReportedCurrent
  TimersArmed
PROPERTIES
  ReleasedForCause
  SessionsEnd
  ImplementsLifecycle
CHECK_DEADLOCK FALSE
