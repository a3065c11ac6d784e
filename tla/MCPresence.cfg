\* Two sessions of one client id on two replicas, every fault; no symmetry, as a
\* temporal property is checked.
SPECIFICATION FairSpec
CONSTANTS
  Replicas = {r1, r2}
  Users = {u1}
  Clients = {k1}
  Tokens = {t1, t2}
  None = None
  Sends = 2
  Faults = {"lose", "crash", "age"}
INVARIANTS
  TypeOK
  FreshRowSurvives
  PresentUserKnown
PROPERTIES
  GoneForGood
  OrphansReaped
CHECK_DEADLOCK FALSE
