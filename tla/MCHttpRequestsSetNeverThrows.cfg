\* No command fails: a POST that passed the pipe is answered 500 all the same.
SPECIFICATION Spec
CONSTANTS
  k1 = k1
  k2 = k2
  Reqs = {q1}
  Inputs <- Posts
  PemKeys = {k1}
  None = None
  Outside = Outside
  Faults = {}
INVARIANTS
  SetNeverThrows
CHECK_DEADLOCK FALSE
