\* Two requests of every kind; commands fail and the key file changes under
\* them.
SPECIFICATION Spec
CONSTANTS
  k1 = k1
  k2 = k2
  Reqs = {q1, q2}
  Inputs <- AllInputs
  PemKeys = {k1, k2}
  None = None
  Outside = Outside
  Faults = {"fail", "key"}
SYMMETRY Symmetry
INVARIANTS
  TypeOK
  GaugeExact
  ObservedOnce
  EntryPlausible
  WritesExpire
  NxExclusive
  ReadyTruthful
  OneKey
CHECK_DEADLOCK FALSE
