\* One user: users meet only in the slots, and the proofs hold for any number.
SPECIFICATION FairSpec
CONSTANTS
  Users = {u1}
  Ops = {o1, o2, o3}
  Attempts = 3
  MaxSessions = 2
  None = None
INVARIANTS
  TypeOK
  ClaimOnlyWithSessions
  UnclaimedGaveUp
  QuietAgreement
  PipelineAlternates
PROPERTIES
  LoopsEnd
