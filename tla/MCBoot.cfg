\* Two replicas, a table with a TTL attribute and one without after it, as Clients
\* and LastSeen (the loser of the TTL race leaves the second one behind), two
\* attempts, two signals.
SPECIFICATION FairSpec
CONSTANTS
  Replicas = {r1, r2}
  Tables = 2
  TtlTables = {1}
  Attempts = 2
  Signals = {SIGTERM, SIGINT}
INVARIANTS
  TypeOK
  EnsuredReady
  RaceHasWinner
PROPERTIES
  NoSignalBeforeFlush
  BootAdvances
  BootEnds
