\* The scheduler and an operator synchronise, one process dies.
SPECIFICATION FairSpec
CONSTANTS
  d1 = d1
  d2 = d2
  d3 = d3
  m1 = m1
  m2 = m2
  Versions = {v1, bad, torn}
  BadVersions = {torn}
  NoVersion = NoVersion
  MaxAttempts = 1
  Docs = {d1, d2}
  SourceVersions = {v1, bad}
  Unreadable = {bad}
  Mixed = torn
  Mappings = {m1, m2}
  Position <- Distinct
  LastPosition = 3
  Taken = {}
  BatchSize = 1
  InOrder = TRUE
  Correctable = {d1}
  Syncers = {s1, s2}
  Periodic = {s1}
  Editors = {}
  SlowSyncs = FALSE
  MaxCrashes = 1
INVARIANTS
  TypeOK
  OneSyncAtATime
PROPERTIES
  EveryDocumentArrives
