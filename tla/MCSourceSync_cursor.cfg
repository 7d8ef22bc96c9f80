\* Two synchronisations, a form saved over their work, one death.
SPECIFICATION Spec
CONSTANTS
  d1 = d1
  d2 = d2
  d3 = d3
  m1 = m1
  m2 = m2
  Versions = {v1, bad, torn}
  BadVersions = {torn}
  NoVersion = NoVersion
  MaxAttempts = 1
  Docs = {d1, d2}
  SourceVersions = {v1, bad}
  Unreadable = {bad}
  Mixed = torn
  Mappings = {m1}
  Position <- Distinct
  LastPosition = 3
  Taken = {d2}
  BatchSize = 2
  InOrder = TRUE
  Correctable = {d1}
  Syncers = {s1, s2}
  Periodic = {}
  Editors = {e1}
  SlowSyncs = FALSE
  MaxCrashes = 1
SYMMETRY Actors
INVARIANTS
  NothingSkipped
