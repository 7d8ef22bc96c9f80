\* A real and a simulated company, the scheduler, a thread, at most one crash.
SPECIFICATION FairSpec
CONSTANTS
  c1 = c1
  c2 = c2
  Versions = {v1, v2}
  BadVersions = {v2}
  NoVersion = NoVersion
  MaxAttempts = 2
  Docs = {d1, d2}
  Companies = {c1, c2}
  CompanyOf <- TwoCompanies
  Simulated = {c2}
  Workers = {w1}
  Periodic = {w1}
  Threads = {t1}
  Buttons = {"enviar"}
  Nobody = Nobody
  Limit = 2
  MaxCrashes = 1
PROPERTIES
  QueuedIsServed
  ValidatedIsQueuedUndisturbed
