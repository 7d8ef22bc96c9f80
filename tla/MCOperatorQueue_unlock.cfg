\* Senders die and a careful operator unlocks what they left behind.
SPECIFICATION OperatorSpec
CONSTANTS
  c1 = c1
  Versions = {v1, v2}
  BadVersions = {v2}
  FutureDated = {}
  NoVersion = NoVersion
  MaxAttempts = 2
  Docs = {d1}
  Companies = {c1}
  CompanyOf <- OneCompany
  Simulated = {}
  Workers = {w1, w2}
  Periodic = {}
  Threads = {t1, t2}
  Buttons = {"enviar"}
  OperatorButtons = {"desbloquear"}
  CarefulOperator = TRUE
  Nobody = Nobody
  Limit = 2
  MaxCrashes = 2
SYMMETRY Actors
INVARIANTS
  OneSender
  QueuedIsValid
PROPERTIES
  CommunicatedNeverAltered
  InterruptedWaitsForOperator
