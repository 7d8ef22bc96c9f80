\* One worker, documents revalidated behind its back.
SPECIFICATION OperatorSpec
CONSTANTS
  c1 = c1
  Versions = {v1, v2}
  BadVersions = {v2}
  FutureDated = {v2}
  NoVersion = NoVersion
  MaxAttempts = 2
  Docs = {d1}
  Companies = {c1}
  CompanyOf <- OneCompany
  Simulated = {}
  Workers = {w1}
  Periodic = {}
  Threads = {t1, t2}
  Buttons = {"enviar"}
  OperatorButtons = {"revalidar"}
  CarefulOperator = TRUE
  Nobody = Nobody
  Limit = 2
  MaxCrashes = 0
SYMMETRY Actors
INVARIANTS
  OperatorTypeOK
PROPERTIES
  CommunicatedNeverAltered
