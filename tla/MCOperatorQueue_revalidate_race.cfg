\* A revalidation saves over a document that a worker has claimed.
SPECIFICATION OperatorSpec
CONSTANTS
  c1 = c1
  Versions = {v1, v2}
  BadVersions = {v2}
  FutureDated = {}
  NoVersion = NoVersion
  MaxAttempts = 2
  Docs = {d1}
  Companies = {c1}
  CompanyOf <- OneCompany
  Simulated = {}
  Workers = {w1, w2}
  Periodic = {}
  Threads = {t1}
  Buttons = {"enviar"}
  OperatorButtons = {"revalidar"}
  CarefulOperator = TRUE
  Nobody = Nobody
  Limit = 2
  MaxCrashes = 0
INVARIANT OneSender
