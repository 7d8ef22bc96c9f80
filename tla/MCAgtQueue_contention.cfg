\* One document, two workers and two threads: every race on one row.
SPECIFICATION Spec
CONSTANTS
  c1 = c1
  c2 = c2
  Versions = {v1, v2}
  BadVersions = {v2}
  NoVersion = NoVersion
  MaxAttempts = 2
  Docs = {d1}
  Companies = {c1}
  CompanyOf <- OneCompany
  Simulated = {}
  Workers = {w1, w2}
  Periodic = {}
  Threads = {t1, t2}
  Buttons = {"enviar", "reenviar"}
  Nobody = Nobody
  Limit = 2
  MaxCrashes = 1
SYMMETRY Actors
INVARIANTS
  TypeOK
  OneSender
  SettledAsAnswered
  AttemptsWithinLimit
  IInv
PROPERTIES
  OnlyTheSenderSettles
  AcceptedIsFinal
  DeliversAsPromised
