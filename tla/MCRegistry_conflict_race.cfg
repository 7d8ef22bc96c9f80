\* The same document is posted twice at the same time.
SPECIFICATION Spec
CONSTANTS
  sA = sA
  sB = sB
  X = X
  cA = cA
  cB = cB
  i1 = i1
  i2 = i2
  n1 = n1
  v1 = v1
  v2 = v2
  Sources <- TwoSources
  Companies = {X}
  Codes = {cA, cB, cD}
  CompanyOf <- OneCompany
  FirstCode <- OwnCodes
  Renames = 0
  Requests = {r1, r2}
  Payloads <- AllPayloads
  Unreadable <- UnreadablePayloads
  MaxRequests = 3
PROPERTY IdenticalIsNoConflict
