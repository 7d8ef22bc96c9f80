\* Requests of two sources at once, keys revoked, one source renamed.
SPECIFICATION Spec
CONSTANTS
  sA = sA
  sB = sB
  X = X
  cA = cA
  cB = cB
  i1 = i1
  i2 = i2
  n1 = n1
  v1 = v1
  v2 = v2
  Sources <- TwoSources
  Companies = {X}
  Codes = {cA, cB, cD}
  CompanyOf <- OneCompany
  FirstCode <- OwnCodes
  Renames = 1
  Requests = {r1, r2}
  Payloads <- AllPayloads
  Unreadable <- UnreadablePayloads
  MaxRequests = 3
INVARIANTS
  TypeOK
  OneRowPerDocument
  OnlyOwnDocumentsShown
  HeldStaysAsRead
  RegisterInv
PROPERTIES
  RegisterSpec
