\* Two tabs that share a search, two plans, time enough for what was typed to expire.
SPECIFICATION Spec
CONSTANTS
  a0 = a0
  a1 = a1
  a2 = a2
  t1 = t1
  t2 = t2
  Here = a0
  Worlds <- MCWorlds
  OwnAddresses <- MCOwnAddresses
  ByHand <- MCByHand
  Databases = {"b", "master"}
  Tabs = {t1, t2}
  Rights <- MCRights
  NoPage = NoPage
  Passwords <- MCPasswords
  Forms <- MCForms
  Files = {"b"}
  Urls = {"firebird://"}
  Environment <- MCEnvironment
  ACCESS_TTL = 1
  MaxTime = 2
  MaxSources = 1
  MaxEdits = 1
  MaxKeys = 2
SYMMETRY TabsAlike
INVARIANTS
  NothingFoundIsLost
  EntriesLeadHome
  ApprovedIsExecuted
  SavedConnectionsOpen
PROPERTIES
  CredentialsGoWhereShown
  AdministratorExpires
  
\* Tabs, time and the bounds come to an end.
CHECK_DEADLOCK FALSE
