\* One document with at most two lines read at a time, of eleven contents with
\* every tolerance at and beyond its limit.
SPECIFICATION Spec
CONSTANTS
  One = 10000
  Cent = 100
  Largest = 1000000
  MaxLines = 2
  MaxRows = 2
  NoColumn = NoColumn
  Contents <- TheContents
  Databases <- TheDatabases
  HeaderScore <- TheHeaderScore
  LineScore <- TheLineScore
  NumericColumns = {"source_document_id", "line_id"}
  CreationColumns = {"created_at"}
  LinkNames <- TheLinkNames
  TypeValues <- TheTypes
  Edits <- TheEdits
  Payloads <- ThePayloads
  PreviewLines = 2
  Remaps = FALSE
  MaxDay = 1
INVARIANTS
  SentAddsUp
  CutLinesAreWorthless
  RevalidationAgrees
  ReopenKeepsMapping
  OnlyWhatWasAsked
PROPERTIES
  ReadingAgainIsQuiet
  PreviewTells
