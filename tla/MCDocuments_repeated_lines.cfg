\* Among the payloads are some in which two lines have the same number.
SPECIFICATION Spec
CONSTANTS
  One = 10000
  Cent = 100
  Largest = 1000000
  MaxLines = 2
  MaxRows = 2
  NoColumn = NoColumn
  Contents <- TheContents
  Databases <- TheDatabases
  HeaderScore <- TheHeaderScore
  LineScore <- TheLineScore
  NumericColumns = {"source_document_id", "line_id"}
  CreationColumns = {"created_at"}
  LinkNames <- TheLinkNames
  TypeValues <- TheTypes
  Edits <- TheEdits
  Payloads <- RepeatedPayloads
  PreviewLines = 2
  Remaps = FALSE
  MaxDay = 1
INVARIANT ReadableIsKept
