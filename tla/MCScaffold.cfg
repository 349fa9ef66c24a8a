\* A scaffolded project is run, then its own schema is generated and adopted.
SPECIFICATION Spec
CONSTANTS
  None = None
  Own = Own
  Snake <- SnakeCase
  TableName <- PluralCase
  Variant <- VariantCase
  Keyword <- Keywords
  Docs <- NoDocs
  EditDocs <- NoDocs
  OwnFiles <- NoFiles
  NewDoc <- EventDoc
  Sources <- StubSource
  OwnColumns <- SomeColumns
  Sanitised <- SanitisedNames
  MaxEdits = 1
INVARIANTS
  ScaffoldThenGenerate
CHECK_DEADLOCK FALSE
