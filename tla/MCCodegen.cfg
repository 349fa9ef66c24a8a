\* Schemas on their way through generate, build and migrations, and edited.
SPECIFICATION Spec
CONSTANTS
  None = None
  Own = Own
  Snake <- SnakeCase
  TableName <- PluralCase
  Variant <- VariantCase
  Keyword <- Keywords
  Docs <- SomeDocs
  EditDocs <- LaterDocs
  OwnFiles <- SomeFiles
  NewDoc <- EventDoc
  Sources <- SomeSources
  OwnColumns <- SomeColumns
  Sanitised <- SanitisedNames
  MaxEdits = 1
INVARIANTS
  TypeOK
  RunningFitsTables
  RelationsResolve
PROPERTIES
  
  NewNeverClobbers
CHECK_DEADLOCK FALSE
