SPECIFICATION Spec
CONSTANTS
  Vocabulary <- MCVocabulary
  Defaults <- MCDefaults
  DefaultOrder <- MCDefaultOrder
  TextFields <- MCTextFields
  Texts <- MCTextFields
  Allowed <- MCAllowed
  Docs <- MCDocs
  Themes <- MCThemes
  MaxDepth = 3
  MaxLength = 20
PROPERTIES
  ReplaysTheSame
CHECK_DEADLOCK FALSE
