SPECIFICATION Spec
CONSTANTS
  Vocabulary <- MCVocabulary
  Defaults <- MCDefaults
  DefaultOrder <- MCDefaultOrder
  TextFields <- MCTextFields
  Texts <- MCTextFields
  Allowed <- MCAllowed
  Docs <- MCDocs
  Themes <- MCThemes
  MaxDepth = 3
  MaxLength = 20
INVARIANTS
  RunsWhatWasTyped
  ExclusionsAddUp
PROPERTIES
  ReplaysUnlessTooDeep
  ReadingsKeepMeaning
  ClicksEditOneClause
CHECK_DEADLOCK FALSE
