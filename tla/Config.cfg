SPECIFICATION FairSpec
CONSTANTS
  Unset = Unset
  Edits = 1
  Short = 3
  MaxLangs = 1
  BadValues = {"cut", ""}
  Texts <- AllTexts
  Parts <- AllParts
  Needs <- AllNeeds
  LangSections <- Sections
CHECK_DEADLOCK FALSE
INVARIANTS PairsKept StartsAsConfigured
PROPERTY Terminates
