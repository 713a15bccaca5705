SPECIFICATION SpecSource
CONSTANTS
  Letters <- MCLetters
  Digits = {"7"}
  Keywords <- MCKeywords
  Special <- MCSpecial
  Texts <- MCTexts
  Damage <- MCDamage
CHECK_DEADLOCK FALSE
INVARIANTS TypeOKSource NothingSkipped TruePlaces ItemsInOrder NoErrorLost ItemsAreWhole WrittenIsRead
PROPERTIES SourceIsRead
