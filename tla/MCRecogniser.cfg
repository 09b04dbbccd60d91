SPECIFICATION Spec
CONSTANTS
  Terminals <- MCTerminals
  NonTerminals <- MCNonTerminals
  CFG <- MCRules
  Lexemes <- MCLexemes
  Programs <- MCPrograms
  MaxLength = 4
INVARIANTS
  TypeOK
  NoDuplicates
  ChartInBounds
  AcceptsViablePrefixes
  AcceptsEverySentence
PROPERTIES
  FollowsTheRules
  WalkedListsFrozen
  StepsRunOut
  Terminates
