SPECIFICATION FrontSpec
CONSTANTS
  Terminals <- WLP4Terminals
  NonTerminals <- WLP4NonTerminals
  CFG <- WLP4Rules
  Lexemes <- MCLexemes
  Programs <- MCWhole
  Sources <- TwoParams
INVARIANTS
  ParamsInOrder
