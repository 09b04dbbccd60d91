SPECIFICATION FrontSpec
CONSTANTS
  Terminals <- WLP4Terminals
  NonTerminals <- WLP4NonTerminals
  CFG <- WLP4Rules
  Lexemes <- MCLexemes
  Programs <- MCPrograms
  Sources <- AllSources
INVARIANTS
  FrontTypeOK
  DropsShadowedTypes
  TypeBeforeDcl
  TokensAtOffsets
  CountsParams
  ReadsAsWrittenButCalls
  ReadsWholeProcedures
  MovesOn
  CrashesOnlyCutShort
