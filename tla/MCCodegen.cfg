SPECIFICATION ExecSpec
CONSTANTS
  Sources <- MCAllSources
  Trees <- MCTrees
  Programs <- MCPrograms
  Number <- MCNumber
  Half = 32
  Pairs <- MCPairs
  Arrays <- MCArrays
INVARIANTS
  TypeOK
  BlocksWellFormed
  StatementsStartBlocks
  DefinedFirst
  ComputesAsWrittenBut
PROPERTIES
  Ends
