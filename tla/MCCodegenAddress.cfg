SPECIFICATION ExecSpec
CONSTANTS
  Sources <- MCAddressOf
  Trees <- MCTrees
  Programs <- MCPrograms
  Number <- MCNumber
  Half = 32
  Pairs <- MCPairs
  Arrays <- MCArrays
INVARIANTS
  ComputesAsWritten
