SPECIFICATION Spec
CONSTANTS
  Runs = {r1, r2, r3}
  NoRun = NoRun
  CompilerFails = FALSE
SYMMETRY RunSymmetry
INVARIANTS
  ExitMeansExecutable
