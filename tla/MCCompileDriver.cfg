SPECIFICATION Spec
CONSTANTS
  Runs = {r1, r2, r3}
  NoRun = NoRun
  CompilerFails = TRUE
SYMMETRY RunSymmetry
INVARIANTS
  TypeOK
  AloneMakesItsOwn
  NotAllError
  
