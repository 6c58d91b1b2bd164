CONSTANTS
  MAXINDEXRK = 2
  LFIELDS_PER_FLUSH = 2
  StackSize = 60
  MAXTAGLOOP = 3
  Compiled <- MCCompiled
  Meant <- MCMeant
SPECIFICATION Spec
INVARIANTS ChunksReturn RunMeansProgram OpenUpvaluesLive StackDiscipline
