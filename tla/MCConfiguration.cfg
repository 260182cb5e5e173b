CONSTANTS
  Leaves = {3, 4}
  Subs = {1, 2}
  Objects = {c, d}
  NoObject = NoObject
  ParamTrees <- MCParamTrees
  SetKeys <- MCSetKeys
  SubIds <- MCSubIds
  SetValues = {"u"}
  AnyValues = {"u", "v"}
  Options <- MCOptions
  Paramfile <- MCParamfile
  Files <- MCFiles
  Datadir <- MCDatadir
  Logdir <- MCLogdir
  DefaultLog = DefaultLog
  MaxKeys = 3
  MaxDepth = 3
SPECIFICATION Spec
SYMMETRY Symmetry
INVARIANTS
  WrittenReadsBack
  AddMerges
PROPERTIES
  NothingOverwritten
