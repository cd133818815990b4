CONSTANTS
  Names = {n1, n2}
  Ids = {i1, i2, i3, i4}
  NumBlocks = 2
  v1 = v1
  v2 = v2
  Values <- MCValues
  Zero = Zero
  None = None
  SelfUpdate = FALSE
  StaleUpdate = FALSE
  MaxCalls = 4
SPECIFICATION Spec
INVARIANTS
  TypeOK
  NeverRemovedUnderfoot
  OneRemover
  FilesAccounted
  HoldsNewValue
PROPERTIES
  StoreSpec
  DroppedFilesGo
