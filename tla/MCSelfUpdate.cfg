CONSTANTS
  Names = {n1, n2}
  Ids = {i1, i2, i3}
  NumBlocks = 2
  v1 = v1
  v2 = v2
  Values <- MCValues
  Zero = Zero
  None = None
  SelfUpdate = TRUE
  StaleUpdate = FALSE
  MaxCalls = 2
SPECIFICATION Spec
INVARIANT HoldsNewValue
