CONSTANTS
  None = None
  Functions <- UnorderedFunctions
  Scalars <- MCScalars
  InitialFiles <- MCFiles
  MaxCalls = 1
SPECIFICATION Spec
INVARIANT ComputedAsNative
