CONSTANTS
  None = None
  Functions <- MCFunctions
  Scalars <- MCScalars
  InitialFiles <- MCFiles
  MaxCalls = 2
SPECIFICATION Spec
INVARIANTS TypeOK ReturnedIntact
PROPERTIES NativeSpec CallCompletes
