CONSTANTS
  None = None
  Calls <- AliasingCalls
  InitialFiles <- AliasingFiles
  MaxRuns = 1
SPECIFICATION Spec
INVARIANT InputsPreserved
