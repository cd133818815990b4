CONSTANTS
  None = None
  Functions <- RecalledFunctions
  Scalars <- MCScalars
  InitialFiles <- MCFiles
  MaxCalls = 2
SPECIFICATION Spec
INVARIANT EarlierResultsStable
