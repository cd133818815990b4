CONSTANTS
  None = None
  Calls <- MCCalls
  InitialFiles <- MCFiles
  MaxRuns = 2
SPECIFICATION Spec
INVARIANTS
  TypeOK
  GradCorrect
  AccumulateOnce
  InputsPreserved
  ReaderCoherent
  ResidentBounded
  GradientMatchesReference
PROPERTIES
  CallEnds
