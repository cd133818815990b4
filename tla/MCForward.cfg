CONSTANTS
  None = None
  Calls <- MCCalls
SPECIFICATION Spec
INVARIANTS
  TypeOK
  OutputCorrect
  ReaderCoherent
  ResidentBounded
  ResultMatchesReference
  TallyIsIndexChanges
PROPERTIES
  Terminates
