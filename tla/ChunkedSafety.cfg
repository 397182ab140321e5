SPECIFICATION FairSpec
CONSTANTS
  Base = 2
  MaxChunk = 4
  MaxSends = 4
INVARIANT Truthful
PROPERTIES
  ImplementsBody
  CallReturns
