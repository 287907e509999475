SPECIFICATION FairSpec
CONSTANTS
  Wait = 3
  MaxWait = 5
  MaxTimers = 3
  MaxCalls = 4
  None = None
INVARIANTS TypeOK BoundedWait
PROPERTIES CancelledStays LastCallAnswered
