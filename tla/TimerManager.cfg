CONSTANTS
  Addr = {a1, a2}
  MaxTimers = 3
  MaxTime = 3
  MaxInterval = 2
SPECIFICATION FairSpec
INVARIANTS OwnedOnce CancelStops
PROPERTIES NeverCancelsAnother Spaced TimersRun
