CONSTANTS
  Role = {r1, r2}
  CellSize = 2
  Sizes <- MCSizes
  Positions <- MCPositions
  MaxScenes = 2
  MaxListed = 3
  MaxMessages = 3
  MaxBody = 2
  Popper = {p1, p2, p3}
  MaxPushed = 3
  WheelSize = 3
  TickMs = 2
  Timeouts = {0, 5, 6, 13}
  MaxTimer = 2
  MaxTicks = 10
  MaxItems = 3
  LengthBase = 3
  Fd = {1, 2, 3}
  MaxStarts = 4
SPECIFICATION MCSpec
INVARIANT LeaveReturns
SYMMETRY MCSymmetry
CHECK_DEADLOCK FALSE
