SPECIFICATION Spec
CONSTANTS
    Player = {1, 2}
    Role = {1, 2}
    MaxSessions = 3
INVARIANTS LookupAgrees
PROPERTIES ImplementsPlayers
CHECK_DEADLOCK FALSE
