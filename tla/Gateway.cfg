SPECIFICATION Spec
CONSTANT MaxConns = 2
INVARIANT DestroyedDisconnected
