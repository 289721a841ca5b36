SPECIFICATION FairSpec
CONSTANT Functor = {f1, f2, f3}
INVARIANTS NoSleepOnWork RunInOrder
PROPERTIES FunctorRuns QuitExits
CHECK_DEADLOCK FALSE
