SPECIFICATION FairSpec
CONSTANTS
  Workers = {w1, w2}
  Completions = {c1}
  MaxSubs = 2
  MaxEvents = 3
  MaxCrashes = 1
INVARIANTS
  TypeOK
  EventsAreStoredOnce
  RowIsOneChange
  EventsAreLostOnlyByCrashOrOverlap
PROPERTY
  RowSettles
CHECK_DEADLOCK FALSE
