SPECIFICATION FairSpec
CONSTANTS
  Campaigns = {1, 2}
  Subscribers = {ann}
  Workers = {w1, w2}
  MaxEvents = 1
INVARIANTS
  TypeOK
  NobodyIsMailedTwice
  RowsShowWhatWasMailed
PROPERTIES
  DueIsSent
CHECK_DEADLOCK FALSE
