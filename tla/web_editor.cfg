SPECIFICATION FairSpec
CONSTANTS
  Notes = {n1, n2}
  NewNotes = {n1}
  Typing = {"mine", "default", "blank"}
  MaxEdits = 2
  MaxOthers = 1
  MaxEvents = 2
  MaxSaves = 4
INVARIANTS
  TypeOK
  TypedTextIsStored
  OthersTextStands
  OnlyEmptyDraftsAreDiscarded
PROPERTY
  FlowsEnd
CHECK_DEADLOCK FALSE
