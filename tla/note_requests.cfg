SPECIFICATION Spec
CONSTANTS
  Requests = {r1, r2}
  Script = script
  NoteIds = {1, 2}
  Titles = {t1, t2}
  Contents = {c1, c2}
  Pairs <- MCPairs
  Versions = {1, 3}
INVARIANTS
  TypeOK
  SearchFollowsUnlessOverlapped
  RelationshipsFollowUnlessOverlapped
  LiveNotesHaveSearchRow
PROPERTIES
  EveryRequestIsServed
  StaleRelationshipsRepaired
