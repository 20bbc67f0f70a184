SPECIFICATION Spec
CONSTANTS
  b1 = b1
  b2 = b2
  s1 = s1
  s2 = s2
  t1 = t1
  t2 = t2
  r1 = r1
  r2 = r2
  Bodies <- MCBodies
  Styles <- MCStyles
  NoteTypes <- MCTypes
  RelTypes <- MCRelTypes
  Pairs <- MCPairs
  MaxNotes = 2
  MaxVersion = 3
SYMMETRY Symmetric
INVARIANTS
  TypeOK
  NoDanglingRelationship
  DerivedDataFollows
PROPERTIES
  RowsOnlyGoForward
  ImplementsGraph
