SPECIFICATION Spec
CONSTANTS
  Notes = {n1}
  Names = {a, b}
  MaxCategories = 2
  MaxVersion = 2
INVARIANT
  TypeOK
PROPERTIES
  ImplementsLabels
