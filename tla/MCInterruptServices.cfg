SPECIFICATION Spec
CONSTANTS
  Handlers <- MCHandlers
  Category <- MCCategory
  MaxDepth = 3
INVARIANTS
  TypeOK
  Protected
