SPECIFICATION Spec
CONSTANTS
  Handlers <- MCHandlers
  Category <- MCCategory
  MaxDepth = 3
INVARIANTS
  Restored
