SPECIFICATION Spec
CONSTANTS
  Names <- MCNames
  Programs <- MCPrograms
  MaxDepth = 2
CHECK_DEADLOCK FALSE
INVARIANT InnerNamesShadow
