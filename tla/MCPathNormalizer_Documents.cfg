SPECIFICATION NormalizerSpec
CONSTANTS
  Names <- MCNames
  CoreFuns <- MCCoreFuns
  Programs <- MCPrograms
  Expressions <- MCExpressions
  Locals <- MCLocals
  Variants <- MCVariants
CHECK_DEADLOCK FALSE
INVARIANT NoTryIsLeft
INVARIANT QualifiedPathsAreValid
