SPECIFICATION Spec
CONSTANTS
  Names <- MCNames
  CoreFuns <- MCCoreFuns
  Programs <- MCPrograms
CHECK_DEADLOCK FALSE
INVARIANT OwnDeclarationsWin
INVARIANT BothPassesAgree
INVARIANT ImportsArePublic
INVARIANT EnvironmentsIsolated
INVARIANT DirectImportsBound
INVARIANT CallsReachCheckedFunctions
