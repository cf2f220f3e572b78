SPECIFICATION Spec
CONSTANTS
  Enums <- MCEnums
  Params <- MCParams
  Integers <- MCIntegers
  Values <- MCValues
  Nesting <- MCNesting
  Menus <- MCMenus
  MaxArms = 3
INVARIANT AcceptedMatchesSucceed
INVARIANT RejectedMatchesMiss
INVARIANT TakenArmIsRight
