SPECIFICATION Spec
CONSTANT MaxFrames = 5
INVARIANT ScopesBalanced
INVARIANT StackMatchesCalls
INVARIANT ErrorNamesItsCalls
INVARIANT OnlyBlockedJumpsFail
PROPERTY JumpsLand
