SPECIFICATION Spec
CONSTANT MaxFrames = 4
INVARIANT ArgumentsDoNotDiverge
PROPERTY JumpsStayInTheirFunction
PROPERTY ReturnsAreNotDropped
