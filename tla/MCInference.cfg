SPECIFICATION Spec
CONSTANT Programs <- MCPrograms
INVARIANT CheckedProgramsRun
INVARIANT RejectedHaveNoTypes
INVARIANT SolutionSolves
INVARIANT PassesAgree
