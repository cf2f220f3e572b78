SPECIFICATION Spec
CONSTANT Programs <- MCPrograms
INVARIANT NothingBeingSolvedIsCaptured
