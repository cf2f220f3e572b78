SPECIFICATION Spec
CONSTANT Programs <- MCPrograms
INVARIANT TypecheckerCaughtIt
