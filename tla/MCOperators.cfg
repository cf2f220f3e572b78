SPECIFICATION Spec
CONSTANT Width = 4
CONSTANT UserFroms <- MCUserFroms
INVARIANT OperatorsKeepTheirPromises
INVARIANT IntegersAreExact
