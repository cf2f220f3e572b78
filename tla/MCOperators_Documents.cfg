SPECIFICATION Spec
CONSTANT Width = 4
CONSTANT UserFroms <- MCUserFroms
INVARIANT CastsConvert
INVARIANT ReleaseBuildsWrap
