SPECIFICATION Spec
CONSTANTS
  Names <- MCNames
  CoreFuns <- MCCoreFuns
  Programs <- Documented
CHECK_DEADLOCK FALSE
INVARIANT ConflictsAreReferenced
INVARIANT ExportsArePublic
INVARIANT ForeignTypesArePublic
INVARIANT HandlesAreImportable
INVARIANT ImportSourcesExist
INVARIANT MethodsAreBound
INVARIANT NestedFunctionsStayInside
INVARIANT OwnNamesAreAccessible
INVARIANT OwnDeclarationsShadowImports
INVARIANT RenamedImportsAreBound
INVARIANT ExplicitImportsBeatGlobs
INVARIANT ReExportsAreBound
INVARIANT ReExportsHaveSchemes
INVARIANT ShadowedCoreNamesAgree
