SPECIFICATION Spec
CONSTANTS
  a = a
  b = b
  Names = {a, b}
  NoName = NoName
  ResolverChain <- MCResolvers
  LoaderChain <- MCLoaders
  MaxDeclares = 3
  MaxImports = 4
  MaxEvals = 2
INVARIANTS TypeOK ProtectedWhileRegistered Released LoadedIsCurrent
CHECK_DEADLOCK FALSE
