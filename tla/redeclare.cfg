SPECIFICATION Spec
CONSTANTS
  a = a
  b = b
  Names = {a, b}
  NoName = NoName
  ResolverChain <- MCResolvers
  LoaderChain <- MCLoaders
  MaxDeclares = 2
  MaxImports = 2
  MaxEvals = 1
INVARIANT RedeclarationWins
CHECK_DEADLOCK FALSE
