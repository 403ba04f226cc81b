SPECIFICATION CrossingSpec
CONSTANTS
  SmallBits = 1
  SafeBits = 2
  WideBits = 4
  Signatures <- MCSignatures
  ArgSets <- MCArgSets
  Into <- AllInto
  From <- AllFrom
  Depth = 3
  Crossed <- MCCrossed
  Written <- MCWritten
  Foreign <- MCForeign
  Handed <- MCHanded
  ItemTypes <- MCItemTypes
  KeyTypes <- MCKeyTypes
  Filters <- MCFilters
  MaxDate = 3
  MaxEdits = 2
  Sources = {"iterable", "foreign"}
  MaxItems = 3
  MaxCalls = 5
INVARIANTS AllTypesOK ArgumentsInPlace Exact RoundTrip
INVARIANTS ComesBack InterpretationSound WalkComplete KeysAsTheyWere ItemsInOrder
PROPERTY StaysExhausted
CHECK_DEADLOCK FALSE
