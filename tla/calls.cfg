SPECIFICATION Spec
CONSTANTS
  once = once
  method = method
  plain = plain
  cell = cell
  Functions = {once, method, plain}
  OnceFns = {once}
  Cells = {cell}
  CellOf <- MCCellOf
  NoCell = NoCell
  Main = Main
  MaxDepth = 5
  MaxThrows = 3
  MaxPanics = 2
INVARIANTS TypeOK OnceRunsOnce BorrowsExclusive NoOlderException
PROPERTY PanicReachesCaller
CHECK_DEADLOCK FALSE
