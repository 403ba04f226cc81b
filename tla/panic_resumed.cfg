SPECIFICATION Spec
CONSTANTS
  once = once
  method = method
  plain = plain
  cell = cell
  Functions = {once, method, plain}
  OnceFns = {once}
  Cells = {cell}
  CellOf <- MCCellOf
  NoCell = NoCell
  Main = Main
  MaxDepth = 5
  MaxThrows = 1
  MaxPanics = 1
PROPERTY PanicResumedWhereRaised
CHECK_DEADLOCK FALSE
