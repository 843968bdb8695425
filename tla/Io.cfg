CONSTANTS
  Procs = {p1, p2, p3}
  Blocks = {b1, b2}
  Vals = {0}
  LOGSIZE = 4
  MAXOPBLOCKS = 2
  nlog = 4
  MaxOps = 5
  MaxCrashes = 0
  Sleepers = {p1, p2, p3}
  NoSleeper = none
  Requesters = {p1, p2, p3}
  NoRequester = none
  NUM = 8
  IdxWidth = 3
  Printers = {p1, p2}
  TxBytes = {"a", "b"}
  UART_TX_BUF_SIZE = 2
  TxWidth = 2
SPECIFICATION IoSpec
INVARIANTS
  HoldingIsExact
  RequestsApart
  TxOrder
PROPERTIES
  OpsStart
  WaitsOnlyForFrozen
  RequestReturns
  WriterWakes
