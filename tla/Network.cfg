SPECIFICATION NetworkSpec
CONSTANTS
  MConn = {1, 2}
  Script <- Scripts
  Request <- Requests
  RECV = 12
  MUX_MAX_HEADER_BYTES = 3
  MUX_MAX_BODY_BYTES = 5
  LONG_MAX = 99
  ReallocMoves = FALSE
  SplitChunks = FALSE
  Pipelining = {2}
  Message <- Messages
  RecordTypes <- Records
  WNode = {"a", "b", "c"}
  LocalNode = {"c"}
  ProcessOf <- Processes
  MAX_DEPTH = 3
  MAX_ITEMS = 3
  MaxHops = 2
INVARIANTS ConnectionsApart MessagesArrive
PROPERTY RequestsAnswered
CHECK_DEADLOCK FALSE
