SPECIFICATION ProcessSpec
CONSTANTS
  Subject = {"calls", "control", "code", "globals", "tables", "ports", "nodes"}
  Code <- Nested
  stack_cap = 11
  frames_cap = 3
  MaxArgs = 2
  MaxCalls = 2
  MaxClosures = 3
  MaxAssignments = 1
  MaxGuards = 1
  SharedSetters = FALSE
  CREME_HANDLERS_CAP = 3
  CREME_UNWIND_CAP = 3
  CREME_EXC_HANDLERS_CAP = 3
  MaxEntries = 5
  MaxStack = 11
  Habit = {}
  CVM = {1, 2}
  CNargs = {0, 1, 2, 3}
  CLimit = 2
  GVM = {1, 2, 3}
  GName = {"current-output-port", "f", "g"}
  CREME_GLOBALS_CAP = 8
  MaxNesting = 2
  ChildrenRedirect = FALSE
  HKey = {"k", "l", "m"}
  HValue = {"u", "v"}
  COMPACT_MIN = 4
  MaxSets = 7
  BLOCK = 2
  IN_CAP = 2
  OUT_CAP = 2
  MaxStacks = 2
  MaxDepth = 2
  MaxWrites = 2
  Thread = {1, 2}
  TPeer = {"b"}
  OwnCookie = 1
  Cookie = {1, 2}
  MAX_INBOUND = 2
  SocketRoom = 2
  MaxSockets = 3
  MaxMessages = 2
  MaxCuts = 2
INVARIANTS VariablesKept ControlMirrored GlobalsMeanNames TableIsMap PortsAreStreams TransportSound NoStandstill
 
CHECK_DEADLOCK FALSE
