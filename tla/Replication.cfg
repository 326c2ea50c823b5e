SPECIFICATION Spec
CONSTANTS
  n1 = n1
  n2 = n2
  n3 = n3
  Node = {n1, n2, n3}
  None = None
  Command = {c1, c2}
  Read = {}
  Change = {}
  ActionOf <- AsNamed
  PeerOf <- ForN3
  InitPeers <- EveryOther
  InitLearners <- NoLearners
  Started = {n1, n2}
  Threshold = 100
  MaxTimeouts = 2
  MaxHeartbeats = 0
  MaxSnapshots = 0
  MaxStops = 0
  MaxCuts = 0
SYMMETRY Alike
CHECK_DEADLOCK FALSE
INVARIANTS LogMatching PendingIsOwn
PROPERTY NeverBack
CONSTRAINT FewInFlight
