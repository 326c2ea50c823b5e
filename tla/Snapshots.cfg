SPECIFICATION Spec
CONSTANTS
  n1 = n1
  n2 = n2
  n3 = n3
  Node = {n1, n2, n3}
  None = None
  Command = {c1, c2}
  Read = {}
  Change = {}
  ActionOf <- AsNamed
  PeerOf <- ForN3
  InitPeers <- EveryOther
  InitLearners <- NoLearners
  Started = {n1, n2, n3}
  Threshold = 2
  MaxTimeouts = 1
  MaxHeartbeats = 1
  MaxSnapshots = 1
  MaxStops = 1
  MaxCuts = 0
SYMMETRY Alike
CHECK_DEADLOCK FALSE
INVARIANT NothingSkipped
PROPERTY LeaderAppendOnly
